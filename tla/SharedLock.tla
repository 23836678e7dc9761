----------------------------- MODULE SharedLock -----------------------------
(***************************************************************************)
(* What the two modes of a ledger's lock mean (src/ledger.rs, LockMode): a *)
(* writer excludes writers and signers, a signer excludes writers.         *)
(***************************************************************************)
CONSTANT Threads

VARIABLES
  writers,  \* the threads that may append
  readers   \* the threads that may sign
holders == <<writers, readers>>

Init == writers = {} /\ readers = {}

Write ==
  /\ writers = {} /\ readers = {}
  /\ \E t \in Threads : writers' = {t}
  /\ UNCHANGED readers

Read ==
  /\ writers = {}
  /\ \E t \in Threads : readers' = readers \union {t}
  /\ UNCHANGED writers

\* Holders leave, several at once when their process is killed.
Release == writers' \subseteq writers /\ readers' \subseteq readers

Next == Write \/ Read \/ Release

Spec == Init /\ [][Next]_holders
=============================================================================
