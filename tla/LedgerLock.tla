----------------------------- MODULE LedgerLock -----------------------------
(***************************************************************************)
(* The lock of a ledger (src/ledger.rs, LedgerLock): what threads of       *)
(* several processes go through before they append to one log or sign it.  *)
(*                                                                         *)
(* A writer locks the log file itself, the gate; a writer or a signer then *)
(* claims the one slot its process has for the log; only then it opens the *)
(* record-lock file and locks that, exclusively or shared.  The record     *)
(* lock is a POSIX one: it belongs to the process, a second request of the *)
(* process converts it, and closing any descriptor of the file drops it.   *)
(* The log and the lock file keep their inodes: nothing here removes them. *)
(***************************************************************************)
EXTENDS Naturals

CONSTANTS
  Threads, Processes,
  proc,      \* proc[t]: the process of thread t
  ReadOnly,  \* processes that cannot write to the directory of the log
  None,      \* no thread
  MaxCalls   \* bound on the calls of each thread

ASSUME LockAssumption ==
  /\ proc \in [Threads -> Processes]
  /\ ReadOnly \subseteq Processes
  /\ None \notin Threads
  /\ MaxCalls \in Nat

VARIABLES
  pc,        \* pc[t]: how far thread t is in acquire_as or drop
  mode,      \* mode[t]: LockMode, "write" or "read"
  gate,      \* the thread that has the exclusive lock on the log file
  slot,      \* slot[p]: the thread that has claimed the slot of process p
  record,    \* record[p]: what process p has locked: "none", "read" or "write"
  lockFile,  \* the record-lock file exists
  calls      \* calls[t]: how often thread t has called acquire
vars == <<pc, mode, gate, slot, record, lockFile, calls>>

-----------------------------------------------------------------------------
(* acquire_as                                                              *)

Modes == {"write", "read"}

\* With the slot claimed, and with the gate locked if it is a writer.
InSlot == {"open", "lock", "held", "close", "unslot"}
InGate == InSlot \union {"slot", "ungate"}
Points == InGate \union {"idle", "gate"}

Init ==
  /\ pc = [t \in Threads |-> "idle"]
  /\ mode = [t \in Threads |-> "read"]
  /\ gate = None
  /\ slot = [p \in Processes |-> None]
  /\ record = [p \in Processes |-> "none"]
  /\ lockFile = FALSE
  /\ calls = [t \in Threads |-> 0]

Goto(t, point) == pc' = [pc EXCEPT ![t] = point]

\* append calls acquire, sign_head acquire_shared, which passes the gate by.  A
\* process without write access cannot open the log for appending.
Call(t, m) ==
  /\ pc[t] = "idle" /\ calls[t] < MaxCalls
  /\ m = "write" => proc[t] \notin ReadOnly
  /\ mode' = [mode EXCEPT ![t] = m]
  /\ calls' = [calls EXCEPT ![t] = @ + 1]
  /\ Goto(t, IF m = "write" THEN "gate" ELSE "slot")
  /\ UNCHANGED <<gate, slot, record, lockFile>>

\* lock_exclusive waits for every other writer, of this process or another.
LockGate(t) ==
  /\ pc[t] = "gate" /\ gate = None
  /\ gate' = t
  /\ Goto(t, "slot")
  /\ UNCHANGED <<mode, slot, record, lockFile, calls>>

\* The log has a second link, or its path names another file by now.
RefuseLog(t) ==
  /\ pc[t] = "slot"
  /\ Goto(t, "ungate")
  /\ UNCHANGED <<mode, gate, slot, record, lockFile, calls>>

\* Mutant of ClaimSlot: a second thread of the process does not wait.
ClaimAnyway(t) ==
  /\ pc[t] = "slot"
  /\ slot' = [slot EXCEPT ![proc[t]] = t]
  /\ Goto(t, "open")
  /\ UNCHANGED <<mode, gate, record, lockFile, calls>>

\* Slot::claim waits on a condition variable.
ClaimSlot(t) ==
  /\ pc[t] = "slot" /\ slot[proc[t]] = None
  /\ slot' = [slot EXCEPT ![proc[t]] = t]
  /\ Goto(t, "open")
  /\ UNCHANGED <<mode, gate, record, lockFile, calls>>

\* open_record_lock: the file is opened, or created by whoever can.
OpenRecord(t) ==
  /\ pc[t] = "open" /\ (lockFile \/ proc[t] \notin ReadOnly)
  /\ lockFile' = TRUE
  /\ Goto(t, "lock")
  /\ UNCHANGED <<mode, gate, slot, record, calls>>

\* The file cannot be opened or created.
OpenFails(t) ==
  /\ pc[t] = "open"
  /\ Goto(t, "unslot")
  /\ UNCHANGED <<mode, gate, slot, record, lockFile, calls>>

\* Mutant of Compatible: a writer waits for writers only.
CompatibleWithWriters(m, q) == m = "read" \/ record[q] # "write"

\* What the record locks of other processes allow.
Compatible(m, q) == record[q] = "none" \/ (m = "read" /\ record[q] = "read")

\* fcntl(F_SETLKW) waits for the locks of other processes, and replaces what
\* its own process has locked.
LockRecord(t) ==
  /\ pc[t] = "lock"
  /\ \A q \in Processes \ {proc[t]} : Compatible(mode[t], q)
  /\ record' = [record EXCEPT ![proc[t]] = mode[t]]
  /\ Goto(t, "held")
  /\ UNCHANGED <<mode, gate, slot, lockFile, calls>>

\* The file is not a regular one with one link, or fcntl fails; the descriptor
\* is closed on return.
LockFails(t) ==
  /\ pc[t] = "lock"
  /\ Goto(t, "close")
  /\ UNCHANGED <<mode, gate, slot, record, lockFile, calls>>

-----------------------------------------------------------------------------
(* drop                                                                    *)

\* Mutant of Close: the slot is given up with the descriptor still open, and
\* the lock with it.
CloseLater(t) ==
  /\ pc[t] \in {"held", "close"}
  /\ Goto(t, "unslot")
  /\ UNCHANGED <<mode, gate, slot, record, lockFile, calls>>

\* The descriptor of the lock file is closed: whatever the process has locked
\* through any descriptor is unlocked.
Close(t) ==
  /\ pc[t] \in {"held", "close"}
  /\ record' = [record EXCEPT ![proc[t]] = "none"]
  /\ Goto(t, "unslot")
  /\ UNCHANGED <<mode, gate, slot, lockFile, calls>>

ReleaseSlot(t) ==
  /\ pc[t] = "unslot"
  /\ slot' = [slot EXCEPT ![proc[t]] = None]
  /\ Goto(t, "ungate")
  /\ UNCHANGED <<mode, gate, record, lockFile, calls>>

\* Mutant of UnlockGate: the gate of a writer stays locked.
KeepGate(t) ==
  /\ pc[t] = "ungate"
  /\ Goto(t, "idle")
  /\ UNCHANGED <<mode, gate, slot, record, lockFile, calls>>

\* Of a signer there is nothing to unlock.
UnlockGate(t) ==
  /\ pc[t] = "ungate"
  /\ gate' = IF gate = t THEN None ELSE gate
  /\ Goto(t, "idle")
  /\ UNCHANGED <<mode, slot, record, lockFile, calls>>

\* A process is killed with all its threads; the system closes its files.
Kill(p) ==
  /\ \E t \in Threads : proc[t] = p /\ pc[t] # "idle"
  /\ pc' = [t \in Threads |-> IF proc[t] = p THEN "idle" ELSE pc[t]]
  /\ gate' = IF gate # None /\ proc[gate] = p THEN None ELSE gate
  /\ slot' = [slot EXCEPT ![p] = None]
  /\ record' = [record EXCEPT ![p] = "none"]
  /\ UNCHANGED <<mode, lockFile, calls>>

\* What a thread does once it has called, and what can stop it.
Advance(t) ==
  \/ LockGate(t) \/ ClaimSlot(t) \/ OpenRecord(t) \/ LockRecord(t)
  \/ Close(t) \/ ReleaseSlot(t) \/ UnlockGate(t)

Refused(t) == RefuseLog(t) \/ OpenFails(t) \/ LockFails(t)

Next ==
  \/ \E t \in Threads, m \in Modes : Call(t, m)
  \/ \E t \in Threads : Advance(t) \/ Refused(t)
  \/ \E p \in Processes : Kill(p)

Spec == Init /\ [][Next]_vars

\* A thread that can go on does: the system wakes who waits for a lock that is
\* free, notify_all who waits for the slot, and no caller keeps the lock for ever.
\* Nothing relies on a refusal but that of a process that cannot create the file.
FairSpec ==
  Spec /\ \A t \in Threads :
    WF_vars(Advance(t)) /\ WF_vars(OpenFails(t) /\ proc[t] \in ReadOnly /\ ~lockFile)

-----------------------------------------------------------------------------
(* Properties                                                              *)

TypeOK ==
  /\ pc \in [Threads -> Points] /\ mode \in [Threads -> Modes]
  /\ gate \in Threads \union {None}
  /\ slot \in [Processes -> Threads \union {None}]
  /\ record \in [Processes -> Modes \union {"none"}]
  /\ lockFile \in BOOLEAN /\ calls \in [Threads -> Nat]
  /\ gate # None => mode[gate] = "write" /\ pc[gate] \in InGate
  /\ \A p \in Processes :
       slot[p] # None => proc[slot[p]] = p /\ pc[slot[p]] \in InSlot

Holding(m) == {t \in Threads : pc[t] = "held" /\ mode[t] = m}

\* A writer works alone: no other thread has the lock, of this process or of
\* another, as a writer or as a signer.
WriterExcludesAll ==
  \A t \in Holding("write"), u \in Threads : u # t => pc[u] # "held"

\* A thread that works under the lock has it in the system too: no other thread
\* of its process has converted it or dropped it by closing the file.
LockIsNotLost == \A t \in Threads : pc[t] = "held" => record[proc[t]] = mode[t]

\* A process never waits for a record lock while it has one, so a request never
\* converts a lock, and the system never sees a cycle of processes.
NeverHoldsAndWaits == \A t \in Threads : pc[t] = "lock" => record[proc[t]] = "none"

\* Everybody who asks for the lock gets it or is refused: gate, slot and record
\* lock never make a cycle.
EveryCallReturns == \A t \in Threads : pc[t] # "idle" ~> pc[t] = "idle"

\* What append and sign_head are promised.
Shared == INSTANCE SharedLock WITH
  writers <- Holding("write"), readers <- Holding("read")

\* Gate, slot and record lock make one lock that writers have alone and signers
\* share, across threads, processes and kills.
ImplementsSharedLock == Shared!Spec
=============================================================================
