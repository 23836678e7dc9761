--------------------------- MODULE AppendOnlyLog ---------------------------
(***************************************************************************)
(* What a ledger (src/ledger.rs) promises whoever appends to it: the lines *)
(* on stable storage only ever get longer, record an event at most once,   *)
(* and contain everything that was acknowledged, where it was              *)
(* acknowledged.                                                           *)
(***************************************************************************)
EXTENDS SequencesExt

CONSTANTS eventOf, None

VARIABLES
  committed,  \* the lines on stable storage
  reported    \* the <<index, line>> pairs that callers were told
promise == <<committed, reported>>

EventsOnce(s) ==
  \A i, j \in DOMAIN s :
    eventOf[s[i].record] # None /\ eventOf[s[i].record] = eventOf[s[j].record] => i = j

Init == committed = <<>> /\ reported = {}

\* Lines are added at the end; none of those already there is touched.
Commit ==
  /\ IsPrefix(committed, committed')
  /\ EventsOnce(committed')
  /\ UNCHANGED reported

\* A caller is only told what is committed; also a retry, and more than once.
Tell ==
  /\ \E i \in DOMAIN committed : reported' = reported \union {<<i, committed[i]>>}
  /\ UNCHANGED committed

Next == Commit \/ Tell

Spec == Init /\ [][Next]_promise
=============================================================================
