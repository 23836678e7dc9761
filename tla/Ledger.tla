------------------------------- MODULE Ledger -------------------------------
(***************************************************************************)
(* The append-only ledger of one stack (src/ledger.rs): writers (`append`) *)
(* and signers (`sign_head`) on one log file and one head file, any of     *)
(* which can be killed between two system calls, on a machine that can     *)
(* lose its power.                                                         *)
(*                                                                         *)
(* `log` and `tail` are the file as processes read it, `synced` and        *)
(* `syncedTail` what a flush has put on stable storage.  A head signs the  *)
(* Merkle root of the lines it covers and is represented by those lines.   *)
(* The lock is taken as SharedLock states it and LedgerLock implements it: *)
(* a writer excludes everybody, a signer excludes writers.  A refused      *)
(* append or signing (a stale expected head, a reused event, a log that    *)
(* does not parse) changes nothing and is no step; show and verify only    *)
(* read.                                                                   *)
(***************************************************************************)
EXTENDS SequencesExt

CONSTANTS
  Writers, Signers,  \* processes in `ledger append` and in `ledger head`
  Records, Events,   \* record files, and the build.event_id values in them
  eventOf,           \* eventOf[r]: the event of record r, or None
  None,              \* no event, head, tail or plan
  MaxLines,          \* bound on the lines ever written
  MaxLosses          \* bound on the losses of power

ASSUME LedgerAssumption ==
  /\ Writers \intersect Signers = {}
  /\ eventOf \in [Records -> Events \union {None}]
  /\ None \notin Events
  /\ MaxLines \in Nat /\ MaxLosses \in Nat

VARIABLES
  log,         \* the complete lines of the log
  tail,        \* what follows the last newline: part of a line, or None
  quarantine,  \* the lines of tails that have been copied to files of their own
  synced,      \* how many lines are on stable storage
  syncedTail,  \* the tail on stable storage
  linked,      \* the directory entry of the log is on stable storage
  head,        \* the head file
  surviving,   \* the head files that a loss of power may leave
  pc,          \* pc[p]: the next step of process p
  plan,        \* plan[p]: what the append of p has decided
  view,        \* view[p]: the entries p has in memory, to be signed
  stamp,       \* number of lines written so far; makes every line different
  losses,      \* number of losses of power so far
  acked,       \* history: the plans of the appends that have been reported
  heads,       \* history: the heads that have been visible
  stranded     \* history: a signer published a line that was not flushed
content == <<log, tail, quarantine>>
stable == <<synced, syncedTail, linked>>
signed == <<head, surviving, heads, stranded>>
local == <<pc, plan, view>>
vars == <<content, stable, signed, local, stamp, losses, acked>>

-----------------------------------------------------------------------------
(* The data                                                                *)

Procs == Writers \union Signers

\* A sealed record.  The stamp stands for `ts`, which makes the line of an
\* append differ from every other one; its position is its `index`.
Line == [record : Records, stamp : Nat]

\* The bytes of a write that stopped before the newline: the line is torn, or
\* whole and only its newline is missing.
Fragment == [line : Line, whole : BOOLEAN]

\* index: where the line is or will be; fresh: it is not in the log yet;
\* basis: the expected head the caller passed, or None.
Plan == [line : Line, index : Nat, fresh : BOOLEAN, basis : Seq(Line) \union {None}]

Points == {"idle", "copy", "cut", "write", "flush", "link", "sign", "publish", "report"}

Init ==
  /\ log = <<>> /\ tail = None /\ quarantine = {}
  /\ synced = 0 /\ syncedTail = None /\ linked = FALSE
  /\ head = None /\ surviving = {None} /\ heads = {} /\ stranded = FALSE
  /\ pc = [p \in Procs |-> "idle"]
  /\ plan = [p \in Procs |-> None]
  /\ view = [p \in Procs |-> <<>>]
  /\ stamp = 0 /\ losses = 0 /\ acked = {}

Goto(p, point) == pc' = [pc EXCEPT ![p] = point] /\ UNCHANGED <<plan, view>>

\* The process returns or is killed; the system releases its lock.
Leave(p) ==
  /\ pc' = [pc EXCEPT ![p] = "idle"]
  /\ plan' = [plan EXCEPT ![p] = None]
  /\ view' = [view EXCEPT ![p] = <<>>]

-----------------------------------------------------------------------------
(* append                                                                  *)

\* Mutant of FreeToWrite: a writer does not wait for signers.
IgnoreSigners == \A w \in Writers : pc[w] = "idle"

\* LockMode: what a writer waits for, and what a signer waits for.
FreeToWrite == \A p \in Procs : pc[p] = "idle"
FreeToSign == \A w \in Writers : pc[w] = "idle"

\* Mutant of Recorded: only flushed lines are looked at.
RecordedFlushed(e) == {i \in 1..synced : e # None /\ eventOf[log[i].record] = e}

\* The positions at which an event is recorded.
Recorded(e) == {i \in DOMAIN log : e # None /\ eventOf[log[i].record] = e}

\* Mutant of Meets: a log that extends the expected head is always enough.
MeetsPrefix(basis, fresh) == basis # None => IsPrefix(basis, log)

\* --expect-head: the log extends the expected head, and a new line follows it
\* directly.
Meets(basis, fresh) ==
  basis # None => IsPrefix(basis, log) /\ (fresh => Len(basis) = Len(log))

\* Mutant of AfterRepair: a line that is in the log counts as flushed.
TrustRetry(fresh) == IF fresh THEN "write" ELSE "link"

\* A line that is in the log already is flushed, not written: its writer may
\* have stopped before the flush.
AfterRepair(fresh) == IF fresh THEN "write" ELSE "flush"

\* append up to its last check, under the writer's lock.  A whole last line
\* without its newline is neither repaired nor appended after.
Begin(w, line, index, fresh, basis) ==
  /\ pc[w] = "idle" /\ FreeToWrite
  /\ tail # None => ~tail.whole
  /\ Meets(basis, fresh)
  /\ plan' = [plan EXCEPT ![w] =
       [line |-> line, index |-> index, fresh |-> fresh, basis |-> basis]]
  /\ view' = [view EXCEPT ![w] = log]
  /\ pc' = [pc EXCEPT ![w] = IF tail = None THEN AfterRepair(fresh) ELSE "copy"]
  /\ UNCHANGED <<content, stable, signed, losses, acked>>

\* A record without an event, or whose event is not recorded, gets a new line.
BeginAppend(w, r, basis) ==
  /\ Recorded(eventOf[r]) = {}
  /\ stamp < MaxLines
  /\ Begin(w, [record |-> r, stamp |-> stamp + 1], Len(log) + 1, TRUE, basis)
  /\ stamp' = stamp + 1

\* The same record under an event that is recorded once is acknowledged; other
\* content under that event is refused.
BeginRetry(w, r, basis) ==
  \E i \in Recorded(eventOf[r]) :
    /\ Recorded(eventOf[r]) = {i}
    /\ log[i].record = r
    /\ Begin(w, log[i], i, FALSE, basis)
    /\ UNCHANGED stamp

\* Mutant of CopyTail: the tail is cut without a copy.
CopyNothing(w) ==
  /\ pc[w] = "copy"
  /\ Goto(w, "cut")
  /\ UNCHANGED <<content, stable, signed, stamp, losses, acked>>

\* quarantine_tail: the tail is copied to a new file, and the copy is flushed.
CopyTail(w) ==
  /\ pc[w] = "copy"
  /\ quarantine' = quarantine \union {tail.line}
  /\ Goto(w, "cut")
  /\ UNCHANGED <<log, tail, stable, signed, stamp, losses, acked>>

\* quarantine_tail: set_len and sync_all.
CutTail(w) ==
  /\ pc[w] = "cut"
  /\ tail' = None /\ syncedTail' = None /\ synced' = Len(log)
  /\ Goto(w, AfterRepair(plan[w].fresh))
  /\ UNCHANGED <<log, quarantine, linked, signed, stamp, losses, acked>>

\* The flush after set_len fails, or the writer is killed before it.
CutUnflushed(w) ==
  /\ pc[w] = "cut"
  /\ tail' = None
  /\ Leave(w)
  /\ UNCHANGED <<log, quarantine, stable, signed, stamp, losses, acked>>

\* Mutant of WriteLine: the written line is not flushed.
WriteUnflushed(w) ==
  /\ pc[w] = "write"
  /\ log' = Append(log, plan[w].line)
  /\ view' = [view EXCEPT ![w] = Append(@, plan[w].line)]
  /\ pc' = [pc EXCEPT ![w] = "link"]
  /\ UNCHANGED <<tail, quarantine, stable, signed, plan, stamp, losses, acked>>

\* write_line: write_all.
WriteLine(w) ==
  /\ pc[w] = "write"
  /\ log' = Append(log, plan[w].line)
  /\ view' = [view EXCEPT ![w] = Append(@, plan[w].line)]
  /\ pc' = [pc EXCEPT ![w] = "flush"]
  /\ UNCHANGED <<tail, quarantine, stable, signed, plan, stamp, losses, acked>>

\* The writer is killed inside write_all, or its write stops short and cannot
\* be cut back: part of the line stays.
Tear(w) ==
  /\ pc[w] = "write"
  /\ \E whole \in BOOLEAN : tail' = [line |-> plan[w].line, whole |-> whole]
  /\ Leave(w)
  /\ UNCHANGED <<log, quarantine, stable, signed, stamp, losses, acked>>

\* sync_all of the log, after a write and before an acknowledgement.
Flush(w) ==
  /\ pc[w] = "flush"
  /\ synced' = Len(log) /\ syncedTail' = tail
  /\ Goto(w, "link")
  /\ UNCHANGED <<content, linked, signed, stamp, losses, acked>>

\* write_line: the flush fails and the line is cut back to where it started.
CutBack(w) ==
  /\ pc[w] = "flush" /\ plan[w].fresh
  /\ log' = SubSeq(log, 1, plan[w].index - 1)
  /\ synced' = plan[w].index - 1 /\ syncedTail' = tail
  /\ Leave(w)
  /\ UNCHANGED <<tail, quarantine, linked, signed, stamp, losses, acked>>

\* sync_directory; then --head-out is written, if the caller asked for it.
Link(w) ==
  /\ pc[w] = "link"
  /\ linked' = TRUE
  /\ Goto(w, "sign") \/ Goto(w, "report")
  /\ UNCHANGED <<content, synced, syncedTail, signed, stamp, losses, acked>>

\* append returns its report.
Report(w) ==
  /\ pc[w] = "report"
  /\ acked' = acked \union {plan[w]}
  /\ Leave(w)
  /\ UNCHANGED <<content, stable, signed, stamp, losses>>

-----------------------------------------------------------------------------
(* sign_head, and the head file                                            *)

\* sign_head up to its signature, under the signer's lock: a log with a tail
\* does not parse.
BeginSigning(s) ==
  /\ pc[s] = "idle" /\ FreeToSign
  /\ tail = None
  /\ view' = [view EXCEPT ![s] = log]
  /\ pc' = [pc EXCEPT ![s] = "sign"]
  /\ UNCHANGED <<content, stable, signed, plan, stamp, losses, acked>>

\* The lines of a head would survive a loss of power.
Durable(h) == Len(h) <= synced /\ (h # <<>> => linked)

\* replace_file: a flushed new file is renamed over the head file.
WriteHead(p) ==
  /\ pc[p] = "sign"
  /\ head' = view[p] /\ surviving' = surviving \union {view[p]}
  /\ heads' = heads \union {view[p]}
  /\ stranded' = (stranded \/ (p \in Signers /\ ~Durable(view[p])))
  /\ Goto(p, "publish")
  /\ UNCHANGED <<content, stable, stamp, losses, acked>>

\* replace_file: sync_directory.
FlushHead(p) ==
  /\ pc[p] = "publish"
  /\ surviving' = {head}
  /\ IF p \in Writers THEN Goto(p, "report") ELSE Leave(p)
  /\ UNCHANGED <<content, stable, head, heads, stranded, stamp, losses, acked>>

-----------------------------------------------------------------------------
(* The environment, and the specification                                  *)

\* The process is killed, or a call fails whose failure leaves the files alone.
Kill(p) ==
  /\ pc[p] # "idle"
  /\ Leave(p)
  /\ UNCHANGED <<content, stable, signed, stamp, losses, acked>>

\* The parts of a line that a write of it can leave behind.
Parts(line, whole) == {None} \union [line : {line}, whole : {FALSE, whole}]

\* What may follow the k-th line once power was lost: part of the next line, or
\* the last tail, or the tail that a repair had not finished to cut.
Remains(k) ==
  IF k < Len(log) THEN Parts(log[k + 1], TRUE)
  ELSE IF tail = syncedTail THEN {tail}
  ELSE {syncedTail} \union IF tail = None THEN {None} ELSE Parts(tail.line, tail.whole)

\* Power is lost and the machine starts again.  The flushed lines are left and an
\* initial part of the others.  A log whose directory entry was not flushed may
\* be gone, and the head file may be any since the one that was flushed last.
LosePower ==
  /\ losses < MaxLosses
  /\ losses' = losses + 1
  /\ \/ \E k \in synced..Len(log) :
          /\ log' = SubSeq(log, 1, k) /\ synced' = k
          /\ tail' \in Remains(k) /\ syncedTail' = tail'
          /\ linked' = (linked \/ k > 0)
     \/ /\ ~linked
        /\ log' = <<>> /\ tail' = None
        /\ synced' = 0 /\ syncedTail' = None /\ linked' = FALSE
  /\ \E h \in surviving : head' = h /\ surviving' = {h}
  /\ pc' = [p \in Procs |-> "idle"]
  /\ plan' = [p \in Procs |-> None]
  /\ view' = [p \in Procs |-> <<>>]
  /\ UNCHANGED <<quarantine, heads, stranded, stamp, acked>>

\* A caller may pass any head it has ever seen, or none.
Appending(w) ==
  \/ \E r \in Records, basis \in heads \union {None} :
       BeginAppend(w, r, basis) \/ BeginRetry(w, r, basis)
  \/ CopyTail(w) \/ CutTail(w) \/ CutUnflushed(w) \/ WriteLine(w) \/ Tear(w)
  \/ Flush(w) \/ CutBack(w) \/ Link(w) \/ Report(w)

Next ==
  \/ \E w \in Writers : Appending(w)
  \/ \E s \in Signers : BeginSigning(s)
  \/ \E p \in Procs : WriteHead(p) \/ FlushHead(p) \/ Kill(p)
  \/ LosePower

Spec == Init /\ [][Next]_vars

-----------------------------------------------------------------------------
(* Properties                                                              *)

TypeOK ==
  /\ log \in Seq(Line) /\ tail \in Fragment \union {None} /\ quarantine \subseteq Line
  /\ synced \in 0..Len(log) /\ syncedTail \in Fragment \union {None} /\ linked \in BOOLEAN
  /\ head \in Seq(Line) \union {None} /\ surviving \subseteq Seq(Line) \union {None}
  /\ heads \subseteq Seq(Line) /\ stranded \in BOOLEAN
  /\ pc \in [Procs -> Points]
  /\ plan \in [Procs -> Plan \union {None}]
  /\ view \in [Procs -> Seq(Line)]
  /\ stamp \in Nat /\ losses \in Nat /\ acked \subseteq Plan

\* An append that was reported stays: its line is where the report says, on
\* stable storage, through retries, repairs, kills and losses of power.
AckedDurable ==
  \A a \in acked : linked /\ a.index <= synced /\ log[a.index] = a.line

EventsOnce(s) ==
  \A i, j \in DOMAIN s :
    eventOf[s[i].record] # None /\ eventOf[s[i].record] = eventOf[s[j].record] => i = j

\* A retry never records its event twice, whatever became of the attempts
\* before it.
EventRecordedOnce == EventsOnce(log)

\* --expect-head compares and appends: a new line that was reported follows
\* exactly the head its caller expected, so of two writers that saw one head
\* only one can have appended to it.
AppendsToItsHead ==
  \A a \in acked :
    a.fresh /\ a.basis # None => IsPrefix(a.basis, log) /\ Len(a.basis) = a.index - 1

\* Every head that was ever visible covers an initial part of the log, so any
\* two of them are consistent, unless a signer published a line that no writer
\* had flushed.
HeadsHold == ~stranded => \A h \in heads : IsPrefix(h, log) /\ Durable(h)

\* Under the same condition, a head file is never replaced by an older one
\* while the machine runs.
HeadAdvances ==
  [][losses' = losses /\ head # None /\ ~stranded' => IsPrefix(head, head')]_vars

\* The repair of an interrupted append never destroys the only copy of what it
\* cuts from the log.
TailsKept ==
  [][losses' = losses /\ tail # None /\ tail' # tail => tail.line \in quarantine]_vars

-----------------------------------------------------------------------------
(* The promise                                                             *)

\* The lines that a loss of power cannot take.
Committed == IF linked THEN SubSeq(log, 1, synced) ELSE <<>>

Promise == INSTANCE AppendOnlyLog WITH
  committed <- Committed, reported <- {<<r.index, r.line>> : r \in acked}

\* The ledger implements an append-only log, through retries, repairs, kills and
\* losses of power: a line that is committed is never changed or lost, and a
\* caller is told of nothing else.
KeepsPromise == Promise!Spec
=============================================================================
