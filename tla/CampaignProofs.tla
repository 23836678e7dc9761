--------------------------- MODULE CampaignProofs ---------------------------
(***************************************************************************)
(* Proofs about Campaign, for every set of bundles, recipes and owners and *)
(* any number of attempts.                                                 *)
(***************************************************************************)
EXTENDS Campaign, SequenceTheorems, FiniteSetTheorems, TLAPS

-----------------------------------------------------------------------------
(* What the operations on the record do to each of its fields.             *)

LEMMA LogFields ==
  ASSUME NEW s \in Record, NEW kind \in Kinds, NEW r \in Names \union {None}, NEW j \in Nat
  PROVE  LET t == Log(s, kind, r, j) IN
         /\ t \in Record
         /\ t = [s EXCEPT !.history = t.history]
         /\ t.history = Append(s.history,
              [attempt |-> s.attempts, kind |-> kind, recipe |-> r, job |-> j])
<1> DEFINE ev == [attempt |-> s.attempts, kind |-> kind, recipe |-> r, job |-> j]
<1>1. ev \in Event /\ s.history \in Seq(Event)
  BY DEF Event, Record
<1>2. Append(s.history, ev) \in Seq(Event)
  BY <1>1
<1>3. QED
  BY <1>1, <1>2 DEF Log, Record

LEMMA FileFields ==
  ASSUME NEW s \in Record, NEW stage \in Stages, NEW r \in Names \union {None}, NEW j \in Nat,
         NEW st \in {"open", "superseded"}, NEW ev \in Nat
  PROVE  LET t == File(s, stage, r, j, st, ev) IN
         /\ t \in Record
         /\ t = [s EXCEPT !.findings = t.findings]
         /\ t.findings = Append(s.findings,
              [attempt |-> s.attempts, stage |-> stage, recipe |-> r, job |-> j,
               status |-> st, owner |-> None, evidence |-> ev])
<1> DEFINE f == [attempt |-> s.attempts, stage |-> stage, recipe |-> r, job |-> j,
                 status |-> st, owner |-> None, evidence |-> ev]
<1>1. f \in Finding /\ s.findings \in Seq(Finding)
  BY DEF Finding, Record, Unfinished
<1>2. Append(s.findings, f) \in Seq(Finding)
  BY <1>1
<1>3. QED
  BY <1>1, <1>2 DEF File, Record

LEMMA SupersededFields ==
  ASSUME NEW f \in Finding, NEW a \in Nat
  PROVE  LET g == Superseded(f, a) IN
         /\ g \in Finding
         /\ <<f.attempt, f.stage, f.recipe, f.job>> = <<g.attempt, g.stage, g.recipe, g.job>>
         /\ g.owner = f.owner /\ g.status = "superseded"
  BY DEF Superseded, Finding

LEMMA SupersedeFields ==
  ASSUME NEW s \in Record, NEW stage, NEW r
  PROVE  LET t == Supersede(s, stage, r) IN
         /\ t \in Record
         /\ t = [s EXCEPT !.findings = t.findings]
         /\ DOMAIN t.findings = DOMAIN s.findings
         /\ \A k \in DOMAIN s.findings :
              \/ /\ ~(/\ s.findings[k].stage = stage
                       /\ s.findings[k].recipe = r
                       /\ s.findings[k].status \in Unfinished)
                 /\ t.findings[k] = s.findings[k]
              \/ /\ s.findings[k].stage = stage
                 /\ s.findings[k].recipe = r
                 /\ s.findings[k].status \in Unfinished
                 /\ t.findings[k] = Superseded(s.findings[k], s.attempts)
<1> DEFINE G == [k \in DOMAIN s.findings |->
     IF /\ s.findings[k].stage = stage
        /\ s.findings[k].recipe = r
        /\ s.findings[k].status \in Unfinished
       THEN Superseded(s.findings[k], s.attempts)
       ELSE s.findings[k]]
<1>1. s.findings \in Seq(Finding) /\ s.attempts \in Nat
  BY DEF Record
<1>2. ASSUME NEW k \in DOMAIN s.findings PROVE G[k] \in Finding
  BY <1>1, SupersededFields
<1>3. G \in Seq(Finding)
  <2>1. Len(s.findings) \in Nat /\ DOMAIN s.findings = 1..Len(s.findings)
    BY <1>1
  <2>2. G \in [1..Len(s.findings) -> Finding]
    BY <1>2, <2>1
  <2> HIDE DEF G
  <2>3. QED
    BY <2>1, <2>2, SeqDef
<1>4. Supersede(s, stage, r) = [s EXCEPT !.findings = G]
  BY DEF Supersede
<1>5. \A k \in DOMAIN s.findings :
        \/ /\ ~(/\ s.findings[k].stage = stage
                 /\ s.findings[k].recipe = r
                 /\ s.findings[k].status \in Unfinished)
           /\ G[k] = s.findings[k]
        \/ /\ s.findings[k].stage = stage
           /\ s.findings[k].recipe = r
           /\ s.findings[k].status \in Unfinished
           /\ G[k] = Superseded(s.findings[k], s.attempts)
  OBVIOUS
<1>6. DOMAIN G = DOMAIN s.findings
  OBVIOUS
<1> HIDE DEF G
<1>7. QED
  BY <1>3, <1>4, <1>5, <1>6 DEF Record

-----------------------------------------------------------------------------
(* How a record grows: findings only close, and no event is forgotten.     *)

Grows(s, t) ==
  /\ OnlyClose(s.findings, t.findings)
  /\ \A e \in DOMAIN s.history : e \in DOMAIN t.history /\ t.history[e] = s.history[e]

\* Only the findings and the history may differ.
Kept(s, t) ==
  /\ t.bundle = s.bundle /\ t.status = s.status /\ t.attempts = s.attempts
  /\ t.builds = s.builds /\ t.verified = s.verified /\ t.current = s.current

LEMMA GrowsSame ==
  ASSUME NEW s, NEW t, s.findings = t.findings, s.history = t.history
  PROVE  Grows(s, t)
  BY DEF Grows, OnlyClose

LEMMA GrowsTransitive ==
  ASSUME NEW s, NEW t, NEW u, Grows(s, t), Grows(t, u)
  PROVE  Grows(s, u)
<1>1. OnlyClose(s.findings, u.findings)
  BY DEF Grows, OnlyClose
<1>2. QED
  BY <1>1 DEF Grows

LEMMA ShowsKept ==
  ASSUME NEW s, NEW t, Grows(s, t), NEW a, NEW kind, NEW r, NEW j, Shows(s, a, kind, r, j)
  PROVE  Shows(t, a, kind, r, j)
  BY DEF Grows, Shows

\* The event ev is the last one of t, and the others are where they were.
Logged(s, t, ev) ==
  /\ t \in Record /\ Kept(s, t) /\ t.findings = s.findings
  /\ Len(s.history) \in Nat /\ Len(t.history) = Len(s.history) + 1
  /\ DOMAIN s.history = 1..Len(s.history) /\ DOMAIN t.history = 1..Len(t.history)
  /\ \A e \in 1..Len(s.history) : t.history[e] = s.history[e]
  /\ t.history[Len(s.history) + 1] = ev

LEMMA LogAppends ==
  ASSUME NEW s \in Record, NEW kind \in Kinds, NEW r \in Names \union {None}, NEW j \in Nat
  PROVE  Logged(s, Log(s, kind, r, j),
                [attempt |-> s.attempts, kind |-> kind, recipe |-> r, job |-> j])
<1> DEFINE t == Log(s, kind, r, j)
           ev == [attempt |-> s.attempts, kind |-> kind, recipe |-> r, job |-> j]
<1>1. t = [s EXCEPT !.history = t.history] /\ t.history = Append(s.history, ev) /\ t \in Record
  BY LogFields
<1>2. t.findings = s.findings /\ Kept(s, t)
  BY <1>1 DEF Record, Kept
<1>3. ev \in Event /\ s.history \in Seq(Event)
  BY DEF Event, Record
<1> HIDE DEF t, ev
<1>4. /\ \A e \in 1..Len(s.history) : t.history[e] = s.history[e]
      /\ t.history[Len(s.history) + 1] = ev
      /\ Len(t.history) = Len(s.history) + 1
      /\ Len(s.history) \in Nat
      /\ DOMAIN t.history = 1..Len(t.history) /\ DOMAIN s.history = 1..Len(s.history)
  BY <1>1, <1>3, AppendProperties
<1>5. QED
  BY <1>1, <1>2, <1>4 DEF t, ev, Logged

LEMMA LogEffect ==
  ASSUME NEW s \in Record, NEW kind \in Kinds, NEW r \in Names \union {None}, NEW j \in Nat
  PROVE  LET t == Log(s, kind, r, j) IN
         /\ t \in Record /\ Kept(s, t)
         /\ Grows(s, t)
         /\ OwnersNamed(s) => OwnersNamed(t)
         /\ Shows(t, s.attempts, kind, r, j)
<1> DEFINE t == Log(s, kind, r, j)
<1>1. Logged(s, t, [attempt |-> s.attempts, kind |-> kind, recipe |-> r, job |-> j])
  BY LogAppends
<1> USE DEF Logged
<1> HIDE DEF t
<1>2. Grows(s, t)
  BY <1>1 DEF Grows, OnlyClose
<1>3. OwnersNamed(s) => OwnersNamed(t)
  BY <1>1 DEF OwnersNamed
<1>4. Shows(t, s.attempts, kind, r, j)
  BY <1>1 DEF Shows
<1>5. QED
  BY <1>1, <1>2, <1>3, <1>4 DEF t

\* The finding f is the last one of t, and the others are where they were.
Filed(s, t, f) ==
  /\ t \in Record /\ Kept(s, t) /\ t.history = s.history
  /\ Len(s.findings) \in Nat /\ Len(t.findings) = Len(s.findings) + 1
  /\ DOMAIN s.findings = 1..Len(s.findings) /\ DOMAIN t.findings = 1..Len(t.findings)
  /\ \A k \in 1..Len(s.findings) : t.findings[k] = s.findings[k]
  /\ t.findings[Len(s.findings) + 1] = f

LEMMA FileAppends ==
  ASSUME NEW s \in Record, NEW stage \in Stages, NEW r \in Names \union {None}, NEW j \in Nat,
         NEW st \in {"open", "superseded"}, NEW ev \in Nat
  PROVE  Filed(s, File(s, stage, r, j, st, ev),
               [attempt |-> s.attempts, stage |-> stage, recipe |-> r, job |-> j,
                status |-> st, owner |-> None, evidence |-> ev])
<1> DEFINE t == File(s, stage, r, j, st, ev)
           f == [attempt |-> s.attempts, stage |-> stage, recipe |-> r, job |-> j,
                 status |-> st, owner |-> None, evidence |-> ev]
<1>1. t = [s EXCEPT !.findings = t.findings] /\ t.findings = Append(s.findings, f) /\ t \in Record
  BY FileFields
<1>2. t.history = s.history /\ Kept(s, t)
  BY <1>1 DEF Record, Kept
<1>3. f \in Finding /\ s.findings \in Seq(Finding)
  BY DEF Finding, Record, Unfinished
<1> HIDE DEF t, f
<1>4. /\ \A k \in 1..Len(s.findings) : t.findings[k] = s.findings[k]
      /\ t.findings[Len(s.findings) + 1] = f
      /\ Len(t.findings) = Len(s.findings) + 1
      /\ Len(s.findings) \in Nat
      /\ DOMAIN t.findings = 1..Len(t.findings) /\ DOMAIN s.findings = 1..Len(s.findings)
  BY <1>1, <1>3, AppendProperties
<1>5. QED
  BY <1>1, <1>2, <1>4 DEF t, f, Filed

LEMMA FileEffect ==
  ASSUME NEW s \in Record, NEW stage \in Stages, NEW r \in Names \union {None}, NEW j \in Nat,
         NEW st \in {"open", "superseded"}, NEW ev \in Nat
  PROVE  LET t == File(s, stage, r, j, st, ev) IN
         /\ t \in Record /\ Kept(s, t)
         /\ Grows(s, t)
         /\ OwnersNamed(s) => OwnersNamed(t)
<1> DEFINE t == File(s, stage, r, j, st, ev)
<1>1. Filed(s, t, [attempt |-> s.attempts, stage |-> stage, recipe |-> r, job |-> j,
                   status |-> st, owner |-> None, evidence |-> ev])
  BY FileAppends
<1> USE DEF Filed
<1> HIDE DEF t
<1>2. OnlyClose(s.findings, t.findings)
  BY <1>1 DEF OnlyClose
<1>3. LET f == t.findings[Len(s.findings) + 1]
      IN  f.status \notin {"in-progress", "resolved"} /\ f.owner = None
  BY <1>1
<1>4. OwnersNamed(s) => OwnersNamed(t)
  BY <1>1, <1>3 DEF OwnersNamed
<1>5. QED
  BY <1>1, <1>2, <1>4 DEF t, Grows

LEMMA SupersedeEffect ==
  ASSUME NEW s \in Record, NEW stage, NEW r
  PROVE  LET t == Supersede(s, stage, r) IN
         /\ t \in Record /\ Kept(s, t)
         /\ Grows(s, t)
         /\ OwnersNamed(s) => OwnersNamed(t)
<1> DEFINE t == Supersede(s, stage, r)
<1>1. /\ t \in Record
      /\ t = [s EXCEPT !.findings = t.findings]
      /\ DOMAIN t.findings = DOMAIN s.findings
      /\ \A k \in DOMAIN s.findings :
            \/ t.findings[k] = s.findings[k]
            \/ /\ s.findings[k].status \in Unfinished
               /\ t.findings[k] = Superseded(s.findings[k], s.attempts)
  BY SupersedeFields
<1>2. t.history = s.history /\ Kept(s, t)
  BY <1>1 DEF Record, Kept
<1>3. s.attempts \in Nat /\ \A k \in DOMAIN s.findings : s.findings[k] \in Finding
  BY DEF Record
<1> HIDE DEF t
<1>4. OnlyClose(s.findings, t.findings)
  BY <1>1, <1>3, SupersededFields DEF OnlyClose
<1>5. OwnersNamed(s) => OwnersNamed(t)
  BY <1>1, <1>3, SupersededFields DEF OwnersNamed
<1>6. QED
  BY <1>1, <1>2, <1>4, <1>5 DEF t, Grows

-----------------------------------------------------------------------------
(* The operations run_campaign is built from.                              *)

LEMMA RecordFailureEffect ==
  ASSUME NEW s \in Record, OwnersNamed(s),
         NEW stage \in Stages, NEW r \in Names \union {None}, NEW j \in Nat
  PROVE  LET t == RecordFailure(s, stage, r, j) IN
         /\ t \in Record /\ OwnersNamed(t) /\ Grows(s, t)
         /\ t.status = "failed" /\ t.current = None
         /\ t.attempts = s.attempts /\ t.builds = s.builds /\ t.verified = s.verified
<1> DEFINE u == File(s, stage, r, j, "open", 0)
           v == [u EXCEPT !.status = "failed", !.current = None]
           t == RecordFailure(s, stage, r, j)
<1>1. u \in Record /\ OwnersNamed(u) /\ Grows(s, u) /\ Kept(s, u)
  BY FileEffect
<1>2. t = Log(v, "failed", r, j)
  BY DEF RecordFailure
<1> HIDE DEF u, t
<1>3. /\ v \in Record /\ v.status = "failed" /\ v.current = None
      /\ v.findings = u.findings /\ v.history = u.history
      /\ v.attempts = u.attempts /\ v.builds = u.builds /\ v.verified = u.verified
  BY <1>1 DEF Record, Statuses
<1> HIDE DEF v
<1>4. OwnersNamed(v) /\ Grows(u, v)
  BY <1>1, <1>3, GrowsSame DEF OwnersNamed
<1>5. "failed" \in Kinds
  BY DEF Kinds
<1>6. t \in Record /\ Kept(v, t) /\ OwnersNamed(t) /\ Grows(v, t)
  BY <1>2, <1>3, <1>4, <1>5, LogEffect
<1>7. Grows(s, t)
  BY <1>1, <1>4, <1>6, GrowsTransitive
<1>8. QED
  BY <1>1, <1>3, <1>6, <1>7 DEF Kept, t

LEMMA RecordSuccessEffect ==
  ASSUME NEW s \in Record, OwnersNamed(s),
         NEW stage \in {"build", "verify"}, NEW r \in Names, NEW j \in Nat
  PROVE  LET t == RecordSuccess(s, stage, r, j) IN
         /\ t \in Record /\ OwnersNamed(t) /\ Grows(s, t) /\ Kept(s, t)
         /\ Shows(t, s.attempts, stage, r, j)
<1> DEFINE u == Log(s, stage, r, j)
           t == RecordSuccess(s, stage, r, j)
<1>1. stage \in Kinds /\ r \in Names \union {None}
  BY DEF Kinds
<1>2. u \in Record /\ Kept(s, u) /\ OwnersNamed(u) /\ Grows(s, u) /\ Shows(u, s.attempts, stage, r, j)
  BY <1>1, LogEffect
<1>3. t = Supersede(u, stage, r)
  BY DEF RecordSuccess
<1> HIDE DEF u, t
<1>4. t \in Record /\ Kept(u, t) /\ OwnersNamed(t) /\ Grows(u, t)
  BY <1>2, <1>3, SupersedeEffect
<1>5. Grows(s, t)
  BY <1>2, <1>4, GrowsTransitive
<1>6. Shows(t, s.attempts, stage, r, j)
  BY <1>2, <1>4, ShowsKept
<1>7. QED
  BY <1>2, <1>4, <1>5, <1>6 DEF Kept, t

LEMMA RecordInterruptedEffect ==
  ASSUME NEW s \in Record, OwnersNamed(s)
  PROVE  LET t == RecordInterrupted(s) IN
         t \in Record /\ OwnersNamed(t) /\ Grows(s, t) /\ t.attempts = s.attempts
<1> DEFINE u == File(s, "campaign", s.current, 0, "superseded", 0)
           v == [u EXCEPT !.current = None]
           t == RecordInterrupted(s)
<1>1. CASE s.status # "running"
  <2>1. t = s
    BY <1>1 DEF RecordInterrupted
  <2>2. QED
    BY <2>1, GrowsSame
<1>2. CASE s.status = "running"
  <2>1. s.current \in Names \union {None} /\ "campaign" \in Stages /\ "interrupted" \in Kinds
    BY DEF Record, Stages, Kinds
  <2>2. u \in Record /\ Kept(s, u) /\ OwnersNamed(u) /\ Grows(s, u)
    BY <2>1, FileEffect
  <2>3. t = Log(v, "interrupted", s.current, 0)
    BY <1>2 DEF RecordInterrupted
  <2> HIDE DEF u, t
  <2>4. /\ v \in Record /\ v.findings = u.findings /\ v.history = u.history
        /\ v.attempts = u.attempts
    BY <2>2 DEF Record
  <2> HIDE DEF v
  <2>5. OwnersNamed(v) /\ Grows(u, v)
    BY <2>2, <2>4, GrowsSame DEF OwnersNamed
  <2>6. t \in Record /\ Kept(v, t) /\ OwnersNamed(t) /\ Grows(v, t)
    BY <2>1, <2>3, <2>4, <2>5, LogEffect
  <2>7. Grows(s, t)
    BY <2>2, <2>5, <2>6, GrowsTransitive
  <2>8. QED
    BY <2>2, <2>4, <2>6, <2>7 DEF Kept, t
<1>3. QED
  BY <1>1, <1>2

LEMMA NewAttemptEffect ==
  ASSUME NEW s \in Record
  PROVE  LET t == NewAttempt(s) IN
         /\ t \in Record /\ t.findings = s.findings /\ t.history = s.history
         /\ t.attempts = s.attempts + 1 /\ t.status = "running"
         /\ t.builds = FALSE /\ t.verified = FALSE
<1>1. s.attempts + 1 \in Nat
  BY DEF Record
<1>2. "running" \in Statuses
  BY DEF Statuses
<1>3. NewAttempt(s) = [s EXCEPT !.attempts = s.attempts + 1, !.status = "running",
                                !.builds = FALSE, !.verified = FALSE]
  BY DEF NewAttempt
<1>4. QED
  BY <1>1, <1>2, <1>3 DEF Record

LEMMA StartEffect ==
  ASSUME disk \in Record, OwnersNamed(disk), NEW b \in Bundles
  PROVE  LET t == Log(NewAttempt(RecordInterrupted(Loaded(b))), "started", None, 0) IN
         /\ t \in Record /\ OwnersNamed(t) /\ Grows(disk, t)
         /\ t.attempts = disk.attempts + 1 /\ t.status = "running"
         /\ t.builds = FALSE /\ t.verified = FALSE
<1> DEFINE u == Loaded(b)
           v == RecordInterrupted(u)
           w == NewAttempt(v)
           t == Log(w, "started", None, 0)
<1>1. u \in Record /\ u.findings = disk.findings /\ u.history = disk.history
      /\ u.attempts = disk.attempts
  BY DEF Loaded, Record
<1> HIDE DEF u
<1>2. OwnersNamed(u) /\ Grows(disk, u)
  BY <1>1, GrowsSame DEF OwnersNamed
<1>3. v \in Record /\ OwnersNamed(v) /\ Grows(u, v) /\ v.attempts = u.attempts
  BY <1>1, <1>2, RecordInterruptedEffect
<1> HIDE DEF v
<1>4. /\ w \in Record /\ w.findings = v.findings /\ w.history = v.history
      /\ w.attempts = v.attempts + 1 /\ w.status = "running"
      /\ w.builds = FALSE /\ w.verified = FALSE
  BY <1>3, NewAttemptEffect
<1> HIDE DEF w
<1>5. OwnersNamed(w) /\ Grows(v, w)
  BY <1>3, <1>4, GrowsSame DEF OwnersNamed
<1>6. "started" \in Kinds
  BY DEF Kinds
<1>7. t \in Record /\ Kept(w, t) /\ OwnersNamed(t) /\ Grows(w, t)
  BY <1>4, <1>5, <1>6, LogEffect
<1>8. Grows(disk, t)
  BY <1>2, <1>3, <1>5, <1>7, GrowsTransitive
<1> HIDE DEF t
<1>9. t \in Record /\ OwnersNamed(t) /\ Grows(disk, t)
      /\ t.attempts = disk.attempts + 1 /\ t.status = "running"
      /\ t.builds = FALSE /\ t.verified = FALSE
  BY <1>1, <1>3, <1>4, <1>7, <1>8 DEF Kept
<1>10. QED
  BY <1>9 DEF t, w, v, u

-----------------------------------------------------------------------------
(* The inductive invariant                                                 *)

\* Nobody has a copy of the state while nobody runs; while a controller runs,
\* its copy is of the same attempt, and is ahead of the file only in "build".
CopyAgrees ==
  /\ pc = "idle" => mem = disk
  /\ pc # "idle" =>
       /\ disk.status = "running" /\ mem.status = "running"
       /\ mem.attempts = disk.attempts
       /\ mem.builds = disk.builds /\ mem.builds = (pc = "verify")
       /\ mem.verified = FALSE /\ disk.verified = FALSE
       /\ pc # "build" => mem = disk
  /\ Grows(disk, mem)

\* Every job before the current one has succeeded in the current attempt.
Progress ==
  /\ pc = "prepare" => job = 1
  /\ pc = "building" => job \in DOMAIN recipes[request] /\ mem.current = recipes[request][job]
  /\ pc \in {"build", "building"} =>
       \A i \in DOMAIN recipes[request] : i < job =>
         Shows(mem, mem.attempts, "build", recipes[request][i], i)
  /\ pc = "verify" =>
       \A i \in DOMAIN checks[request] : i < job =>
         Shows(mem, mem.attempts, "verify", checks[request][i], i)

\* A build without a controller belongs to an attempt that is over, and the
\* file names its recipe as long as it says that the attempt is running.
RemoteIsPast ==
  \A a \in remote :
    /\ a <= disk.attempts
    /\ pc # "idle" => a # disk.attempts
    /\ a = disk.attempts /\ disk.status = "running" => disk.current # None

IInv ==
  /\ TypeOK
  /\ CopyAgrees
  /\ Progress
  /\ RemoteIsPast
  /\ BuildsBacked
  /\ VerifiedBacked

\* What the safety properties need of it.
LEMMA IInvImplies == IInv => FreshInstallPath /\ InFlightIsNamed
<1> SUFFICES ASSUME IInv PROVE FreshInstallPath /\ InFlightIsNamed
  OBVIOUS
<1>1. FreshInstallPath
  BY DEF IInv, CopyAgrees, RemoteIsPast, FreshInstallPath
<1>2. ASSUME pc = "building"
      PROVE  disk.current = recipes[request][job] /\ recipes[request][job] \in Names
  BY <1>2, CampaignAssumption DEF IInv, TypeOK, CopyAgrees, Progress
<1>3. InFlightIsNamed
  BY <1>2, CampaignAssumption DEF IInv, RemoteIsPast, InFlightIsNamed
<1>4. QED
  BY <1>1, <1>3

LEMMA InitIInv == Init => IInv
<1> SUFFICES ASSUME Init PROVE IInv
  OBVIOUS
<1>1. NoRecord \in Record /\ NoRecord.findings = <<>> /\ NoRecord.attempts = 0
      /\ NoRecord.builds = FALSE /\ NoRecord.verified = FALSE
  BY DEF NoRecord, Record, Statuses
<1>2. OwnersNamed(NoRecord)
  BY <1>1 DEF OwnersNamed
<1>3. TypeOK
  BY <1>1, <1>2 DEF Init, TypeOK
<1>4. Grows(disk, mem)
  BY GrowsSame DEF Init
<1>5. CopyAgrees /\ Progress /\ RemoteIsPast
  BY <1>4 DEF Init, CopyAgrees, Progress, RemoteIsPast
<1>6. BuildsBacked /\ VerifiedBacked
  BY <1>1 DEF Init, BuildsBacked, VerifiedBacked
<1>7. QED
  BY <1>3, <1>5, <1>6 DEF IInv

-----------------------------------------------------------------------------
(* Every step keeps the invariant and only lets the state file grow.       *)

LEMMA StartStep ==
  ASSUME IInv, NEW b \in Bundles, Start(b)
  PROVE  IInv' /\ Grows(disk, disk')
<1>1. disk \in Record /\ OwnersNamed(disk) /\ disk.attempts \in Nat
  BY DEF IInv, TypeOK, Record
<1>2. /\ disk' \in Record /\ OwnersNamed(disk') /\ Grows(disk, disk')
      /\ disk'.attempts = disk.attempts + 1 /\ disk'.status = "running"
      /\ disk'.builds = FALSE /\ disk'.verified = FALSE
      /\ mem' = disk'
  BY <1>1, StartEffect DEF Start, Write
<1>3. pc' = "prepare" /\ job' = 1 /\ request' = b /\ remote' = remote
  BY DEF Start
<1>4. TypeOK'
  BY <1>2, <1>3, CampaignAssumption DEF IInv, TypeOK
<1>5. CopyAgrees'
  BY <1>2, <1>3, GrowsSame DEF CopyAgrees
<1>6. Progress'
  BY <1>3 DEF Progress
<1>7. RemoteIsPast'
  BY <1>1, <1>2, <1>3 DEF IInv, TypeOK, RemoteIsPast
<1>8. BuildsBacked' /\ VerifiedBacked'
  BY <1>2 DEF BuildsBacked, VerifiedBacked
<1>9. QED
  BY <1>2, <1>4, <1>5, <1>6, <1>7, <1>8 DEF IInv

LEMMA FailStep ==
  ASSUME IInv, pc # "idle", NEW stage \in Stages, NEW r \in Names \union {None}, NEW j \in Nat,
         Fail(stage, r, j)
  PROVE  IInv' /\ Grows(disk, disk')
<1>1. mem \in Record /\ OwnersNamed(mem)
  BY DEF IInv, TypeOK
<1>2. /\ disk' \in Record /\ OwnersNamed(disk') /\ Grows(mem, disk')
      /\ disk'.status = "failed" /\ disk'.attempts = mem.attempts
      /\ disk'.builds = mem.builds /\ disk'.verified = mem.verified
      /\ mem' = disk'
  BY <1>1, RecordFailureEffect DEF Fail, Write
<1>3. pc' = "idle" /\ job' = job /\ request' = request /\ remote' = remote
  BY DEF Fail
<1>4. Grows(disk, disk')
  BY <1>2, GrowsTransitive DEF IInv, CopyAgrees
<1>5. TypeOK'
  BY <1>2, <1>3 DEF IInv, TypeOK
<1>6. CopyAgrees'
  BY <1>2, <1>3, GrowsSame DEF CopyAgrees
<1>7. Progress'
  BY <1>3 DEF Progress
<1>8. RemoteIsPast'
  BY <1>2, <1>3 DEF IInv, CopyAgrees, RemoteIsPast
<1>9. BuildsBacked'
  <2>1. SUFFICES ASSUME disk'.builds, NEW i \in DOMAIN recipes[request]
                 PROVE  Shows(disk', disk'.attempts, "build", recipes[request][i], i)
    BY <1>3 DEF BuildsBacked
  <2>2. disk.builds /\ disk'.attempts = disk.attempts
    BY <1>2, <2>1 DEF IInv, CopyAgrees
  <2>3. Shows(disk, disk.attempts, "build", recipes[request][i], i)
    BY <2>2 DEF IInv, BuildsBacked
  <2>4. QED
    BY <1>4, <2>2, <2>3, ShowsKept
<1>10. VerifiedBacked'
  BY <1>2 DEF IInv, CopyAgrees, VerifiedBacked
<1>11. QED
  BY <1>4, <1>5, <1>6, <1>7, <1>8, <1>9, <1>10 DEF IInv

LEMMA TmpdirOkStep ==
  ASSUME IInv, TmpdirOk
  PROVE  IInv' /\ Grows(disk, disk')
<1>1. mem \in Record /\ OwnersNamed(mem) /\ "tmpdir" \in Kinds /\ 0 \in Nat
  BY DEF IInv, TypeOK, Kinds
<1>2. mem' \in Record /\ Kept(mem, mem') /\ Grows(mem, mem') /\ OwnersNamed(mem')
  BY <1>1, LogEffect DEF TmpdirOk
<1>3. /\ pc = "prepare" /\ pc' = "build" /\ disk' = disk /\ job' = job
      /\ request' = request /\ remote' = remote
  BY DEF TmpdirOk
<1>4. TypeOK'
  BY <1>2, <1>3 DEF IInv, TypeOK, OwnersNamed
<1>5. Grows(disk, mem')
  BY <1>2, GrowsTransitive DEF IInv, CopyAgrees
<1>6. CopyAgrees'
  BY <1>2, <1>3, <1>5 DEF IInv, CopyAgrees, Kept
<1>7. Progress'
  <2>1. job' = 1
    BY <1>3 DEF IInv, Progress
  <2>2. \A i \in DOMAIN recipes[request] : ~(i < 1)
    BY <1>3, CampaignAssumption DEF IInv, TypeOK
  <2>3. QED
    BY <1>3, <2>1, <2>2 DEF Progress
<1>8. RemoteIsPast' /\ BuildsBacked' /\ VerifiedBacked'
  BY <1>3 DEF IInv, RemoteIsPast, BuildsBacked, VerifiedBacked
<1>9. QED
  BY <1>3, <1>4, <1>6, <1>7, <1>8, GrowsSame DEF IInv

LEMMA BeginRecipeStep ==
  ASSUME IInv, BeginRecipe
  PROVE  IInv' /\ Grows(disk, disk')
<1> DEFINE r == recipes[request][job]
<1>1. /\ pc = "build" /\ pc' = "building" /\ job' = job
      /\ request' = request /\ remote' = remote /\ mem' = disk'
      /\ disk' = [mem EXCEPT !.current = r]
  BY DEF BeginRecipe, Write
<1>2. job \in DOMAIN recipes[request] /\ r \in Names
  BY CampaignAssumption DEF IInv, TypeOK, BeginRecipe
<1> HIDE DEF r
<1>3. mem \in Record /\ OwnersNamed(mem)
  BY DEF IInv, TypeOK
<1>4. /\ disk' \in Record /\ disk'.current = r
      /\ disk'.findings = mem.findings /\ disk'.history = mem.history
      /\ disk'.status = mem.status /\ disk'.attempts = mem.attempts
      /\ disk'.builds = mem.builds /\ disk'.verified = mem.verified
  BY <1>1, <1>2, <1>3 DEF Record
<1>5. Grows(mem, disk') /\ OwnersNamed(disk')
  BY <1>3, <1>4, GrowsSame DEF OwnersNamed
<1>6. Grows(disk, disk')
  BY <1>5, GrowsTransitive DEF IInv, CopyAgrees
<1>7. TypeOK'
  BY <1>1, <1>4, <1>5 DEF IInv, TypeOK
<1>8. CopyAgrees'
  BY <1>1, <1>4, GrowsSame DEF IInv, CopyAgrees
<1>9. Progress'
  <2>1. ASSUME NEW i \in DOMAIN recipes[request], i < job
        PROVE  Shows(mem', mem'.attempts, "build", recipes[request][i], i)
    <3>1. Shows(mem, mem.attempts, "build", recipes[request][i], i)
      BY <1>1, <2>1 DEF IInv, Progress
    <3>2. QED
      BY <1>1, <1>4, <1>5, <3>1, ShowsKept
  <2>2. QED
    BY <1>1, <1>2, <1>4, <2>1 DEF Progress, r
<1>10. RemoteIsPast'
  BY <1>1, <1>4 DEF IInv, CopyAgrees, RemoteIsPast
<1>11. BuildsBacked' /\ VerifiedBacked'
  BY <1>1, <1>4 DEF IInv, CopyAgrees, BuildsBacked, VerifiedBacked
<1>12. QED
  BY <1>6, <1>7, <1>8, <1>9, <1>10, <1>11 DEF IInv

LEMMA BuildOkStep ==
  ASSUME IInv, BuildOk
  PROVE  IInv' /\ Grows(disk, disk')
<1> DEFINE r == recipes[request][job]
<1>1. /\ pc = "building" /\ pc' = "build" /\ job' = job + 1 /\ disk' = disk
      /\ request' = request /\ remote' = remote
      /\ mem' = RecordSuccess(mem, "build", r, job)
  BY DEF BuildOk
<1>2. job \in DOMAIN recipes[request] /\ r \in Names /\ job \in Nat
  BY <1>1, CampaignAssumption DEF IInv, TypeOK, Progress
<1> HIDE DEF r
<1>3. mem \in Record /\ OwnersNamed(mem)
  BY DEF IInv, TypeOK
<1>4. /\ mem' \in Record /\ OwnersNamed(mem') /\ Grows(mem, mem') /\ Kept(mem, mem')
      /\ Shows(mem', mem.attempts, "build", r, job)
  BY <1>1, <1>2, <1>3, RecordSuccessEffect
<1>5. TypeOK'
  BY <1>1, <1>2, <1>4 DEF IInv, TypeOK, OwnersNamed
<1>6. Grows(disk, mem')
  BY <1>4, GrowsTransitive DEF IInv, CopyAgrees
<1>7. CopyAgrees'
  BY <1>1, <1>4, <1>6 DEF IInv, CopyAgrees, Kept
<1>8. Progress'
  <2>1. ASSUME NEW i \in DOMAIN recipes[request], i < job + 1
        PROVE  Shows(mem', mem'.attempts, "build", recipes[request][i], i)
    <3>1. i \in Nat
      BY <1>1, CampaignAssumption DEF IInv, TypeOK
    <3>2. CASE i < job
      <4>1. Shows(mem, mem.attempts, "build", recipes[request][i], i)
        BY <1>1, <3>2 DEF IInv, Progress
      <4>2. QED
        BY <1>4, <4>1, ShowsKept DEF Kept
    <3>3. CASE i = job
      BY <1>4, <3>3 DEF Kept, r
    <3>4. QED
      BY <1>2, <2>1, <3>1, <3>2, <3>3
  <2>2. QED
    BY <1>1, <2>1 DEF Progress
<1>9. RemoteIsPast' /\ BuildsBacked' /\ VerifiedBacked'
  BY <1>1 DEF IInv, RemoteIsPast, BuildsBacked, VerifiedBacked
<1>10. QED
  BY <1>1, <1>5, <1>7, <1>8, <1>9, GrowsSame DEF IInv

LEMMA ClaimBuildsStep ==
  ASSUME IInv, ClaimBuilds
  PROVE  IInv' /\ Grows(disk, disk')
<1>1. /\ pc = "build" /\ pc' = "verify" /\ job' = 1 /\ mem' = disk'
      /\ request' = request /\ remote' = remote
      /\ disk' = [mem EXCEPT !.current = None, !.builds = TRUE]
      /\ job > Len(recipes[request])
  BY DEF ClaimBuilds, Write
<1>2. mem \in Record /\ OwnersNamed(mem)
  BY DEF IInv, TypeOK
<1>3. /\ disk' \in Record /\ disk'.builds = TRUE
      /\ disk'.findings = mem.findings /\ disk'.history = mem.history
      /\ disk'.status = mem.status /\ disk'.attempts = mem.attempts
      /\ disk'.verified = mem.verified
  BY <1>1, <1>2 DEF Record
<1>4. Grows(mem, disk') /\ OwnersNamed(disk')
  BY <1>2, <1>3, GrowsSame DEF OwnersNamed
<1>5. Grows(disk, disk')
  BY <1>4, GrowsTransitive DEF IInv, CopyAgrees
<1>6. TypeOK'
  BY <1>1, <1>3, <1>4 DEF IInv, TypeOK
<1>7. CopyAgrees'
  BY <1>1, <1>3, GrowsSame DEF IInv, CopyAgrees
<1>8. request \in Bundles
  BY <1>1, CampaignAssumption DEF IInv, TypeOK
<1>9. Progress'
  <2>1. \A i \in DOMAIN checks[request] : ~(i < 1)
    BY <1>8, CampaignAssumption
  <2>2. QED
    BY <1>1, <2>1 DEF Progress
<1>10. RemoteIsPast'
  BY <1>1, <1>3 DEF IInv, CopyAgrees, RemoteIsPast
<1>11. BuildsBacked'
  <2>1. SUFFICES ASSUME NEW i \in DOMAIN recipes[request]
                 PROVE  Shows(disk', disk'.attempts, "build", recipes[request][i], i)
    BY <1>1 DEF BuildsBacked
  <2>2. i < job
    BY <1>1, <1>8, CampaignAssumption DEF IInv, TypeOK
  <2>3. Shows(mem, mem.attempts, "build", recipes[request][i], i)
    BY <1>1, <2>2 DEF IInv, Progress
  <2>4. QED
    BY <1>3, <1>4, <2>3, ShowsKept
<1>12. VerifiedBacked'
  BY <1>1, <1>3 DEF IInv, CopyAgrees, VerifiedBacked
<1>13. QED
  BY <1>5, <1>6, <1>7, <1>9, <1>10, <1>11, <1>12 DEF IInv

\* The controller is gone without a write: by an error or by a crash.
LEMMA GoneStep ==
  ASSUME IInv, pc # "idle", pc' = "idle", mem' = disk, disk' = disk,
         job' = job, request' = request,
         remote' = IF pc = "building" THEN remote \union {mem.attempts} ELSE remote
  PROVE  IInv' /\ Grows(disk, disk')
<1>1. disk.attempts \in Nat /\ mem.attempts = disk.attempts
  BY DEF IInv, TypeOK, Record, CopyAgrees
<1>2. TypeOK'
  BY <1>1 DEF IInv, TypeOK
<1>3. CopyAgrees' /\ Progress'
  BY GrowsSame DEF CopyAgrees, Progress
<1>4. RemoteIsPast'
  <2>1. CASE pc = "building"
    <3>1. disk.current # None
      BY <2>1, CampaignAssumption DEF IInv, TypeOK, CopyAgrees, Progress
    <3>2. QED
      BY <1>1, <2>1, <3>1 DEF IInv, RemoteIsPast
  <2>2. CASE pc # "building"
    BY <2>2 DEF IInv, RemoteIsPast
  <2>3. QED
    BY <2>1, <2>2
<1>5. BuildsBacked' /\ VerifiedBacked'
  BY DEF IInv, BuildsBacked, VerifiedBacked
<1>6. QED
  BY <1>2, <1>3, <1>4, <1>5, GrowsSame DEF IInv

LEMMA VerifyOkStep ==
  ASSUME IInv, VerifyOk
  PROVE  IInv' /\ Grows(disk, disk')
<1> DEFINE r == checks[request][job]
<1>1. /\ pc = "verify" /\ pc' = "verify" /\ job' = job + 1 /\ mem' = disk'
      /\ request' = request /\ remote' = remote
      /\ disk' = RecordSuccess(mem, "verify", r, job)
  BY DEF VerifyOk, MayVerify, Write
<1>2. job \in DOMAIN checks[request] /\ r \in Names /\ job \in Nat
  BY <1>1, CampaignAssumption DEF IInv, TypeOK, VerifyOk, MayVerify
<1> HIDE DEF r
<1>3. mem \in Record /\ OwnersNamed(mem) /\ mem = disk
  BY <1>1 DEF IInv, TypeOK, CopyAgrees
<1>4. /\ disk' \in Record /\ OwnersNamed(disk') /\ Grows(mem, disk') /\ Kept(mem, disk')
      /\ Shows(disk', mem.attempts, "verify", r, job)
  BY <1>1, <1>2, <1>3, RecordSuccessEffect
<1>5. TypeOK'
  BY <1>1, <1>2, <1>4 DEF IInv, TypeOK
<1>6. CopyAgrees'
  BY <1>1, <1>4, GrowsSame DEF IInv, CopyAgrees, Kept
<1>7. Progress'
  <2>1. ASSUME NEW i \in DOMAIN checks[request], i < job + 1
        PROVE  Shows(mem', mem'.attempts, "verify", checks[request][i], i)
    <3>1. i \in Nat
      BY <1>1, CampaignAssumption DEF IInv, TypeOK
    <3>2. CASE i < job
      <4>1. Shows(mem, mem.attempts, "verify", checks[request][i], i)
        BY <1>1, <3>2 DEF IInv, Progress
      <4>2. QED
        BY <1>1, <1>4, <4>1, ShowsKept DEF Kept
    <3>3. CASE i = job
      BY <1>1, <1>4, <3>3 DEF Kept, r
    <3>4. QED
      BY <1>2, <2>1, <3>1, <3>2, <3>3
  <2>2. QED
    BY <1>1, <2>1 DEF Progress
<1>8. RemoteIsPast'
  BY <1>1, <1>3, <1>4 DEF IInv, RemoteIsPast, Kept
<1>9. BuildsBacked'
  <2>1. SUFFICES ASSUME disk'.builds, NEW i \in DOMAIN recipes[request]
                 PROVE  Shows(disk', disk'.attempts, "build", recipes[request][i], i)
    BY <1>1 DEF BuildsBacked
  <2>2. Shows(disk, disk.attempts, "build", recipes[request][i], i)
    BY <1>3, <1>4, <2>1 DEF IInv, BuildsBacked, Kept
  <2>3. QED
    BY <1>3, <1>4, <2>2, ShowsKept DEF Kept
<1>10. VerifiedBacked'
  BY <1>1, <1>3, <1>4 DEF IInv, CopyAgrees, VerifiedBacked, Kept
<1>11. QED
  BY <1>3, <1>4, <1>5, <1>6, <1>7, <1>8, <1>9, <1>10 DEF IInv

LEMMA CompleteStep ==
  ASSUME IInv, Complete
  PROVE  IInv' /\ Grows(disk, disk')
<1> DEFINE v == [mem EXCEPT !.status = "completed", !.verified = HasChecks(request)]
<1>1. /\ pc = "verify" /\ pc' = "idle" /\ job' = job /\ mem' = disk'
      /\ request' = request /\ remote' = remote
      /\ disk' = Log(v, "completed", None, 0)
      /\ job > Len(checks[request])
  BY DEF Complete, Write
<1>2. mem \in Record /\ OwnersNamed(mem) /\ mem = disk
  BY <1>1 DEF IInv, TypeOK, CopyAgrees
<1>3. HasChecks(request) \in BOOLEAN /\ "completed" \in Statuses /\ "completed" \in Kinds
  BY DEF HasChecks, Statuses, Kinds
<1>4. /\ v \in Record /\ v.status = "completed" /\ v.verified = HasChecks(request)
      /\ v.findings = mem.findings /\ v.history = mem.history
      /\ v.attempts = mem.attempts /\ v.builds = mem.builds /\ v.current = mem.current
  BY <1>2, <1>3 DEF Record
<1> HIDE DEF v
<1>5. Grows(mem, v) /\ OwnersNamed(v)
  BY <1>2, <1>4, GrowsSame DEF OwnersNamed
<1>6. disk' \in Record /\ Kept(v, disk') /\ OwnersNamed(disk') /\ Grows(v, disk')
  BY <1>1, <1>3, <1>4, <1>5, LogEffect
<1>7. Grows(disk, disk')
  BY <1>2, <1>5, <1>6, GrowsTransitive
<1>8. TypeOK'
  BY <1>1, <1>6 DEF IInv, TypeOK
<1>9. CopyAgrees' /\ Progress'
  BY <1>1, GrowsSame DEF CopyAgrees, Progress
<1>10. RemoteIsPast'
  BY <1>1, <1>2, <1>4, <1>6 DEF IInv, RemoteIsPast, Kept
<1>11. disk'.attempts = disk.attempts /\ disk'.builds = TRUE /\ disk.builds
  BY <1>1, <1>2, <1>4, <1>6 DEF IInv, CopyAgrees, Kept
<1>12. BuildsBacked'
  <2>1. SUFFICES ASSUME NEW i \in DOMAIN recipes[request]
                 PROVE  Shows(disk', disk'.attempts, "build", recipes[request][i], i)
    BY <1>1 DEF BuildsBacked
  <2>2. Shows(disk, disk.attempts, "build", recipes[request][i], i)
    BY <1>11 DEF IInv, BuildsBacked
  <2>3. QED
    BY <1>7, <1>11, <2>2, ShowsKept
<1>13. VerifiedBacked'
  <2>1. request \in Bundles
    BY <1>1, CampaignAssumption DEF IInv, TypeOK
  <2>2. disk'.verified => checks[request] # <<>>
    <3>1. disk'.verified = HasChecks(request)
      BY <1>4, <1>6 DEF Kept
    <3>2. checks[request] = <<>> => HasChecks(request) = FALSE
      BY DEF HasChecks
    <3>3. QED
      BY <3>1, <3>2, Zenon
  <2>3. disk'.status = "completed"
    BY <1>4, <1>6 DEF Kept
  <2>4. ASSUME NEW i \in DOMAIN checks[request]
        PROVE  Shows(disk', disk'.attempts, "verify", checks[request][i], i)
    <3>1. i < job
      BY <1>1, <2>1, CampaignAssumption DEF IInv, TypeOK
    <3>2. Shows(mem, mem.attempts, "verify", checks[request][i], i)
      BY <1>1, <3>1 DEF IInv, Progress
    <3>3. QED
      BY <1>2, <1>7, <1>11, <3>2, ShowsKept
  <2>5. QED
    BY <1>1, <1>11, <2>2, <2>3, <2>4 DEF VerifiedBacked
<1>14. QED
  BY <1>7, <1>8, <1>9, <1>10, <1>12, <1>13 DEF IInv

\* One finding is replaced by one that only says more about its repair.
LEMMA RepairStep ==
  ASSUME IInv, pc = "idle", NEW k \in DOMAIN disk.findings, NEW g \in Finding,
         disk' = [disk EXCEPT !.findings[k] = g], mem' = disk',
         UNCHANGED <<pc, job, request, remote>>,
         disk.findings[k].status \in Unfinished,
         <<g.attempt, g.stage, g.recipe, g.job>> =
           <<disk.findings[k].attempt, disk.findings[k].stage,
             disk.findings[k].recipe, disk.findings[k].job>>,
         disk.findings[k].owner # None => g.owner = disk.findings[k].owner,
         g.status \in {"in-progress", "resolved"} /\ g.owner # None
  PROVE  IInv' /\ Grows(disk, disk')
<1>1. disk \in Record /\ OwnersNamed(disk)
  BY DEF IInv, TypeOK
<1>2. disk.findings \in Seq(Finding)
  BY <1>1 DEF Record
<1> DEFINE G == [disk.findings EXCEPT ![k] = g]
<1>3. G \in Seq(Finding) /\ DOMAIN G = DOMAIN disk.findings
      /\ G[k] = g /\ \A j \in DOMAIN G : j # k => G[j] = disk.findings[j]
  BY <1>2
<1>4. disk' = [disk EXCEPT !.findings = G]
  OBVIOUS
<1> HIDE DEF G
<1>5. /\ disk' \in Record /\ disk'.findings = G /\ disk'.history = disk.history
      /\ Kept(disk, disk')
  BY <1>1, <1>3, <1>4 DEF Record, Kept
<1>6. OnlyClose(disk.findings, disk'.findings)
  BY <1>3, <1>5 DEF OnlyClose
<1>7. Grows(disk, disk')
  BY <1>5, <1>6 DEF Grows
<1>8. OwnersNamed(disk')
  BY <1>1, <1>3, <1>5 DEF OwnersNamed
<1>9. TypeOK'
  BY <1>5, <1>8 DEF IInv, TypeOK
<1>10. CopyAgrees' /\ Progress'
  BY GrowsSame DEF CopyAgrees, Progress
<1>11. RemoteIsPast'
  BY <1>5 DEF IInv, RemoteIsPast, Kept
<1>12. BuildsBacked' /\ VerifiedBacked'
  <2>1. \A a, kind, r, j : Shows(disk', a, kind, r, j) <=> Shows(disk, a, kind, r, j)
    BY <1>5 DEF Shows
  <2>2. QED
    BY <1>5, <2>1 DEF IInv, BuildsBacked, VerifiedBacked, Kept
<1>13. QED
  BY <1>7, <1>9, <1>10, <1>11, <1>12 DEF IInv

LEMMA NextStep ==
  ASSUME IInv, [Next]_vars
  PROVE  IInv' /\ Grows(disk, disk')
<1>1. ASSUME NEW b \in Bundles, Start(b) PROVE IInv' /\ Grows(disk, disk')
  BY <1>1, StartStep
<1>2. CASE PreflightFails
  <2>1. PICK i \in DOMAIN recipes[request] : Fail("preflight", recipes[request][i], i)
    BY <1>2 DEF PreflightFails
  <2>2. pc # "idle" /\ recipes[request][i] \in Names /\ i \in Nat /\ "preflight" \in Stages
    BY <1>2, CampaignAssumption DEF IInv, TypeOK, PreflightFails, Stages
  <2>3. QED
    BY <2>1, <2>2, FailStep
<1>3. CASE StageFails
  BY <1>3, FailStep DEF StageFails, Stages
<1>4. CASE TmpdirFails
  BY <1>4, FailStep DEF TmpdirFails, Stages
<1>5. CASE TmpdirOk
  BY <1>5, TmpdirOkStep
<1>6. CASE BeginRecipe
  BY <1>6, BeginRecipeStep
<1>7. CASE BuildFails
  <2>1. pc # "idle" /\ recipes[request][job] \in Names /\ job \in Nat /\ "build" \in Stages
    BY <1>7, CampaignAssumption DEF IInv, TypeOK, Progress, BuildFails, Stages
  <2>2. Fail("build", recipes[request][job], job)
    BY <1>7 DEF BuildFails
  <2>3. QED
    BY <2>1, <2>2, FailStep
<1>8. CASE BuildOk
  BY <1>8, BuildOkStep
<1>9. CASE ClaimBuilds
  BY <1>9, ClaimBuildsStep
<1>10. CASE RefuseManifest
  BY <1>10, GoneStep DEF RefuseManifest
<1>11. CASE VerifyFails
  <2>1. pc # "idle" /\ checks[request][job] \in Names /\ job \in Nat /\ "verify" \in Stages
    BY <1>11, CampaignAssumption DEF IInv, TypeOK, VerifyFails, MayVerify, Stages
  <2>2. Fail("verify", checks[request][job], job)
    BY <1>11 DEF VerifyFails
  <2>3. QED
    BY <2>1, <2>2, FailStep
<1>12. CASE VerifyOk
  BY <1>12, VerifyOkStep
<1>13. CASE Complete
  BY <1>13, CompleteStep
<1>14. CASE Crash
  BY <1>14, GoneStep DEF Crash
<1>15. ASSUME NEW k \in DOMAIN disk.findings, disk.findings[k] \in Finding,
              NEW o \in Owners, Claim(k, o) \/ Resolve(k, o)
       PROVE  IInv' /\ Grows(disk, disk')
  <2> DEFINE f == disk.findings[k]
  <2>1. o # None
    BY CampaignAssumption
  <2>2. CASE Claim(k, o)
    <3>1. f.owner = None
      BY <2>2 DEF IInv, TypeOK, OwnersNamed, Claim
    <3>2. /\ Claimed(f, o) \in Finding
          /\ <<Claimed(f, o).attempt, Claimed(f, o).stage, Claimed(f, o).recipe, Claimed(f, o).job>>
                = <<f.attempt, f.stage, f.recipe, f.job>>
          /\ Claimed(f, o).status = "in-progress" /\ Claimed(f, o).owner = o
      BY <1>15 DEF Claimed, Finding, Unfinished
    <3>3. disk' = [disk EXCEPT !.findings[k] = Claimed(f, o)] /\ mem' = disk' /\ pc = "idle"
          /\ UNCHANGED <<pc, job, request, remote>> /\ f.status \in Unfinished
      BY <2>2 DEF Claim, Write, Unfinished
    <3>4. QED
      BY <2>1, <3>1, <3>2, <3>3, RepairStep
  <2>3. CASE Resolve(k, o)
    <3>1. f.owner = o
      BY <2>3 DEF Resolve
    <3>2. /\ Resolved(f) \in Finding
          /\ <<Resolved(f).attempt, Resolved(f).stage, Resolved(f).recipe, Resolved(f).job>>
                = <<f.attempt, f.stage, f.recipe, f.job>>
          /\ Resolved(f).status = "resolved" /\ Resolved(f).owner = f.owner
      BY <1>15 DEF Resolved, Finding
    <3>3. disk' = [disk EXCEPT !.findings[k] = Resolved(f)] /\ mem' = disk' /\ pc = "idle"
          /\ UNCHANGED <<pc, job, request, remote>> /\ f.status \in Unfinished
      BY <2>3 DEF Resolve, Write, Unfinished
    <3>4. QED
      BY <2>1, <3>1, <3>2, <3>3, RepairStep
  <2>4. QED
    BY <1>15, <2>2, <2>3
<1>16. \A k \in DOMAIN disk.findings : disk.findings[k] \in Finding
  BY DEF IInv, TypeOK, Record
<1>17. CASE UNCHANGED vars
  <2>1. disk' = disk /\ mem' = mem /\ pc' = pc /\ job' = job /\ request' = request /\ remote' = remote
    BY <1>17 DEF vars
  <2>2. TypeOK' /\ CopyAgrees' /\ Progress' /\ RemoteIsPast' /\ BuildsBacked' /\ VerifiedBacked'
    BY <2>1 DEF IInv, TypeOK, OwnersNamed, CopyAgrees, Progress, RemoteIsPast, BuildsBacked,
                VerifiedBacked
  <2>3. QED
    BY <2>1, <2>2, GrowsSame DEF IInv
<1>18. QED
  BY <1>1, <1>2, <1>3, <1>4, <1>5, <1>6, <1>7, <1>8, <1>9, <1>10, <1>11, <1>12, <1>13, <1>14,
     <1>15, <1>16, <1>17
  DEF Next, Retry, Controller, Repair

-----------------------------------------------------------------------------
(* The audit trail: what the history and the findings of one record say of *)
(* each other.                                                             *)

Ends(s, e, a) == s.history[e].attempt = a /\ s.history[e].kind \in Terminal

\* Events are of attempts that were counted, and only the attempt that runs
\* has not ended; nothing ends twice.
Accounted(s) ==
  /\ s.status = "running" => s.attempts \in 1..s.attempts
  /\ \A e \in DOMAIN s.history : s.history[e].attempt \in 1..s.attempts
  /\ \A a \in 1..s.attempts :
       (\E e \in DOMAIN s.history : Ends(s, e, a)) <=> ~(a = s.attempts /\ s.status = "running")
  /\ \A a \in 1..s.attempts, d, e \in DOMAIN s.history : Ends(s, d, a) /\ Ends(s, e, a) => d = e

Broken == {"interrupted", "failed"}

\* A finding stands for an attempt that was broken off, and for no other.
Documented(s) ==
  /\ \A k \in DOMAIN s.findings :
       /\ s.findings[k].attempt \in 1..s.attempts
       /\ \E e \in DOMAIN s.history :
            s.history[e].attempt = s.findings[k].attempt /\ s.history[e].kind \in Broken
  /\ \A e \in DOMAIN s.history : s.history[e].kind \in Broken =>
       \E k \in DOMAIN s.findings : s.findings[k].attempt = s.history[e].attempt
  /\ \A j, k \in DOMAIN s.findings :
       s.findings[j].attempt = s.findings[k].attempt => j = k

\* A superseded finding of a stage command cites a later success of it.
Backed(s) ==
  \A k \in DOMAIN s.findings :
    LET f == s.findings[k] IN
    f.status = "superseded" /\ f.stage \in {"build", "verify"} =>
      /\ f.evidence > f.attempt
      /\ \E j \in 1..Len(s.history) : Shows(s, f.evidence, f.stage, f.recipe, j)

Audit(s) == Accounted(s) /\ Documented(s) /\ Backed(s)

\* No unfinished finding is about this job.
Closed(s, stage, r) ==
  \A k \in DOMAIN s.findings :
    ~(/\ s.findings[k].status \in Unfinished
      /\ s.findings[k].stage = stage /\ s.findings[k].recipe = r)

\* What the current attempt got past has no unfinished finding, and each job it
\* has come to left an event before it.
Passed ==
  /\ pc # "idle" => job <= Len(mem.history)
  /\ pc \in {"build", "building"} =>
       \A i \in DOMAIN recipes[request] : i < job => Closed(mem, "build", recipes[request][i])
  /\ pc = "verify" =>
       /\ \A i \in DOMAIN recipes[request] : Closed(mem, "build", recipes[request][i])
       /\ \A i \in DOMAIN checks[request] : i < job => Closed(mem, "verify", checks[request][i])
  /\ disk.status = "completed" =>
       /\ \A i \in DOMAIN recipes[request] : Closed(disk, "build", recipes[request][i])
       /\ \A i \in DOMAIN checks[request] : Closed(disk, "verify", checks[request][i])

AInv == IInv /\ Audit(disk) /\ Audit(mem) /\ Passed

-----------------------------------------------------------------------------
(* What the operations do to the audit trail                               *)

\* Every attempt so far has ended, each of them once.
Settled(s) ==
  /\ \A e \in DOMAIN s.history : s.history[e].attempt \in 1..s.attempts
  /\ \A a \in 1..s.attempts : \E e \in DOMAIN s.history : Ends(s, e, a)
  /\ \A a \in 1..s.attempts, d, e \in DOMAIN s.history : Ends(s, d, a) /\ Ends(s, e, a) => d = e

LEMMA SettledAccounted ==
  ASSUME NEW s, s.status # "running"
  PROVE  Accounted(s) <=> Settled(s)
BY DEF Accounted, Settled

\* Nothing the audit looks at differs.
LEMMA AuditSame ==
  ASSUME NEW s, NEW t, Audit(s),
         t.findings = s.findings, t.history = s.history, t.attempts = s.attempts,
         (t.status = "running") <=> (s.status = "running")
  PROVE  Audit(t)
<1>1. Accounted(t)
  BY DEF Audit, Accounted, Ends
<1>2. Documented(t)
  BY DEF Audit, Documented
<1>3. Backed(t)
  <2>1. \A a, kind, r, j : Shows(t, a, kind, r, j) <=> Shows(s, a, kind, r, j)
    BY DEF Shows
  <2>2. QED
    BY <2>1 DEF Audit, Backed
<1>4. QED
  BY <1>1, <1>2, <1>3 DEF Audit

\* A longer history backs what it did, if no new superseded finding of a stage
\* command is there.
LEMMA BackedKept ==
  ASSUME NEW s, NEW t, Backed(s), Grows(s, t),
         Len(s.history) \in Nat, Len(t.history) \in Nat, Len(s.history) <= Len(t.history),
         \A k \in DOMAIN t.findings :
           \/ k \in DOMAIN s.findings /\ t.findings[k] = s.findings[k]
           \/ t.findings[k].status # "superseded" \/ t.findings[k].stage \notin {"build", "verify"}
  PROVE  Backed(t)
<1> SUFFICES ASSUME NEW k \in DOMAIN t.findings,
                    t.findings[k].status = "superseded", t.findings[k].stage \in {"build", "verify"}
             PROVE  LET f == t.findings[k] IN
                    /\ f.evidence > f.attempt
                    /\ \E j \in 1..Len(t.history) : Shows(t, f.evidence, f.stage, f.recipe, j)
  BY DEF Backed
<1> DEFINE f == t.findings[k]
<1>1. k \in DOMAIN s.findings /\ t.findings[k] = s.findings[k]
  OBVIOUS
<1>2. /\ f.evidence > f.attempt
      /\ \E j \in 1..Len(s.history) : Shows(s, f.evidence, f.stage, f.recipe, j)
  BY <1>1 DEF Backed
<1>3. PICK j \in 1..Len(s.history) : Shows(s, f.evidence, f.stage, f.recipe, j)
  BY <1>2
<1>4. j \in 1..Len(t.history) /\ Shows(t, f.evidence, f.stage, f.recipe, j)
  BY <1>3, ShowsKept
<1>5. QED
  BY <1>2, <1>4

\* A step of an attempt is logged.
LEMMA AuditLog ==
  ASSUME NEW s \in Record, Audit(s), s.attempts \in 1..s.attempts,
         NEW kind \in Kinds \ Terminal, NEW r \in Names \union {None}, NEW j \in Nat
  PROVE  LET t == Log(s, kind, r, j) IN
         Audit(t) /\ Len(t.history) = Len(s.history) + 1 /\ Len(s.history) \in Nat
<1> DEFINE t == Log(s, kind, r, j)
<1>1. Logged(s, t, [attempt |-> s.attempts, kind |-> kind, recipe |-> r, job |-> j])
  BY LogAppends
<1> USE DEF Logged
<1>2. Grows(s, t)
  BY LogEffect
<1> HIDE DEF t
<1>3. LET e == t.history[Len(s.history) + 1]
      IN  e.attempt = s.attempts /\ e.kind \notin Terminal
  BY <1>1
<1>4. t.attempts = s.attempts /\ t.status = s.status
  BY <1>1 DEF Kept
<1>5. \A a : \A e \in DOMAIN t.history : Ends(t, e, a) <=> e \in DOMAIN s.history /\ Ends(s, e, a)
  BY <1>1, <1>3 DEF Ends
<1>6. Accounted(t)
  <2>1. \A e \in DOMAIN t.history : t.history[e].attempt \in 1..t.attempts
    BY <1>1, <1>3, <1>4 DEF Audit, Accounted
  <2>2. \A a \in 1..t.attempts :
          (\E e \in DOMAIN t.history : Ends(t, e, a)) <=> (\E e \in DOMAIN s.history : Ends(s, e, a))
    BY <1>1, <1>5
  <2>3. QED
    BY <1>4, <1>5, <2>1, <2>2 DEF Audit, Accounted
<1>7. Documented(t)
  <2>1. \A e \in DOMAIN t.history :
          t.history[e].kind \in Broken => e \in DOMAIN s.history /\ t.history[e] = s.history[e]
    BY <1>1, <1>3 DEF Broken, Terminal
  <2>2. \A e \in DOMAIN s.history : e \in DOMAIN t.history /\ t.history[e] = s.history[e]
    BY <1>1
  <2>3. ASSUME NEW k \in DOMAIN t.findings
        PROVE  /\ t.findings[k].attempt \in 1..t.attempts
               /\ \E e \in DOMAIN t.history :
                    t.history[e].attempt = t.findings[k].attempt /\ t.history[e].kind \in Broken
    <3>1. /\ k \in DOMAIN s.findings /\ t.findings[k] = s.findings[k]
          /\ s.findings[k].attempt \in 1..s.attempts
          /\ \E e \in DOMAIN s.history :
               s.history[e].attempt = s.findings[k].attempt /\ s.history[e].kind \in Broken
      BY <1>1 DEF Audit, Documented
    <3>2. QED
      BY <1>4, <2>2, <3>1
  <2>4. QED
    BY <1>1, <2>1, <2>3 DEF Audit, Documented
<1>8. Backed(t)
  BY <1>1, <1>2, BackedKept DEF Audit
<1>9. QED
  BY <1>1, <1>6, <1>7, <1>8 DEF Audit, t

\* The running attempt ends.
LEMMA EndSettles ==
  ASSUME NEW s \in Record, Accounted(s), s.status = "running", NEW t,
         t.attempts = s.attempts,
         Len(s.history) \in Nat, Len(t.history) = Len(s.history) + 1,
         DOMAIN s.history = 1..Len(s.history), DOMAIN t.history = 1..Len(t.history),
         \A e \in 1..Len(s.history) : t.history[e] = s.history[e],
         t.history[Len(s.history) + 1].attempt = s.attempts,
         t.history[Len(s.history) + 1].kind \in Terminal
  PROVE  Settled(t)
<1> DEFINE n == Len(s.history) + 1
<1>1. s.attempts \in 1..s.attempts /\ s.attempts \in Nat
  BY DEF Accounted, Record
<1>2. \A e \in DOMAIN t.history : e \in DOMAIN s.history \/ e = n
  OBVIOUS
<1>3. n \in DOMAIN t.history /\ Ends(t, n, s.attempts)
  BY DEF Ends
<1>4. \A a : \A e \in DOMAIN s.history :
        e \in DOMAIN t.history /\ (Ends(t, e, a) <=> Ends(s, e, a))
  BY DEF Ends
<1>5. \A e \in DOMAIN s.history : ~Ends(s, e, s.attempts)
  BY <1>1 DEF Accounted
<1>6. \A a : Ends(t, n, a) <=> a = s.attempts
  BY <1>3 DEF Ends
<1>7. \A e \in DOMAIN t.history : t.history[e].attempt \in 1..t.attempts
  BY <1>1, <1>2 DEF Accounted
<1> HIDE DEF n
<1>8. \A a \in 1..t.attempts : \E e \in DOMAIN t.history : Ends(t, e, a)
  BY <1>3, <1>4 DEF Accounted
<1>9. \A a \in 1..t.attempts, d, e \in DOMAIN t.history : Ends(t, d, a) /\ Ends(t, e, a) => d = e
  BY <1>2, <1>4, <1>5, <1>6 DEF Accounted
<1>10. QED
  BY <1>7, <1>8, <1>9 DEF Settled

\* The running attempt is broken off: an event and a finding say so.
LEMMA BreakOff ==
  ASSUME NEW s \in Record, Audit(s), s.status = "running", NEW t,
         t.attempts = s.attempts, Grows(s, t),
         Len(s.history) \in Nat, Len(t.history) = Len(s.history) + 1,
         DOMAIN s.history = 1..Len(s.history), DOMAIN t.history = 1..Len(t.history),
         \A e \in 1..Len(s.history) : t.history[e] = s.history[e],
         t.history[Len(s.history) + 1].attempt = s.attempts,
         t.history[Len(s.history) + 1].kind \in Broken,
         Len(s.findings) \in Nat, Len(t.findings) = Len(s.findings) + 1,
         DOMAIN s.findings = 1..Len(s.findings), DOMAIN t.findings = 1..Len(t.findings),
         \A k \in 1..Len(s.findings) : t.findings[k] = s.findings[k],
         t.findings[Len(s.findings) + 1].attempt = s.attempts,
         \/ t.findings[Len(s.findings) + 1].status # "superseded"
         \/ t.findings[Len(s.findings) + 1].stage \notin {"build", "verify"}
  PROVE  Settled(t) /\ Documented(t) /\ Backed(t)
<1> DEFINE n == Len(s.history) + 1
           m == Len(s.findings) + 1
<1>1. Settled(t)
  <2>1. Broken \subseteq Terminal
    BY DEF Broken, Terminal
  <2>2. QED
    BY <2>1, EndSettles DEF Audit
<1>2. s.attempts \in 1..s.attempts /\ s.attempts \in Nat
  BY DEF Audit, Accounted, Record
<1>3. \A k \in DOMAIN s.findings : s.findings[k].attempt # s.attempts
  <2>1. \A e \in DOMAIN s.history : ~Ends(s, e, s.attempts)
    BY <1>2 DEF Audit, Accounted
  <2>2. ASSUME NEW k \in DOMAIN s.findings PROVE s.findings[k].attempt # s.attempts
    <3>1. PICK e \in DOMAIN s.history :
            s.history[e].attempt = s.findings[k].attempt /\ s.history[e].kind \in Broken
      BY DEF Audit, Documented
    <3>2. Ends(s, e, s.findings[k].attempt)
      BY <3>1 DEF Ends, Broken, Terminal
    <3>3. QED
      BY <2>1, <3>2
  <2>3. QED
    BY <2>2
<1>4. /\ n \in DOMAIN t.history /\ m \in DOMAIN t.findings
      /\ \A e \in DOMAIN t.history : e \in DOMAIN s.history \/ e = n
      /\ \A k \in DOMAIN t.findings : k \in DOMAIN s.findings \/ k = m
      /\ \A e \in DOMAIN s.history : e \in DOMAIN t.history
      /\ \A k \in DOMAIN s.findings : k \in DOMAIN t.findings
  OBVIOUS
<1> HIDE DEF n, m
<1>5. ASSUME NEW k \in DOMAIN t.findings
      PROVE  /\ t.findings[k].attempt \in 1..t.attempts
             /\ \E e \in DOMAIN t.history :
                  t.history[e].attempt = t.findings[k].attempt /\ t.history[e].kind \in Broken
  <2>1. CASE k = m
    BY <1>2, <1>4, <2>1 DEF n, m
  <2>2. CASE k \in DOMAIN s.findings
    <3>1. /\ t.findings[k] = s.findings[k] /\ s.findings[k].attempt \in 1..s.attempts
          /\ \E e \in DOMAIN s.history :
               s.history[e].attempt = s.findings[k].attempt /\ s.history[e].kind \in Broken
      BY <2>2 DEF Audit, Documented
    <3>2. \A e \in DOMAIN s.history : e \in DOMAIN t.history /\ t.history[e] = s.history[e]
      OBVIOUS
    <3>3. QED
      BY <3>1, <3>2
  <2>3. QED
    BY <1>4, <2>1, <2>2
<1>6. ASSUME NEW e \in DOMAIN t.history, t.history[e].kind \in Broken
      PROVE  \E k \in DOMAIN t.findings : t.findings[k].attempt = t.history[e].attempt
  <2>1. CASE e = n
    BY <1>4, <2>1 DEF n, m
  <2>2. CASE e \in DOMAIN s.history
    <3>1. PICK k \in DOMAIN s.findings : s.findings[k].attempt = s.history[e].attempt
      BY <1>6, <2>2 DEF Audit, Documented
    <3>2. QED
      BY <1>4, <2>2, <3>1
  <2>3. QED
    BY <1>4, <2>1, <2>2
<1>7. ASSUME NEW j \in DOMAIN t.findings, NEW k \in DOMAIN t.findings,
             t.findings[j].attempt = t.findings[k].attempt
      PROVE  j = k
  <2>1. \A i \in DOMAIN s.findings : t.findings[i] = s.findings[i]
    OBVIOUS
  <2>2. t.findings[m].attempt = s.attempts
    BY DEF m
  <2>3. \A i \in DOMAIN s.findings : t.findings[i].attempt # t.findings[m].attempt
    BY <1>3, <2>1, <2>2
  <2>4. CASE j \in DOMAIN s.findings /\ k \in DOMAIN s.findings
    BY <1>7, <2>1, <2>4 DEF Audit, Documented
  <2>5. QED
    BY <1>4, <1>7, <2>3, <2>4
<1>8. Documented(t)
  BY <1>5, <1>6, <1>7 DEF Documented
<1>9. Backed(t)
  <2>1. \A k \in DOMAIN t.findings :
           \/ k \in DOMAIN s.findings /\ t.findings[k] = s.findings[k]
           \/ t.findings[k].status # "superseded" \/ t.findings[k].stage \notin {"build", "verify"}
    BY <1>4 DEF m
  <2>2. Len(t.history) \in Nat /\ Len(s.history) <= Len(t.history)
    OBVIOUS
  <2>3. QED
    BY <2>1, <2>2, BackedKept DEF Audit
<1>10. QED
  BY <1>1, <1>8, <1>9

LEMMA AuditFailure ==
  ASSUME NEW s \in Record, Audit(s), s.status = "running", OwnersNamed(s),
         NEW stage \in Stages, NEW r \in Names \union {None}, NEW j \in Nat
  PROVE  Audit(RecordFailure(s, stage, r, j))
<1> DEFINE u == File(s, stage, r, j, "open", 0)
           v == [u EXCEPT !.status = "failed", !.current = None]
           t == RecordFailure(s, stage, r, j)
<1>1. Filed(s, u, [attempt |-> s.attempts, stage |-> stage, recipe |-> r, job |-> j,
                   status |-> "open", owner |-> None, evidence |-> 0])
  BY FileAppends
<1> USE DEF Filed
<1>2. t = Log(v, "failed", r, j)
  BY DEF RecordFailure
<1>3. Grows(s, t) /\ t.status = "failed" /\ t.attempts = s.attempts
  BY RecordFailureEffect
<1> HIDE DEF u, t
<1>4. /\ v \in Record /\ v.findings = u.findings /\ v.history = s.history /\ v.attempts = s.attempts
  BY <1>1 DEF Record, Statuses, Kept
<1> HIDE DEF v
<1>5. "failed" \in Kinds
  BY DEF Kinds
<1>6. /\ t.findings = v.findings
      /\ Len(v.history) \in Nat /\ Len(t.history) = Len(v.history) + 1
      /\ DOMAIN v.history = 1..Len(v.history) /\ DOMAIN t.history = 1..Len(t.history)
      /\ \A e \in 1..Len(v.history) : t.history[e] = v.history[e]
      /\ t.history[Len(v.history) + 1] =
           [attempt |-> v.attempts, kind |-> "failed", recipe |-> r, job |-> j]
  <2> DEFINE w == Log(v, "failed", r, j)
  <2>1. Logged(v, w, [attempt |-> v.attempts, kind |-> "failed", recipe |-> r, job |-> j])
    BY <1>4, <1>5, LogAppends
  <2> USE DEF Logged
  <2> HIDE DEF w
  <2>2. t = w
    BY <1>2 DEF w
  <2>3. QED
    BY <2>1, <2>2
<1>7. /\ t.history[Len(s.history) + 1].attempt = s.attempts
      /\ t.history[Len(s.history) + 1].kind \in Broken
      /\ t.findings[Len(s.findings) + 1].attempt = s.attempts
      /\ t.findings[Len(s.findings) + 1].status # "superseded"
  BY <1>1, <1>4, <1>6 DEF Broken
<1>8. Settled(t) /\ Documented(t) /\ Backed(t)
  BY <1>1, <1>3, <1>4, <1>6, <1>7, BreakOff
<1>9. QED
  BY <1>3, <1>8, SettledAccounted DEF Audit, t

\* A success supersedes what failed at the same place in earlier attempts.
LEMMA AuditSupersede ==
  ASSUME NEW s \in Record, Audit(s), s.status = "running", OwnersNamed(s),
         NEW stage \in {"build", "verify"}, NEW r \in Names, NEW j \in 1..Len(s.history),
         Shows(s, s.attempts, stage, r, j)
  PROVE  LET t == Supersede(s, stage, r) IN
         /\ Audit(t) /\ t.history = s.history
         /\ Closed(t, stage, r)
         /\ \A stage2, r2 : Closed(s, stage2, r2) => Closed(t, stage2, r2)
<1> DEFINE t == Supersede(s, stage, r)
           Hit(k) == /\ s.findings[k].stage = stage
                     /\ s.findings[k].recipe = r
                     /\ s.findings[k].status \in Unfinished
<1>1. /\ t \in Record
      /\ t = [s EXCEPT !.findings = t.findings]
      /\ DOMAIN t.findings = DOMAIN s.findings
      /\ \A k \in DOMAIN s.findings :
           \/ ~Hit(k) /\ t.findings[k] = s.findings[k]
           \/ Hit(k) /\ t.findings[k] = Superseded(s.findings[k], s.attempts)
  BY SupersedeFields
<1> HIDE DEF t
<1>2. t.history = s.history /\ t.attempts = s.attempts /\ t.status = s.status
  BY <1>1 DEF Record
<1>3. \A k \in DOMAIN s.findings : s.findings[k] \in Finding
  BY DEF Record
<1>4. \A k \in DOMAIN s.findings :
        LET f == s.findings[k]  g == Superseded(f, s.attempts) IN
        /\ g.attempt = f.attempt /\ g.stage = f.stage /\ g.recipe = f.recipe
        /\ g.status = "superseded" /\ g.evidence = s.attempts
  BY <1>3 DEF Superseded, Finding
<1>5. \A k \in DOMAIN s.findings :
        /\ t.findings[k].attempt = s.findings[k].attempt
        /\ t.findings[k].stage = s.findings[k].stage
        /\ t.findings[k].recipe = s.findings[k].recipe
        /\ t.findings[k].status = s.findings[k].status \/ t.findings[k].status = "superseded"
  BY <1>1, <1>4
<1>6. Accounted(t)
  BY <1>2 DEF Audit, Accounted, Ends
<1>7. Documented(t)
  <2>1. ASSUME NEW k \in DOMAIN t.findings
        PROVE  /\ t.findings[k].attempt \in 1..t.attempts
               /\ \E e \in DOMAIN t.history :
                    t.history[e].attempt = t.findings[k].attempt /\ t.history[e].kind \in Broken
    BY <1>1, <1>2, <1>5 DEF Audit, Documented
  <2>2. ASSUME NEW e \in DOMAIN t.history, t.history[e].kind \in Broken
        PROVE  \E k \in DOMAIN t.findings : t.findings[k].attempt = t.history[e].attempt
    BY <1>1, <1>2, <1>5, <2>2 DEF Audit, Documented
  <2>3. ASSUME NEW k \in DOMAIN t.findings, NEW l \in DOMAIN t.findings,
               t.findings[k].attempt = t.findings[l].attempt
        PROVE  k = l
    BY <1>1, <1>5, <2>3 DEF Audit, Documented
  <2>4. QED
    BY <2>1, <2>2, <2>3 DEF Documented
<1>8. \A k \in DOMAIN s.findings : s.findings[k].attempt < s.attempts
  <2>1. s.attempts \in Nat /\ s.attempts \in 1..s.attempts
    BY DEF Audit, Accounted, Record
  <2>2. ASSUME NEW k \in DOMAIN s.findings PROVE s.findings[k].attempt # s.attempts
    <3>1. PICK e \in DOMAIN s.history :
            s.history[e].attempt = s.findings[k].attempt /\ s.history[e].kind \in Broken
      BY DEF Audit, Documented
    <3>2. Ends(s, e, s.findings[k].attempt)
      BY <3>1 DEF Ends, Broken, Terminal
    <3>3. QED
      BY <2>1, <3>2 DEF Audit, Accounted
  <2>3. \A k \in DOMAIN s.findings : s.findings[k].attempt \in 1..s.attempts
    BY DEF Audit, Documented
  <2>4. QED
    BY <2>1, <2>2, <2>3
<1>9. Backed(t)
  <2> SUFFICES ASSUME NEW k \in DOMAIN t.findings,
                      t.findings[k].status = "superseded",
                      t.findings[k].stage \in {"build", "verify"}
               PROVE  LET f == t.findings[k] IN
                      /\ f.evidence > f.attempt
                      /\ \E i \in 1..Len(t.history) : Shows(t, f.evidence, f.stage, f.recipe, i)
    BY DEF Backed
  <2>1. \A a, kind, q, i : Shows(t, a, kind, q, i) <=> Shows(s, a, kind, q, i)
    BY <1>2 DEF Shows
  <2>2. CASE ~Hit(k) /\ t.findings[k] = s.findings[k]
    BY <1>1, <1>2, <2>1, <2>2 DEF Audit, Backed
  <2>3. CASE Hit(k) /\ t.findings[k] = Superseded(s.findings[k], s.attempts)
    <3>1. /\ t.findings[k].evidence = s.attempts /\ t.findings[k].stage = stage
          /\ t.findings[k].recipe = r /\ t.findings[k].attempt < s.attempts
      BY <1>1, <1>4, <1>8, <2>3
    <3>2. s.attempts \in Nat /\ t.findings[k].attempt \in Nat
      BY <1>1, <1>3, <1>5 DEF Record, Finding
    <3>3. QED
      BY <1>2, <2>1, <3>1, <3>2
  <2>4. QED
    BY <1>1, <2>2, <2>3
<1>10. Closed(t, stage, r)
  <2> SUFFICES ASSUME NEW k \in DOMAIN s.findings,
                      t.findings[k].status \in Unfinished,
                      t.findings[k].stage = stage, t.findings[k].recipe = r
               PROVE  FALSE
    BY <1>1 DEF Closed
  <2>1. CASE Hit(k)
    BY <1>1, <1>4, <2>1 DEF Unfinished
  <2>2. CASE ~Hit(k)
    BY <1>1, <2>2
  <2>3. QED
    BY <2>1, <2>2
<1>11. \A stage2, r2 : Closed(s, stage2, r2) => Closed(t, stage2, r2)
  BY <1>1, <1>5 DEF Closed, Unfinished
<1>12. QED
  BY <1>2, <1>6, <1>7, <1>9, <1>10, <1>11 DEF Audit, t

\* A stage command succeeded.
LEMMA AuditSuccess ==
  ASSUME NEW s \in Record, Audit(s), s.status = "running", OwnersNamed(s),
         NEW stage \in {"build", "verify"}, NEW r \in Names, NEW j \in 1..Len(s.history)
  PROVE  LET t == RecordSuccess(s, stage, r, j) IN
         /\ Audit(t) /\ Len(t.history) = Len(s.history) + 1 /\ Len(s.history) \in Nat
         /\ Closed(t, stage, r)
         /\ \A stage2, r2 : Closed(s, stage2, r2) => Closed(t, stage2, r2)
<1> DEFINE u == Log(s, stage, r, j)
           t == RecordSuccess(s, stage, r, j)
<1>1. stage \in Kinds \ Terminal /\ r \in Names \union {None} /\ s.attempts \in 1..s.attempts
  BY DEF Kinds, Terminal, Audit, Accounted
<1>2. j \in Nat
  BY DEF Record
<1>3. Audit(u) /\ Len(u.history) = Len(s.history) + 1 /\ Len(s.history) \in Nat
  BY <1>1, <1>2, AuditLog
<1>4. u \in Record /\ Kept(s, u) /\ (OwnersNamed(s) => OwnersNamed(u)) /\ Shows(u, s.attempts, stage, r, j)
  BY <1>1, <1>2, LogEffect
<1>5. u.findings = s.findings
  BY DEF Log, Record
<1>6. t = Supersede(u, stage, r)
  BY DEF RecordSuccess
<1> HIDE DEF u, t
<1>7. u.status = "running" /\ u.attempts = s.attempts /\ j \in 1..Len(u.history)
  BY <1>2, <1>3, <1>4 DEF Kept
<1>8. LET v == Supersede(u, stage, r) IN
      /\ Audit(v) /\ v.history = u.history
      /\ Closed(v, stage, r)
      /\ \A stage2, r2 : Closed(u, stage2, r2) => Closed(v, stage2, r2)
  BY <1>3, <1>4, <1>7, AuditSupersede
<1>9. \A stage2, r2 : Closed(s, stage2, r2) => Closed(u, stage2, r2)
  BY <1>5 DEF Closed
<1>10. QED
  BY <1>3, <1>6, <1>8, <1>9 DEF t

LEMMA AuditComplete ==
  ASSUME NEW s \in Record, Audit(s), s.status = "running", NEW verified \in BOOLEAN
  PROVE  LET v == [s EXCEPT !.status = "completed", !.verified = verified]
             t == Log(v, "completed", None, 0) IN
         Audit(t) /\ t.findings = s.findings
<1> DEFINE v == [s EXCEPT !.status = "completed", !.verified = verified]
           t == Log(v, "completed", None, 0)
<1>1. /\ v \in Record /\ v.status = "completed" /\ v.attempts = s.attempts
      /\ v.findings = s.findings /\ v.history = s.history
  BY DEF Record, Statuses
<1> HIDE DEF v
<1>2. "completed" \in Kinds /\ "completed" \in Terminal /\ "completed" \notin Broken
  BY DEF Kinds, Terminal, Broken
<1>3. Logged(v, t, [attempt |-> v.attempts, kind |-> "completed", recipe |-> None, job |-> 0])
  BY <1>1, <1>2, LogAppends
<1> USE DEF Logged
<1>4. Grows(v, t)
  BY <1>1, <1>2, LogEffect
<1> HIDE DEF t
<1>5. LET e == t.history[Len(s.history) + 1]
      IN  e.attempt = s.attempts /\ e.kind = "completed"
  BY <1>1, <1>3
<1>6. t.attempts = s.attempts /\ t.status = "completed"
  BY <1>1, <1>3 DEF Kept
<1>7. Accounted(t)
  <2>1. Settled(t)
    BY <1>1, <1>2, <1>3, <1>5, <1>6, EndSettles DEF Audit
  <2>2. QED
    BY <1>6, <2>1, SettledAccounted
<1>8. Documented(t)
  <2>1. \A e \in DOMAIN t.history :
          t.history[e].kind \in Broken => e \in DOMAIN s.history /\ t.history[e] = s.history[e]
    BY <1>1, <1>2, <1>3, <1>5
  <2>2. \A e \in DOMAIN s.history : e \in DOMAIN t.history /\ t.history[e] = s.history[e]
    BY <1>1, <1>3
  <2>3. ASSUME NEW k \in DOMAIN t.findings
        PROVE  /\ t.findings[k].attempt \in 1..t.attempts
               /\ \E e \in DOMAIN t.history :
                    t.history[e].attempt = t.findings[k].attempt /\ t.history[e].kind \in Broken
    <3>1. /\ k \in DOMAIN s.findings /\ t.findings[k] = s.findings[k]
          /\ s.findings[k].attempt \in 1..s.attempts
          /\ \E e \in DOMAIN s.history :
               s.history[e].attempt = s.findings[k].attempt /\ s.history[e].kind \in Broken
      BY <1>1, <1>3 DEF Audit, Documented
    <3>2. QED
      BY <1>6, <2>2, <3>1
  <2>4. QED
    BY <1>1, <1>3, <2>1, <2>3 DEF Audit, Documented
<1>9. Backed(t)
  <2>1. Backed(v)
    BY <1>1 DEF Audit, Backed, Shows
  <2>2. Len(t.history) \in Nat /\ Len(v.history) <= Len(t.history)
    BY <1>3
  <2>3. QED
    BY <1>3, <1>4, <2>1, <2>2, BackedKept
<1>10. QED
  BY <1>1, <1>3, <1>7, <1>8, <1>9 DEF Audit, t, v

\* A run that was interrupted ends as such; any other had ended.
LEMMA InterruptedSettles ==
  ASSUME NEW s \in Record, Audit(s), OwnersNamed(s)
  PROVE  LET t == RecordInterrupted(s) IN Settled(t) /\ Documented(t) /\ Backed(t)
<1> DEFINE u == File(s, "campaign", s.current, 0, "superseded", 0)
           v == [u EXCEPT !.current = None]
           t == RecordInterrupted(s)
<1>1. CASE s.status # "running"
  <2>1. t = s
    BY <1>1 DEF RecordInterrupted
  <2>2. QED
    BY <1>1, <2>1, SettledAccounted DEF Audit
<1>2. CASE s.status = "running"
  <2>1. s.current \in Names \union {None} /\ "campaign" \in Stages /\ "interrupted" \in Kinds
    BY DEF Record, Stages, Kinds
  <2>2. Filed(s, u, [attempt |-> s.attempts, stage |-> "campaign", recipe |-> s.current, job |-> 0,
                     status |-> "superseded", owner |-> None, evidence |-> 0])
    BY <2>1, FileAppends
  <2> USE DEF Filed
  <2>3. t = Log(v, "interrupted", s.current, 0)
    BY <1>2 DEF RecordInterrupted
  <2>4. Grows(s, t) /\ t.attempts = s.attempts
    BY RecordInterruptedEffect
  <2> HIDE DEF u, t
  <2>5. /\ v \in Record /\ v.findings = u.findings /\ v.history = s.history
        /\ v.attempts = s.attempts
    BY <2>2 DEF Record, Kept
  <2> HIDE DEF v
  <2>6. /\ t.findings = v.findings
        /\ Len(v.history) \in Nat /\ Len(t.history) = Len(v.history) + 1
        /\ DOMAIN v.history = 1..Len(v.history) /\ DOMAIN t.history = 1..Len(t.history)
        /\ \A e \in 1..Len(v.history) : t.history[e] = v.history[e]
        /\ t.history[Len(v.history) + 1] =
             [attempt |-> v.attempts, kind |-> "interrupted", recipe |-> s.current, job |-> 0]
    <3> DEFINE w == Log(v, "interrupted", s.current, 0)
    <3>1. Logged(v, w, [attempt |-> v.attempts, kind |-> "interrupted",
                        recipe |-> s.current, job |-> 0])
      BY <2>1, <2>5, LogAppends
    <3> USE DEF Logged
    <3> HIDE DEF w
    <3>2. t = w
      BY <2>3 DEF w
    <3>3. QED
      BY <3>1, <3>2
  <2>7. /\ t.history[Len(s.history) + 1].attempt = s.attempts
        /\ t.history[Len(s.history) + 1].kind \in Broken
        /\ t.findings[Len(s.findings) + 1].attempt = s.attempts
        /\ t.findings[Len(s.findings) + 1].stage \notin {"build", "verify"}
    BY <2>2, <2>5, <2>6 DEF Broken
  <2>8. Settled(t) /\ Documented(t) /\ Backed(t)
    BY <1>2, <2>2, <2>4, <2>5, <2>6, <2>7, BreakOff
  <2>9. QED
    BY <2>8 DEF t
<1>3. QED
  BY <1>1, <1>2

LEMMA AuditStart ==
  ASSUME disk \in Record, OwnersNamed(disk), Audit(disk), NEW b \in Bundles
  PROVE  LET t == Log(NewAttempt(RecordInterrupted(Loaded(b))), "started", None, 0) IN
         Audit(t) /\ Len(t.history) \in Nat /\ 1 <= Len(t.history)
<1> DEFINE u == Loaded(b)
           v == RecordInterrupted(u)
           w == NewAttempt(v)
           t == Log(w, "started", None, 0)
<1>1. u \in Record /\ u.findings = disk.findings /\ u.history = disk.history
      /\ u.attempts = disk.attempts /\ u.status = disk.status
  BY DEF Loaded, Record
<1> HIDE DEF u
<1>2. OwnersNamed(u) /\ Audit(u)
  BY <1>1, AuditSame DEF OwnersNamed
<1>3. v \in Record /\ v.attempts \in Nat
  BY <1>1, <1>2, RecordInterruptedEffect DEF Record
<1>4. Settled(v) /\ Documented(v) /\ Backed(v)
  BY <1>1, <1>2, InterruptedSettles
<1> HIDE DEF v
<1>5. /\ w \in Record /\ w.findings = v.findings /\ w.history = v.history
      /\ w.attempts = v.attempts + 1 /\ w.status = "running"
  BY <1>3, NewAttemptEffect
<1> HIDE DEF w
<1>6. Accounted(w)
  <2>1. 1..v.attempts \subseteq 1..w.attempts /\ w.attempts \notin 1..v.attempts
        /\ w.attempts \in 1..w.attempts
        /\ \A a \in 1..w.attempts : a \in 1..v.attempts \/ a = w.attempts
    BY <1>3, <1>5
  <2>2. \A e \in DOMAIN w.history : w.history[e].attempt \in 1..v.attempts
    BY <1>4, <1>5 DEF Settled
  <2>3. \A e, a : Ends(w, e, a) <=> Ends(v, e, a)
    BY <1>5 DEF Ends
  <2>4. \A e \in DOMAIN w.history : ~Ends(w, e, w.attempts)
    BY <2>1, <2>2 DEF Ends
  <2>5. \A a \in 1..v.attempts : \E e \in DOMAIN w.history : Ends(w, e, a)
    BY <1>4, <1>5, <2>3 DEF Settled
  <2>6. \A a \in 1..v.attempts, d, e \in DOMAIN w.history : Ends(w, d, a) /\ Ends(w, e, a) => d = e
    BY <1>4, <1>5, <2>3 DEF Settled
  <2>7. QED
    BY <1>5, <2>1, <2>2, <2>4, <2>5, <2>6 DEF Accounted
<1>7. Documented(w)
  <2>1. 1..v.attempts \subseteq 1..w.attempts
    BY <1>3, <1>5
  <2>2. QED
    BY <1>4, <1>5, <2>1 DEF Documented
<1>8. Backed(w)
  <2>1. \A a, kind, q, i : Shows(w, a, kind, q, i) <=> Shows(v, a, kind, q, i)
    BY <1>5 DEF Shows
  <2>2. QED
    BY <1>4, <1>5, <2>1 DEF Backed
<1>9. "started" \in Kinds \ Terminal /\ w.attempts \in 1..w.attempts
  BY <1>3, <1>5 DEF Kinds, Terminal
<1>10. Audit(t) /\ Len(t.history) = Len(w.history) + 1 /\ Len(w.history) \in Nat
  BY <1>5, <1>6, <1>7, <1>8, <1>9, AuditLog DEF Audit
<1> HIDE DEF t
<1>11. Audit(t) /\ Len(t.history) \in Nat /\ 1 <= Len(t.history)
  BY <1>10
<1>12. QED
  BY <1>11 DEF t, w, v, u

-----------------------------------------------------------------------------
(* Every step keeps the audit trail                                        *)

LEMMA InitAInv == Init => AInv
<1> SUFFICES ASSUME Init PROVE AInv
  OBVIOUS
<1>1. /\ NoRecord.history = <<>> /\ NoRecord.findings = <<>> /\ NoRecord.attempts = 0
      /\ NoRecord.status = "absent"
  BY DEF NoRecord
<1>2. Audit(NoRecord)
  BY <1>1 DEF Audit, Accounted, Documented, Backed
<1>3. Passed
  BY <1>1 DEF Init, Passed
<1>4. QED
  BY <1>2, <1>3, InitIInv DEF Init, AInv

LEMMA ClosedSame ==
  ASSUME NEW s, NEW t, t.findings = s.findings, NEW stage, NEW r, Closed(s, stage, r)
  PROVE  Closed(t, stage, r)
BY DEF Closed

LEMMA FailAudit ==
  ASSUME AInv, pc # "idle", NEW stage \in Stages, NEW r \in Names \union {None}, NEW j \in Nat,
         Fail(stage, r, j)
  PROVE  (Audit(disk) /\ Audit(mem) /\ Passed)'
<1>1. mem \in Record /\ OwnersNamed(mem) /\ Audit(mem) /\ mem.status = "running"
  BY DEF AInv, IInv, TypeOK, CopyAgrees
<1>2. disk' = RecordFailure(mem, stage, r, j) /\ mem' = disk' /\ pc' = "idle"
  BY DEF Fail, Write
<1>3. Audit(disk')
  BY <1>1, <1>2, AuditFailure
<1>4. disk'.status = "failed"
  BY <1>1, <1>2, RecordFailureEffect
<1>5. QED
  BY <1>2, <1>3, <1>4 DEF Passed

\* A step that only ends the run without a write.
LEMMA GoneAudit ==
  ASSUME AInv, pc # "idle", pc' = "idle", mem' = disk, disk' = disk
  PROVE  (Audit(disk) /\ Audit(mem) /\ Passed)'
BY DEF AInv, IInv, CopyAgrees, Passed

LEMMA StartAudit ==
  ASSUME AInv, NEW b \in Bundles, Start(b)
  PROVE  (Audit(disk) /\ Audit(mem) /\ Passed)'
<1>1. disk \in Record /\ OwnersNamed(disk) /\ Audit(disk)
  BY DEF AInv, IInv, TypeOK
<1>2. /\ disk' = Log(NewAttempt(RecordInterrupted(Loaded(b))), "started", None, 0)
      /\ mem' = disk' /\ pc' = "prepare" /\ job' = 1
  BY DEF Start, Write
<1>3. Audit(disk') /\ 1 <= Len(disk'.history)
  BY <1>1, <1>2, AuditStart
<1>4. disk'.status = "running"
  BY <1>1, <1>2, StartEffect
<1>5. QED
  BY <1>2, <1>3, <1>4 DEF Passed

LEMMA TmpdirOkAudit ==
  ASSUME AInv, TmpdirOk
  PROVE  (Audit(disk) /\ Audit(mem) /\ Passed)'
<1>1. /\ pc = "prepare" /\ pc' = "build" /\ disk' = disk /\ job' = job /\ request' = request
      /\ mem' = Log(mem, "tmpdir", None, 0)
  BY DEF TmpdirOk
<1>2. mem \in Record /\ Audit(mem) /\ Audit(disk) /\ mem.attempts \in 1..mem.attempts
      /\ disk.status = "running"
  BY <1>1 DEF AInv, IInv, TypeOK, CopyAgrees, Audit, Accounted
<1>3. "tmpdir" \in Kinds \ Terminal
  BY DEF Kinds, Terminal
<1>4. Audit(mem') /\ Len(mem'.history) = Len(mem.history) + 1 /\ Len(mem.history) \in Nat
  BY <1>1, <1>2, <1>3, AuditLog
<1>5. job = 1 /\ job <= Len(mem.history) /\ request \in Bundles
  BY <1>1, CampaignAssumption DEF AInv, IInv, TypeOK, Progress, Passed
<1>6. \A i \in DOMAIN recipes[request] : ~(i < 1)
  BY <1>5, CampaignAssumption
<1>7. QED
  BY <1>1, <1>2, <1>4, <1>5, <1>6 DEF Passed

LEMMA BeginRecipeAudit ==
  ASSUME AInv, BeginRecipe
  PROVE  (Audit(disk) /\ Audit(mem) /\ Passed)'
<1>1. /\ pc = "build" /\ pc' = "building" /\ job' = job /\ request' = request /\ mem' = disk'
      /\ disk' = [mem EXCEPT !.current = recipes[request][job]]
  BY DEF BeginRecipe, Write
<1>2. mem \in Record /\ Audit(mem) /\ mem.status = "running"
  BY <1>1 DEF AInv, IInv, TypeOK, CopyAgrees
<1>3. /\ disk'.findings = mem.findings /\ disk'.history = mem.history
      /\ disk'.attempts = mem.attempts /\ disk'.status = mem.status
  BY <1>1, <1>2 DEF Record
<1>4. Audit(disk')
  BY <1>2, <1>3, AuditSame
<1>5. \A stage, r : Closed(mem, stage, r) => Closed(disk', stage, r)
  BY <1>3, ClosedSame
<1>6. Passed'
  <2>1. job <= Len(mem.history)
    BY <1>1 DEF AInv, Passed
  <2>2. \A i \in DOMAIN recipes[request] : i < job => Closed(mem, "build", recipes[request][i])
    BY <1>1 DEF AInv, Passed
  <2>3. disk'.status # "completed"
    BY <1>2, <1>3
  <2>4. QED
    BY <1>1, <1>3, <1>5, <2>1, <2>2, <2>3 DEF Passed
<1>7. QED
  BY <1>1, <1>4, <1>6

LEMMA BuildOkAudit ==
  ASSUME AInv, BuildOk
  PROVE  (Audit(disk) /\ Audit(mem) /\ Passed)'
<1> DEFINE r == recipes[request][job]
<1>1. /\ pc = "building" /\ pc' = "build" /\ job' = job + 1 /\ disk' = disk
      /\ request' = request
      /\ mem' = RecordSuccess(mem, "build", r, job)
  BY DEF BuildOk
<1>2. mem \in Record /\ OwnersNamed(mem) /\ Audit(mem) /\ Audit(disk)
      /\ mem.status = "running" /\ disk.status = "running"
  BY <1>1 DEF AInv, IInv, TypeOK, CopyAgrees
<1>3. job \in DOMAIN recipes[request] /\ r \in Names /\ request \in Bundles
  BY <1>1, CampaignAssumption DEF AInv, IInv, TypeOK, Progress
<1>4. job \in 1..Len(mem.history)
  <2>1. job \in Nat \ {0} /\ job <= Len(mem.history) /\ Len(mem.history) \in Nat
    BY <1>1, <1>2 DEF AInv, IInv, TypeOK, Passed, Record
  <2>2. QED
    BY <2>1
<1> HIDE DEF r
<1>5. /\ Audit(mem') /\ Len(mem'.history) = Len(mem.history) + 1 /\ Len(mem.history) \in Nat
      /\ Closed(mem', "build", r)
      /\ \A stage2, r2 : Closed(mem, stage2, r2) => Closed(mem', stage2, r2)
  BY <1>1, <1>2, <1>3, <1>4, AuditSuccess
<1>6. ASSUME NEW i \in DOMAIN recipes[request], i < job + 1
      PROVE  Closed(mem', "build", recipes[request][i])
  <2>1. i \in Nat /\ job \in Nat
    BY <1>3, CampaignAssumption
  <2>2. CASE i < job
    BY <1>1, <1>5, <2>2 DEF AInv, Passed
  <2>3. CASE i = job
    BY <1>5, <2>3 DEF r
  <2>4. QED
    BY <1>6, <2>1, <2>2, <2>3
<1>7. Passed'
  BY <1>1, <1>2, <1>4, <1>5, <1>6 DEF Passed
<1>8. QED
  BY <1>1, <1>2, <1>5, <1>7

LEMMA ClaimBuildsAudit ==
  ASSUME AInv, ClaimBuilds
  PROVE  (Audit(disk) /\ Audit(mem) /\ Passed)'
<1>1. /\ pc = "build" /\ pc' = "verify" /\ job' = 1 /\ mem' = disk' /\ request' = request
      /\ disk' = [mem EXCEPT !.current = None, !.builds = TRUE]
      /\ job > Len(recipes[request])
  BY DEF ClaimBuilds, Write
<1>2. mem \in Record /\ Audit(mem) /\ mem.status = "running" /\ request \in Bundles
  BY <1>1, CampaignAssumption DEF AInv, IInv, TypeOK, CopyAgrees
<1>3. /\ disk'.findings = mem.findings /\ disk'.history = mem.history
      /\ disk'.attempts = mem.attempts /\ disk'.status = mem.status
  BY <1>1, <1>2 DEF Record
<1>4. Audit(disk')
  BY <1>2, <1>3, AuditSame
<1>5. job \in Nat \ {0} /\ job <= Len(mem.history) /\ Len(mem.history) \in Nat
  BY <1>1, <1>2 DEF AInv, IInv, TypeOK, Passed, Record
<1>6. \A i \in DOMAIN recipes[request] : i < job
  BY <1>1, <1>2, <1>5, CampaignAssumption
<1>7. \A i \in DOMAIN recipes[request] : Closed(disk', "build", recipes[request][i])
  BY <1>1, <1>3, <1>6, ClosedSame DEF AInv, Passed
<1>8. \A i \in DOMAIN checks[request] : ~(i < 1)
  BY <1>2, CampaignAssumption
<1>9. Passed'
  BY <1>1, <1>2, <1>3, <1>5, <1>7, <1>8 DEF Passed
<1>10. QED
  BY <1>1, <1>4, <1>9

LEMMA VerifyOkAudit ==
  ASSUME AInv, VerifyOk
  PROVE  (Audit(disk) /\ Audit(mem) /\ Passed)'
<1> DEFINE r == checks[request][job]
<1>1. /\ pc = "verify" /\ pc' = "verify" /\ job' = job + 1 /\ mem' = disk'
      /\ request' = request
      /\ disk' = RecordSuccess(mem, "verify", r, job)
  BY DEF VerifyOk, MayVerify, Write
<1>2. mem \in Record /\ OwnersNamed(mem) /\ Audit(mem) /\ mem.status = "running"
  BY <1>1 DEF AInv, IInv, TypeOK, CopyAgrees
<1>3. job \in DOMAIN checks[request] /\ r \in Names /\ request \in Bundles
  BY <1>1, CampaignAssumption DEF AInv, IInv, TypeOK, VerifyOk, MayVerify
<1>4. job \in 1..Len(mem.history)
  <2>1. job \in Nat \ {0} /\ job <= Len(mem.history) /\ Len(mem.history) \in Nat
    BY <1>1, <1>2 DEF AInv, IInv, TypeOK, Passed, Record
  <2>2. QED
    BY <2>1
<1> HIDE DEF r
<1>5. /\ Audit(disk') /\ Len(disk'.history) = Len(mem.history) + 1 /\ Len(mem.history) \in Nat
      /\ Closed(disk', "verify", r)
      /\ \A stage2, r2 : Closed(mem, stage2, r2) => Closed(disk', stage2, r2)
  BY <1>1, <1>2, <1>3, <1>4, AuditSuccess
<1>6. ASSUME NEW i \in DOMAIN checks[request], i < job + 1
      PROVE  Closed(disk', "verify", checks[request][i])
  <2>1. i \in Nat /\ job \in Nat
    BY <1>3, CampaignAssumption
  <2>2. CASE i < job
    BY <1>1, <1>5, <2>2 DEF AInv, Passed
  <2>3. CASE i = job
    BY <1>5, <2>3 DEF r
  <2>4. QED
    BY <1>6, <2>1, <2>2, <2>3
<1>7. disk'.status = "running"
  <2>1. Kept(mem, disk')
    BY <1>1, <1>2, <1>3, <1>4, RecordSuccessEffect
  <2>2. QED
    BY <1>2, <2>1 DEF Kept
<1>8. \A i \in DOMAIN recipes[request] : Closed(disk', "build", recipes[request][i])
  BY <1>1, <1>5 DEF AInv, Passed
<1>9. Passed'
  BY <1>1, <1>4, <1>5, <1>6, <1>7, <1>8 DEF Passed
<1>10. QED
  BY <1>1, <1>5, <1>9

LEMMA CompleteAudit ==
  ASSUME AInv, Complete
  PROVE  (Audit(disk) /\ Audit(mem) /\ Passed)'
<1>1. /\ pc = "verify" /\ pc' = "idle" /\ mem' = disk' /\ request' = request
      /\ disk' = Log([mem EXCEPT !.status = "completed", !.verified = HasChecks(request)],
                     "completed", None, 0)
      /\ job > Len(checks[request])
  BY DEF Complete, Write
<1>2. mem \in Record /\ Audit(mem) /\ mem.status = "running" /\ request \in Bundles
      /\ HasChecks(request) \in BOOLEAN
  BY <1>1, CampaignAssumption DEF AInv, IInv, TypeOK, CopyAgrees, HasChecks
<1>3. Audit(disk') /\ disk'.findings = mem.findings
  BY <1>1, <1>2, AuditComplete
<1>4. \A i \in DOMAIN checks[request] : i < job
  BY <1>1, <1>2, CampaignAssumption DEF AInv, IInv, TypeOK
<1>5. /\ \A i \in DOMAIN recipes[request] : Closed(disk', "build", recipes[request][i])
      /\ \A i \in DOMAIN checks[request] : Closed(disk', "verify", checks[request][i])
  BY <1>1, <1>3, <1>4, ClosedSame DEF AInv, Passed
<1>6. QED
  BY <1>1, <1>3, <1>5 DEF Passed

\* A claim or a resolution.
LEMMA RepairAudit ==
  ASSUME AInv, pc = "idle", NEW k \in DOMAIN disk.findings, NEW g \in Finding,
         disk' = [disk EXCEPT !.findings[k] = g], mem' = disk',
         pc' = pc, job' = job, request' = request,
         disk.findings[k].status \in Unfinished,
         <<g.attempt, g.stage, g.recipe>> =
           <<disk.findings[k].attempt, disk.findings[k].stage, disk.findings[k].recipe>>,
         g.status \in {"in-progress", "resolved"}
  PROVE  (Audit(disk) /\ Audit(mem) /\ Passed)'
<1> DEFINE G == [disk.findings EXCEPT ![k] = g]
<1>1. disk \in Record /\ Audit(disk)
  BY DEF AInv, IInv, TypeOK
<1>2. /\ DOMAIN G = DOMAIN disk.findings
      /\ G[k] = g /\ \A j \in DOMAIN G : j # k => G[j] = disk.findings[j]
  BY <1>1 DEF Record
<1>3. disk' = [disk EXCEPT !.findings = G]
  OBVIOUS
<1> HIDE DEF G
<1>4. /\ disk'.findings = G /\ disk'.history = disk.history
      /\ disk'.attempts = disk.attempts /\ disk'.status = disk.status
  BY <1>1, <1>3 DEF Record
<1>5. \A j \in DOMAIN disk.findings :
        /\ disk'.findings[j].attempt = disk.findings[j].attempt
        /\ disk'.findings[j].stage = disk.findings[j].stage
        /\ disk'.findings[j].recipe = disk.findings[j].recipe
        /\ disk'.findings[j].status \in Unfinished => disk.findings[j].status \in Unfinished
        /\ disk'.findings[j].status = "superseded" => disk'.findings[j] = disk.findings[j]
  BY <1>2, <1>4
<1>6. Accounted(disk')
  BY <1>1, <1>4 DEF Audit, Accounted, Ends
<1>7. Documented(disk')
  <2>1. ASSUME NEW j \in DOMAIN disk.findings
        PROVE  /\ disk'.findings[j].attempt \in 1..disk'.attempts
               /\ \E e \in DOMAIN disk'.history :
                    disk'.history[e].attempt = disk'.findings[j].attempt
                    /\ disk'.history[e].kind \in Broken
    BY <1>1, <1>4, <1>5 DEF Audit, Documented
  <2>2. ASSUME NEW e \in DOMAIN disk'.history, disk'.history[e].kind \in Broken
        PROVE  \E j \in DOMAIN disk.findings : disk'.findings[j].attempt = disk'.history[e].attempt
    BY <1>1, <1>4, <1>5, <2>2 DEF Audit, Documented
  <2>3. ASSUME NEW i \in DOMAIN disk.findings, NEW j \in DOMAIN disk.findings,
               disk'.findings[i].attempt = disk'.findings[j].attempt
        PROVE  i = j
    BY <1>1, <1>5, <2>3 DEF Audit, Documented
  <2>4. QED
    BY <1>2, <1>4, <2>1, <2>2, <2>3 DEF Documented
<1>8. Backed(disk')
  <2>1. \A a, kind, q, i : Shows(disk', a, kind, q, i) <=> Shows(disk, a, kind, q, i)
    BY <1>4 DEF Shows
  <2>2. QED
    BY <1>1, <1>2, <1>4, <1>5, <2>1 DEF Audit, Backed
<1>9. \A stage, r : Closed(disk, stage, r) => Closed(disk', stage, r)
  BY <1>2, <1>4, <1>5 DEF Closed
<1>10. Passed'
  BY <1>4, <1>9 DEF AInv, Passed
<1>11. QED
  BY <1>6, <1>7, <1>8, <1>10 DEF Audit

LEMMA AuditStep ==
  ASSUME AInv, [Next]_vars
  PROVE  AInv'
<1> SUFFICES (Audit(disk) /\ Audit(mem) /\ Passed)'
  BY NextStep DEF AInv
<1>1. ASSUME NEW b \in Bundles, Start(b) PROVE (Audit(disk) /\ Audit(mem) /\ Passed)'
  BY <1>1, StartAudit
<1>2. CASE PreflightFails
  <2>1. PICK i \in DOMAIN recipes[request] : Fail("preflight", recipes[request][i], i)
    BY <1>2 DEF PreflightFails
  <2>2. pc # "idle" /\ recipes[request][i] \in Names /\ i \in Nat /\ "preflight" \in Stages
    BY <1>2, CampaignAssumption DEF AInv, IInv, TypeOK, PreflightFails, Stages
  <2>3. QED
    BY <2>1, <2>2, FailAudit
<1>3. CASE StageFails
  BY <1>3, FailAudit DEF StageFails, Stages
<1>4. CASE TmpdirFails
  BY <1>4, FailAudit DEF TmpdirFails, Stages
<1>5. CASE TmpdirOk
  BY <1>5, TmpdirOkAudit
<1>6. CASE BeginRecipe
  BY <1>6, BeginRecipeAudit
<1>7. CASE BuildFails
  <2>1. pc # "idle" /\ recipes[request][job] \in Names /\ job \in Nat /\ "build" \in Stages
    BY <1>7, CampaignAssumption DEF AInv, IInv, TypeOK, Progress, BuildFails, Stages
  <2>2. Fail("build", recipes[request][job], job)
    BY <1>7 DEF BuildFails
  <2>3. QED
    BY <2>1, <2>2, FailAudit
<1>8. CASE BuildOk
  BY <1>8, BuildOkAudit
<1>9. CASE ClaimBuilds
  BY <1>9, ClaimBuildsAudit
<1>10. CASE RefuseManifest
  BY <1>10, GoneAudit DEF RefuseManifest
<1>11. CASE VerifyFails
  <2>1. pc # "idle" /\ checks[request][job] \in Names /\ job \in Nat /\ "verify" \in Stages
    BY <1>11, CampaignAssumption DEF AInv, IInv, TypeOK, VerifyFails, MayVerify, Stages
  <2>2. Fail("verify", checks[request][job], job)
    BY <1>11 DEF VerifyFails
  <2>3. QED
    BY <2>1, <2>2, FailAudit
<1>12. CASE VerifyOk
  BY <1>12, VerifyOkAudit
<1>13. CASE Complete
  BY <1>13, CompleteAudit
<1>14. CASE Crash
  BY <1>14, GoneAudit DEF Crash
<1>15. ASSUME NEW k \in DOMAIN disk.findings, disk.findings[k] \in Finding,
              NEW o \in Owners, Claim(k, o) \/ Resolve(k, o)
       PROVE  (Audit(disk) /\ Audit(mem) /\ Passed)'
  <2> DEFINE f == disk.findings[k]
  <2>1. CASE Claim(k, o)
    <3>1. /\ Claimed(f, o) \in Finding
          /\ <<Claimed(f, o).attempt, Claimed(f, o).stage, Claimed(f, o).recipe>>
                = <<f.attempt, f.stage, f.recipe>>
          /\ Claimed(f, o).status = "in-progress"
      BY <1>15 DEF Claimed, Finding, Unfinished
    <3>2. disk' = [disk EXCEPT !.findings[k] = Claimed(f, o)] /\ mem' = disk' /\ pc = "idle"
          /\ pc' = pc /\ job' = job /\ request' = request /\ f.status \in Unfinished
      BY <2>1 DEF Claim, Write, Unfinished
    <3>3. QED
      BY <3>1, <3>2, RepairAudit
  <2>2. CASE Resolve(k, o)
    <3>1. /\ Resolved(f) \in Finding
          /\ <<Resolved(f).attempt, Resolved(f).stage, Resolved(f).recipe>>
                = <<f.attempt, f.stage, f.recipe>>
          /\ Resolved(f).status = "resolved"
      BY <1>15 DEF Resolved, Finding
    <3>2. disk' = [disk EXCEPT !.findings[k] = Resolved(f)] /\ mem' = disk' /\ pc = "idle"
          /\ pc' = pc /\ job' = job /\ request' = request /\ f.status \in Unfinished
      BY <2>2 DEF Resolve, Write, Unfinished
    <3>3. QED
      BY <3>1, <3>2, RepairAudit
  <2>3. QED
    BY <1>15, <2>1, <2>2
<1>16. \A k \in DOMAIN disk.findings : disk.findings[k] \in Finding
  BY DEF AInv, IInv, TypeOK, Record
<1>17. CASE UNCHANGED vars
  <2>1. disk' = disk /\ mem' = mem /\ pc' = pc /\ job' = job /\ request' = request
    BY <1>17 DEF vars
  <2>2. Audit(disk') /\ Audit(mem')
    BY <2>1 DEF AInv
  <2>3. Passed'
    BY <2>1 DEF AInv, Passed
  <2>4. QED
    BY <2>2, <2>3
<1>18. QED
  BY <1>1, <1>2, <1>3, <1>4, <1>5, <1>6, <1>7, <1>8, <1>9, <1>10, <1>11, <1>12, <1>13, <1>14,
     <1>15, <1>16, <1>17
  DEF Next, Retry, Controller, Repair

\* What the properties say of the audit trail.
LEMMA AuditImplies ==
  ASSUME AInv
  PROVE  AttemptsAccounted /\ FailuresHaveFindings /\ SupersededBacked /\ CompletedClosesFindings
<1>1. disk \in Record /\ disk.attempts \in Nat /\ Len(disk.history) \in Nat
  BY DEF AInv, IInv, TypeOK, Record
<1>2. \A e, a : Concludes(e, a) <=> Ends(disk, e, a)
  BY DEF Concludes, Ends
<1>3. AttemptsAccounted
  BY <1>2 DEF AInv, Audit, Accounted, AttemptsAccounted, Concluded
<1>4. FailuresHaveFindings
  <2>1. \A k \in Terminal : k # "completed" <=> k \in Broken
    BY DEF Terminal, Broken
  <2>2. ASSUME NEW a \in 1..disk.attempts
        PROVE  (\E k \in DOMAIN disk.findings : disk.findings[k].attempt = a) <=>
               (\E e \in DOMAIN disk.history : Concludes(e, a) /\ disk.history[e].kind # "completed")
    <3>1. ASSUME NEW k \in DOMAIN disk.findings, disk.findings[k].attempt = a
          PROVE  \E e \in DOMAIN disk.history : Concludes(e, a) /\ disk.history[e].kind # "completed"
      <4>1. PICK e \in DOMAIN disk.history :
              disk.history[e].attempt = disk.findings[k].attempt /\ disk.history[e].kind \in Broken
        BY DEF AInv, Audit, Documented
      <4>2. QED
        BY <3>1, <4>1 DEF Concludes, Broken, Terminal
    <3>2. ASSUME NEW e \in DOMAIN disk.history, Concludes(e, a), disk.history[e].kind # "completed"
          PROVE  \E k \in DOMAIN disk.findings : disk.findings[k].attempt = a
      <4>1. disk.history[e].kind \in Broken /\ disk.history[e].attempt = a
        BY <2>1, <3>2 DEF Concludes
      <4>2. QED
        BY <4>1 DEF AInv, Audit, Documented
    <3>3. QED
      BY <3>1, <3>2
  <2>3. QED
    BY <2>2 DEF AInv, Audit, Documented, FailuresHaveFindings
<1>5. SupersededBacked
  <2>1. 1..Len(disk.history) \subseteq 1..disk.attempts + Len(disk.history)
    BY <1>1
  <2>2. QED
    BY <2>1 DEF AInv, Audit, Backed, SupersededBacked
<1>6. CompletedClosesFindings
  BY DEF AInv, Passed, Closed, CompletedClosesFindings
<1>7. QED
  BY <1>3, <1>4, <1>5, <1>6

-----------------------------------------------------------------------------
(* The claim ladder: how many jobs the current attempt has proved.         *)

Count(s, kind) == Cardinality(Successes(s, kind))

Jobs == {"build", "verify"}

LEMMA CountType ==
  ASSUME NEW s \in Record, NEW kind
  PROVE  IsFiniteSet(Successes(s, kind)) /\ Count(s, kind) \in Nat
<1>1. DOMAIN s.history = 1..Len(s.history) /\ Len(s.history) \in Nat
  BY DEF Record
<1>2. IsFiniteSet(1..Len(s.history))
  BY <1>1, FS_Interval
<1>3. Successes(s, kind) \in SUBSET (1..Len(s.history))
  BY <1>1 DEF Successes
<1>4. IsFiniteSet(Successes(s, kind))
  BY <1>2, <1>3, FS_Subset
<1>5. QED
  BY <1>4, FS_CardinalityType DEF Count

LEMMA CountSame ==
  ASSUME NEW s, NEW t, t.history = s.history, t.attempts = s.attempts, NEW kind
  PROVE  Count(t, kind) = Count(s, kind)
BY DEF Count, Successes

\* A longer history of the same attempt proves no less.
LEMMA CountGrows ==
  ASSUME NEW s \in Record, NEW t \in Record, Grows(s, t), t.attempts = s.attempts, NEW kind
  PROVE  Count(s, kind) <= Count(t, kind)
<1>1. Successes(s, kind) \in SUBSET Successes(t, kind)
  BY DEF Successes, Grows
<1>2. QED
  BY <1>1, CountType, FS_Subset DEF Count

\* The event is one more success of its kind.
LEMMA CountLog ==
  ASSUME NEW s \in Record, NEW kind \in Kinds, NEW r \in Names \union {None}, NEW j \in Nat,
         NEW k
  PROVE  Count(Log(s, kind, r, j), k) = IF k = kind THEN Count(s, k) + 1 ELSE Count(s, k)
<1> DEFINE t == Log(s, kind, r, j)
           n == Len(s.history) + 1
<1>1. /\ t.attempts = s.attempts
      /\ n \in Nat /\ n \notin 1..Len(s.history)
      /\ DOMAIN s.history = 1..Len(s.history) /\ DOMAIN t.history = 1..n
      /\ \A e \in 1..Len(s.history) : t.history[e] = s.history[e]
      /\ t.history[n].attempt = s.attempts /\ t.history[n].kind = kind
  <2>1. Logged(s, t, [attempt |-> s.attempts, kind |-> kind, recipe |-> r, job |-> j])
    BY LogAppends
  <2> USE DEF Logged
  <2> HIDE DEF t
  <2>2. QED
    BY <2>1 DEF Kept
<1> HIDE DEF t
<1>2. Len(s.history) \in Nat
  BY DEF Record
<1>3. 1..n = (1..Len(s.history)) \union {n}
  BY <1>2 DEF n
<1> HIDE DEF n
<1>4. CASE k = kind
  <2>1. Successes(t, k) = Successes(s, k) \union {n} /\ n \notin Successes(s, k)
    BY <1>1, <1>3, <1>4 DEF Successes
  <2>2. Cardinality(Successes(t, k)) = Cardinality(Successes(s, k)) + 1
    BY <2>1, CountType, FS_AddElement
  <2>3. QED
    BY <1>4, <2>2 DEF Count, t
<1>5. CASE k # kind
  <2>1. Successes(t, k) = Successes(s, k)
    BY <1>1, <1>3, <1>5 DEF Successes
  <2>2. QED
    BY <1>5, <2>1 DEF Count, t
<1>6. QED
  BY <1>4, <1>5

\* An event of another kind proves no job.
LEMMA CountOther ==
  ASSUME NEW s \in Record, NEW kind \in Kinds \ Jobs, NEW q \in Jobs
  PROVE  Count(Log(s, kind, None, 0), q) = Count(s, q)
<1>1. None \in Names \union {None} /\ 0 \in Nat /\ q # kind /\ kind \in Kinds
  OBVIOUS
<1>2. Count(Log(s, kind, None, 0), q) = IF q = kind THEN Count(s, q) + 1 ELSE Count(s, q)
  BY <1>1, CountLog
<1>3. QED
  BY <1>1, <1>2

\* A failure proves nothing and takes nothing back.
LEMMA CountFailure ==
  ASSUME NEW s \in Record, NEW stage \in Stages, NEW r \in Names \union {None}, NEW j \in Nat,
         NEW kind \in Jobs
  PROVE  Count(RecordFailure(s, stage, r, j), kind) = Count(s, kind)
<1> DEFINE u == File(s, stage, r, j, "open", 0)
           v == [u EXCEPT !.status = "failed", !.current = None]
<1>1. u \in Record /\ u.history = s.history /\ u.attempts = s.attempts
  <2>1. Filed(s, u, [attempt |-> s.attempts, stage |-> stage, recipe |-> r, job |-> j,
                     status |-> "open", owner |-> None, evidence |-> 0])
    BY FileAppends
  <2> USE DEF Filed
  <2> HIDE DEF u
  <2>2. QED
    BY <2>1 DEF Kept
<1> HIDE DEF u
<1>2. v \in Record /\ v.history = s.history /\ v.attempts = s.attempts
  BY <1>1 DEF Record, Statuses
<1>3. RecordFailure(s, stage, r, j) = Log(v, "failed", r, j)
  BY DEF RecordFailure, u
<1> HIDE DEF v
<1>4. "failed" \in Kinds /\ kind # "failed"
  BY DEF Kinds, Jobs
<1>5. Count(Log(v, "failed", r, j), kind) = Count(v, kind)
  BY <1>2, <1>4, CountLog
<1>6. QED
  BY <1>2, <1>3, <1>5, CountSame

LEMMA CountSuccess ==
  ASSUME NEW s \in Record, NEW stage \in Jobs, NEW r \in Names, NEW j \in Nat, NEW kind
  PROVE  Count(RecordSuccess(s, stage, r, j), kind) =
           IF kind = stage THEN Count(s, kind) + 1 ELSE Count(s, kind)
<1> DEFINE u == Log(s, stage, r, j)
           t == Supersede(u, stage, r)
<1>1. stage \in Kinds /\ r \in Names \union {None}
  BY DEF Kinds, Jobs
<1>2. u \in Record
  BY <1>1, LogFields
<1>3. Count(u, kind) = IF kind = stage THEN Count(s, kind) + 1 ELSE Count(s, kind)
  BY <1>1, CountLog
<1>4. RecordSuccess(s, stage, r, j) = t
  BY DEF RecordSuccess
<1> HIDE DEF u
<1>5. t.history = u.history /\ t.attempts = u.attempts
  BY <1>2 DEF Supersede, Record
<1>6. QED
  BY <1>3, <1>4, <1>5, CountSame

\* A new attempt starts without evidence.
LEMMA CountStart ==
  ASSUME disk \in Record, OwnersNamed(disk), Audit(disk), NEW b \in Bundles, NEW kind \in Jobs
  PROVE  Count(Log(NewAttempt(RecordInterrupted(Loaded(b))), "started", None, 0), kind) = 0
<1> DEFINE u == Loaded(b)
           v == RecordInterrupted(u)
           w == NewAttempt(v)
<1>1. u \in Record /\ u.findings = disk.findings /\ u.history = disk.history
      /\ u.attempts = disk.attempts /\ u.status = disk.status
  BY DEF Loaded, Record
<1> HIDE DEF u
<1>2. OwnersNamed(u) /\ Audit(u)
  BY <1>1, AuditSame DEF OwnersNamed
<1>3. v \in Record /\ v.attempts \in Nat
  BY <1>1, <1>2, RecordInterruptedEffect DEF Record
<1>4. Settled(v)
  BY <1>1, <1>2, InterruptedSettles
<1> HIDE DEF v
<1>5. w \in Record /\ w.history = v.history /\ w.attempts = v.attempts + 1
  BY <1>3, NewAttemptEffect
<1> HIDE DEF w
<1>6. \A e \in DOMAIN w.history : w.history[e].attempt # w.attempts
  BY <1>3, <1>4, <1>5 DEF Settled
<1>7. Successes(w, kind) = {}
  BY <1>6 DEF Successes
<1>8. Count(w, kind) = 0
  BY <1>7, FS_EmptySet DEF Count
<1>9. "started" \in Kinds /\ kind # "started"
  BY DEF Kinds, Jobs
<1>10. Count(Log(w, "started", None, 0), kind) = Count(w, kind)
  BY <1>5, <1>9, CountLog
<1>11. QED
  BY <1>8, <1>10 DEF w, v, u

\* How far the attempt has come, as the controller's copy shows it.
Rungs ==
  /\ pc \in {"prepare", "build", "building"} => Count(mem, "verify") = 0
  /\ pc = "prepare" => Count(mem, "build") = 0
  /\ pc \in {"build", "building"} =>
       Count(mem, "build") = job - 1 /\ job - 1 <= Len(recipes[request])
  /\ pc = "verify" =>
       /\ Count(mem, "build") = Len(recipes[request])
       /\ Count(mem, "verify") = job - 1 /\ job - 1 <= Len(checks[request])

LInv == AInv /\ Rungs

\* What Rungs says of the state file while a controller runs.
LEMMA RungsOfFile ==
  ASSUME LInv, pc # "idle"
  PROVE  /\ disk.status = "running" /\ disk.attempts = mem.attempts
         /\ disk.builds = mem.builds /\ disk.verified = mem.verified
         /\ disk \in Record /\ mem \in Record /\ OwnersNamed(mem)
         /\ request \in Bundles /\ job \in Nat \ {0}
         /\ recipes[request] \in Seq(Names) /\ checks[request] \in Seq(Names)
         /\ \A kind \in Jobs : /\ Count(disk, kind) \in Nat /\ Count(mem, kind) \in Nat
                               /\ Count(disk, kind) <= Count(mem, kind)
         /\ Count(mem, "build") <= Len(recipes[request])
         /\ Count(mem, "verify") <= Len(checks[request])
         /\ Count(mem, "verify") > 0 => disk.builds
<1>1. /\ disk.status = "running" /\ disk.attempts = mem.attempts
      /\ disk.builds = mem.builds /\ disk.verified = mem.verified
      /\ disk \in Record /\ mem \in Record /\ OwnersNamed(mem) /\ Grows(disk, mem)
      /\ pc = "verify" => disk.builds
      /\ pc \in {"prepare", "build", "building", "verify"}
      /\ request \in Bundles /\ job \in Nat \ {0}
  BY DEF LInv, AInv, IInv, TypeOK, CopyAgrees
<1>2. recipes[request] \in Seq(Names) /\ checks[request] \in Seq(Names)
  BY <1>1, CampaignAssumption
<1>3. Len(recipes[request]) \in Nat /\ Len(checks[request]) \in Nat
  BY <1>2
<1>4. \A kind \in Jobs : /\ Count(disk, kind) \in Nat /\ Count(mem, kind) \in Nat
                         /\ Count(disk, kind) <= Count(mem, kind)
  BY <1>1, CountType, CountGrows
<1>5. Count(mem, "build") <= Len(recipes[request])
  BY <1>1, <1>3 DEF LInv, Rungs
<1>6. Count(mem, "verify") <= Len(checks[request]) /\ (Count(mem, "verify") > 0 => disk.builds)
  BY <1>1, <1>3 DEF LInv, Rungs
<1>7. QED
  BY <1>1, <1>2, <1>4, <1>5, <1>6

\* A write of a running attempt that proves at least what its copy did.
LEMMA Evidenced ==
  ASSUME LInv, pc # "idle", request' = request, disk'.attempts = disk.attempts,
         Count(disk', "build") \in Count(mem, "build")..Len(recipes[request]),
         Count(disk', "verify") \in Count(mem, "verify")..Len(checks[request]),
         Count(disk', "verify") > 0 => disk.builds
  PROVE  Ladder!Evidence
<1>1. /\ disk.status = "running"
      /\ recipes[request] \in Seq(Names) /\ checks[request] \in Seq(Names)
      /\ \A kind \in Jobs : /\ Count(disk, kind) \in Nat /\ Count(mem, kind) \in Nat
                            /\ Count(disk, kind) <= Count(mem, kind)
  BY RungsOfFile
<1>2. /\ Count(disk', "build") \in Count(disk, "build")..Len(recipes[request])
      /\ Count(disk', "verify") \in Count(disk, "verify")..Len(checks[request])
  BY <1>1 DEF Jobs
<1>3. QED
  BY <1>1, <1>2 DEF Ladder!Evidence, Count

\* A step that writes nothing the ladder looks at.
LEMMA Unseen ==
  ASSUME disk'.history = disk.history, disk'.attempts = disk.attempts,
         disk'.status = disk.status, disk'.builds = disk.builds, disk'.verified = disk.verified,
         request' = request
  PROVE  UNCHANGED Ladder!ladder
<1>1. Successes(disk', "build") = Successes(disk, "build")
      /\ Successes(disk', "verify") = Successes(disk, "verify")
  BY DEF Successes
<1>2. QED
  BY <1>1 DEF Ladder!ladder

LEMMA StartClimbs ==
  ASSUME LInv, NEW b \in Bundles, Start(b)
  PROVE  Rungs' /\ Ladder!Next
<1>1. disk \in Record /\ OwnersNamed(disk) /\ Audit(disk)
  BY DEF LInv, AInv, IInv, TypeOK
<1>2. /\ disk' = Log(NewAttempt(RecordInterrupted(Loaded(b))), "started", None, 0)
      /\ mem' = disk' /\ pc' = "prepare" /\ job' = 1 /\ request' = b
  BY DEF Start, Write
<1>3. /\ disk'.attempts = disk.attempts + 1 /\ disk'.status = "running"
      /\ disk'.builds = FALSE /\ disk'.verified = FALSE
  BY <1>1, <1>2, StartEffect
<1>4. Count(disk', "build") = 0 /\ Count(disk', "verify") = 0
  BY <1>1, <1>2, CountStart DEF Jobs
<1>5. Rungs'
  BY <1>2, <1>4 DEF Rungs
<1>6. Ladder!Begin
  BY <1>2, <1>3, <1>4 DEF Ladder!Begin, Count
<1>7. QED
  BY <1>5, <1>6 DEF Ladder!Next

LEMMA FailClimbs ==
  ASSUME LInv, pc # "idle", NEW stage \in Stages, NEW r \in Names \union {None}, NEW j \in Nat,
         Fail(stage, r, j)
  PROVE  Rungs' /\ Ladder!Next
<1>1. /\ disk' = RecordFailure(mem, stage, r, j) /\ pc' = "idle" /\ request' = request
  BY DEF Fail, Write
<1>2. /\ disk.attempts = mem.attempts /\ disk.builds = mem.builds /\ disk.verified = mem.verified
      /\ mem \in Record /\ OwnersNamed(mem)
      /\ recipes[request] \in Seq(Names) /\ checks[request] \in Seq(Names)
      /\ \A kind \in Jobs : Count(mem, kind) \in Nat
      /\ Count(mem, "build") <= Len(recipes[request])
      /\ Count(mem, "verify") <= Len(checks[request])
      /\ Count(mem, "verify") > 0 => disk.builds
  BY RungsOfFile
<1>3. /\ disk'.status = "failed" /\ disk'.attempts = mem.attempts
      /\ disk'.builds = mem.builds /\ disk'.verified = mem.verified
  BY <1>1, <1>2, RecordFailureEffect
<1>4. \A kind \in Jobs : Count(disk', kind) = Count(mem, kind)
  BY <1>1, <1>2, CountFailure
<1>5. Ladder!Evidence
  BY <1>1, <1>2, <1>3, <1>4, Evidenced DEF Jobs
<1>6. Ladder!Fail
  BY <1>2, <1>3, <1>5 DEF Ladder!Fail
<1>7. QED
  BY <1>1, <1>6 DEF Rungs, Ladder!Next

\* A step that only ends the run without a write.
LEMMA GoneClimbs ==
  ASSUME LInv, pc' = "idle", disk' = disk, request' = request
  PROVE  Rungs' /\ UNCHANGED Ladder!ladder
BY Unseen DEF Rungs

LEMMA TmpdirOkClimbs ==
  ASSUME LInv, TmpdirOk
  PROVE  Rungs' /\ UNCHANGED Ladder!ladder
<1>1. /\ pc = "prepare" /\ pc' = "build" /\ disk' = disk /\ job' = job /\ request' = request
      /\ mem' = Log(mem, "tmpdir", None, 0)
  BY DEF TmpdirOk
<1>2. mem \in Record /\ recipes[request] \in Seq(Names)
  BY <1>1, RungsOfFile
<1>3. "tmpdir" \in Kinds \ Jobs
  BY DEF Kinds, Jobs
<1>4. ASSUME NEW q \in Jobs PROVE Count(mem', q) = Count(mem, q)
  <2>1. Count(Log(mem, "tmpdir", None, 0), q) = Count(mem, q)
    BY <1>2, <1>3, CountOther
  <2>2. QED
    BY <1>1, <2>1 DEF Count, Successes
<1>5. job = 1
  BY <1>1 DEF LInv, AInv, IInv, Progress
<1>6. Rungs'
  BY <1>1, <1>2, <1>4, <1>5 DEF LInv, Rungs, Jobs
<1>7. QED
  BY <1>1, <1>6, Unseen

LEMMA BeginRecipeClimbs ==
  ASSUME LInv, BeginRecipe
  PROVE  Rungs' /\ Ladder!Next
<1>1. /\ pc = "build" /\ pc' = "building" /\ job' = job /\ request' = request /\ mem' = disk'
      /\ disk' = [mem EXCEPT !.current = recipes[request][job]]
  BY DEF BeginRecipe, Write
<1>2. /\ disk.status = "running" /\ disk.attempts = mem.attempts
      /\ disk.builds = mem.builds /\ disk.verified = mem.verified
      /\ mem \in Record
      /\ recipes[request] \in Seq(Names) /\ checks[request] \in Seq(Names)
      /\ \A kind \in Jobs : Count(mem, kind) \in Nat
      /\ Count(mem, "build") <= Len(recipes[request])
      /\ Count(mem, "verify") <= Len(checks[request])
      /\ Count(mem, "verify") > 0 => disk.builds
  BY <1>1, RungsOfFile
<1>3. mem.status = "running"
  BY <1>1 DEF LInv, AInv, IInv, CopyAgrees
<1>4. /\ disk'.history = mem.history /\ disk'.attempts = mem.attempts
      /\ disk'.status = mem.status /\ disk'.builds = mem.builds /\ disk'.verified = mem.verified
  BY <1>1, <1>2 DEF Record
<1>5. \A kind \in Jobs : Count(disk', kind) = Count(mem, kind)
  BY <1>4, CountSame
<1>6. Ladder!Evidence
  BY <1>1, <1>2, <1>4, <1>5, Evidenced DEF Jobs
<1>7. Ladder!Prove
  BY <1>2, <1>3, <1>4, <1>6 DEF Ladder!Prove
<1>8. Rungs'
  BY <1>1, <1>5 DEF LInv, Rungs, Jobs
<1>9. QED
  BY <1>7, <1>8 DEF Ladder!Next

LEMMA BuildOkClimbs ==
  ASSUME LInv, BuildOk
  PROVE  Rungs' /\ UNCHANGED Ladder!ladder
<1>1. /\ pc = "building" /\ pc' = "build" /\ job' = job + 1 /\ disk' = disk
      /\ request' = request
      /\ mem' = RecordSuccess(mem, "build", recipes[request][job], job)
  BY DEF BuildOk
<1>2. mem \in Record /\ job \in Nat \ {0} /\ recipes[request] \in Seq(Names)
  BY <1>1, RungsOfFile
<1>3. job \in DOMAIN recipes[request] /\ recipes[request][job] \in Names
  BY <1>1, <1>2 DEF LInv, AInv, IInv, Progress
<1>4. Count(mem', "build") = Count(mem, "build") + 1 /\ Count(mem', "verify") = Count(mem, "verify")
  BY <1>1, <1>2, <1>3, CountSuccess DEF Jobs
<1>5. (job + 1) - 1 = (job - 1) + 1 /\ (job + 1) - 1 <= Len(recipes[request])
  BY <1>2, <1>3
<1>6. Rungs'
  BY <1>1, <1>4, <1>5 DEF LInv, Rungs
<1>7. QED
  BY <1>1, <1>6, Unseen

LEMMA ClaimBuildsClimbs ==
  ASSUME LInv, ClaimBuilds
  PROVE  Rungs' /\ Ladder!Next
<1>1. /\ pc = "build" /\ pc' = "verify" /\ job' = 1 /\ mem' = disk' /\ request' = request
      /\ disk' = [mem EXCEPT !.current = None, !.builds = TRUE]
      /\ job > Len(recipes[request])
  BY DEF ClaimBuilds, Write
<1>2. /\ disk.status = "running" /\ disk.attempts = mem.attempts
      /\ disk.verified = mem.verified
      /\ mem \in Record /\ job \in Nat \ {0}
      /\ recipes[request] \in Seq(Names) /\ checks[request] \in Seq(Names)
      /\ \A kind \in Jobs : Count(mem, kind) \in Nat
  BY <1>1, RungsOfFile
<1>3. mem.status = "running"
  BY <1>1 DEF LInv, AInv, IInv, CopyAgrees
<1>4. /\ disk'.history = mem.history /\ disk'.attempts = mem.attempts
      /\ disk'.status = mem.status /\ disk'.builds = TRUE /\ disk'.verified = mem.verified
  BY <1>1, <1>2 DEF Record
<1>5. \A kind \in Jobs : Count(disk', kind) = Count(mem, kind)
  BY <1>4, CountSame
<1>6. Count(mem, "build") = Len(recipes[request]) /\ Count(mem, "verify") = 0
  BY <1>1, <1>2 DEF LInv, Rungs
<1>7. Ladder!Evidence
  BY <1>1, <1>2, <1>4, <1>5, <1>6, Evidenced DEF Jobs
<1>8. Ladder!ClaimBuilds
  BY <1>2, <1>3, <1>4, <1>5, <1>6, <1>7 DEF Ladder!ClaimBuilds, Jobs, Count
<1>9. Rungs'
  BY <1>1, <1>2, <1>5, <1>6 DEF Rungs, Jobs
<1>10. QED
  BY <1>8, <1>9 DEF Ladder!Next

LEMMA VerifyOkClimbs ==
  ASSUME LInv, VerifyOk
  PROVE  Rungs' /\ Ladder!Next
<1> DEFINE r == checks[request][job]
<1>1. /\ pc = "verify" /\ pc' = "verify" /\ job' = job + 1 /\ mem' = disk'
      /\ request' = request /\ job <= Len(checks[request])
      /\ disk' = RecordSuccess(mem, "verify", r, job)
  BY DEF VerifyOk, MayVerify, Write
<1>2. /\ disk.status = "running" /\ disk.attempts = mem.attempts
      /\ disk.builds = mem.builds /\ disk.verified = mem.verified
      /\ mem \in Record /\ OwnersNamed(mem) /\ job \in Nat \ {0}
      /\ recipes[request] \in Seq(Names) /\ checks[request] \in Seq(Names)
      /\ \A kind \in Jobs : Count(mem, kind) \in Nat
  BY <1>1, RungsOfFile
<1>3. mem.status = "running" /\ disk.builds
  BY <1>1 DEF LInv, AInv, IInv, CopyAgrees
<1>4. r \in Names /\ Len(checks[request]) \in Nat /\ Len(recipes[request]) \in Nat
  BY <1>1, <1>2
<1> HIDE DEF r
<1>5. Kept(mem, disk')
  BY <1>1, <1>2, <1>4, RecordSuccessEffect
<1>6. Count(disk', "build") = Count(mem, "build") /\ Count(disk', "verify") = Count(mem, "verify") + 1
  BY <1>1, <1>2, <1>4, CountSuccess DEF Jobs
<1>7. Count(mem, "build") = Len(recipes[request]) /\ Count(mem, "verify") = job - 1
  BY <1>1 DEF LInv, Rungs
<1>8. Ladder!Evidence
  <2>1. /\ Count(disk', "build") \in Count(mem, "build")..Len(recipes[request])
        /\ Count(disk', "verify") \in Count(mem, "verify")..Len(checks[request])
    BY <1>1, <1>2, <1>4, <1>6, <1>7
  <2>2. disk'.attempts = disk.attempts
    BY <1>2, <1>5 DEF Kept
  <2>3. QED
    BY <1>1, <1>3, <2>1, <2>2, Evidenced
<1>9. Ladder!Prove
  BY <1>2, <1>3, <1>5, <1>8 DEF Ladder!Prove, Kept
<1>10. Rungs'
  BY <1>1, <1>2, <1>4, <1>6, <1>7 DEF Rungs
<1>11. QED
  BY <1>9, <1>10 DEF Ladder!Next

LEMMA CompleteClimbs ==
  ASSUME LInv, Complete
  PROVE  Rungs' /\ Ladder!Next
<1> DEFINE v == [mem EXCEPT !.status = "completed", !.verified = HasChecks(request)]
<1>1. /\ pc = "verify" /\ pc' = "idle" /\ request' = request
      /\ disk' = Log(v, "completed", None, 0)
      /\ job > Len(checks[request])
  BY DEF Complete, Write
<1>2. /\ disk.status = "running" /\ disk \in Record /\ job \in Nat \ {0}
      /\ checks[request] \in Seq(Names)
  BY <1>1, RungsOfFile
<1>3. mem = disk /\ disk.builds
  BY <1>1 DEF LInv, AInv, IInv, CopyAgrees
<1>4. HasChecks(request) \in BOOLEAN /\ (HasChecks(request) <=> checks[request] # <<>>)
  BY <1>2 DEF HasChecks
<1>5. /\ v \in Record /\ v.history = disk.history /\ v.attempts = disk.attempts
      /\ v.builds = disk.builds /\ v.status = "completed" /\ v.verified = HasChecks(request)
  BY <1>2, <1>3, <1>4 DEF Record, Statuses
<1> HIDE DEF v
<1>6. "completed" \in Kinds /\ "completed" \notin Jobs
  BY DEF Kinds, Jobs
<1>7. Kept(v, disk')
  BY <1>1, <1>5, <1>6, LogEffect
<1>8. ASSUME NEW kind \in Jobs PROVE Count(disk', kind) = Count(disk, kind)
  <2>1. Count(Log(v, "completed", None, 0), kind) = Count(v, kind)
    BY <1>5, <1>6, CountLog
  <2>2. Count(v, kind) = Count(disk, kind)
    BY <1>5, CountSame
  <2>3. QED
    BY <1>1, <2>1, <2>2 DEF Count, Successes
<1>9. Count(disk, "verify") = Len(checks[request])
  BY <1>1, <1>2, <1>3 DEF LInv, Rungs
<1>10. Ladder!Complete
  BY <1>1, <1>2, <1>3, <1>4, <1>5, <1>7, <1>8, <1>9 DEF Ladder!Complete, Count, Jobs, Kept
<1>11. QED
  BY <1>1, <1>10 DEF Rungs, Ladder!Next

LEMMA RepairClimbs ==
  ASSUME LInv, NEW k \in DOMAIN disk.findings, NEW o \in Owners, Claim(k, o) \/ Resolve(k, o)
  PROVE  Rungs' /\ UNCHANGED Ladder!ladder
<1>1. pc' = "idle" /\ request' = request
  BY DEF Claim, Resolve
<1>2. PICK g : disk' = [disk EXCEPT !.findings[k] = g]
  BY DEF Claim, Resolve, Write
<1>3. /\ disk'.history = disk.history /\ disk'.attempts = disk.attempts
      /\ disk'.status = disk.status /\ disk'.builds = disk.builds /\ disk'.verified = disk.verified
  BY <1>2 DEF LInv, AInv, IInv, TypeOK, Record
<1>4. QED
  BY <1>1, <1>3, Unseen DEF Rungs

LEMMA LadderStep ==
  ASSUME LInv, [Next]_vars
  PROVE  LInv' /\ [Ladder!Next]_(Ladder!ladder)
<1> SUFFICES Rungs' /\ [Ladder!Next]_(Ladder!ladder)
  BY AuditStep DEF LInv
<1>1. ASSUME NEW b \in Bundles, Start(b) PROVE Rungs' /\ [Ladder!Next]_(Ladder!ladder)
  BY <1>1, StartClimbs
<1>2. CASE PreflightFails
  <2>1. PICK i \in DOMAIN recipes[request] : Fail("preflight", recipes[request][i], i)
    BY <1>2 DEF PreflightFails
  <2>2. pc # "idle" /\ recipes[request][i] \in Names /\ i \in Nat /\ "preflight" \in Stages
    BY <1>2, CampaignAssumption DEF LInv, AInv, IInv, TypeOK, PreflightFails, Stages
  <2>3. QED
    BY <2>1, <2>2, FailClimbs
<1>3. CASE StageFails
  BY <1>3, FailClimbs DEF StageFails, Stages
<1>4. CASE TmpdirFails
  BY <1>4, FailClimbs DEF TmpdirFails, Stages
<1>5. CASE TmpdirOk
  BY <1>5, TmpdirOkClimbs
<1>6. CASE BeginRecipe
  BY <1>6, BeginRecipeClimbs
<1>7. CASE BuildFails
  <2>1. pc # "idle" /\ recipes[request][job] \in Names /\ job \in Nat /\ "build" \in Stages
    BY <1>7, CampaignAssumption DEF LInv, AInv, IInv, TypeOK, Progress, BuildFails, Stages
  <2>2. Fail("build", recipes[request][job], job)
    BY <1>7 DEF BuildFails
  <2>3. QED
    BY <2>1, <2>2, FailClimbs
<1>8. CASE BuildOk
  BY <1>8, BuildOkClimbs
<1>9. CASE ClaimBuilds
  BY <1>9, ClaimBuildsClimbs
<1>10. CASE RefuseManifest
  BY <1>10, GoneClimbs DEF RefuseManifest
<1>11. CASE VerifyFails
  <2>1. pc # "idle" /\ checks[request][job] \in Names /\ job \in Nat /\ "verify" \in Stages
    BY <1>11, CampaignAssumption DEF LInv, AInv, IInv, TypeOK, VerifyFails, MayVerify, Stages
  <2>2. Fail("verify", checks[request][job], job)
    BY <1>11 DEF VerifyFails
  <2>3. QED
    BY <2>1, <2>2, FailClimbs
<1>12. CASE VerifyOk
  BY <1>12, VerifyOkClimbs
<1>13. CASE Complete
  BY <1>13, CompleteClimbs
<1>14. CASE Crash
  BY <1>14, GoneClimbs DEF Crash
<1>15. ASSUME NEW k \in DOMAIN disk.findings, NEW o \in Owners, Claim(k, o) \/ Resolve(k, o)
       PROVE  Rungs' /\ [Ladder!Next]_(Ladder!ladder)
  BY <1>15, RepairClimbs
<1>16. CASE UNCHANGED vars
  <2>1. disk' = disk /\ mem' = mem /\ pc' = pc /\ job' = job /\ request' = request
    BY <1>16 DEF vars
  <2>2. Rungs'
    BY <2>1 DEF LInv, Rungs
  <2>3. QED
    BY <2>1, <2>2, Unseen
<1>17. QED
  BY <1>1, <1>2, <1>3, <1>4, <1>5, <1>6, <1>7, <1>8, <1>9, <1>10, <1>11, <1>12, <1>13, <1>14,
     <1>15, <1>16
  DEF Next, Retry, Controller, Repair

LEMMA InitLInv == Init => LInv /\ Ladder!Init
<1> SUFFICES ASSUME Init PROVE LInv /\ Ladder!Init
  OBVIOUS
<1>1. AInv
  BY InitAInv
<1>2. \A kind : Successes(disk, kind) = {}
  BY DEF Init, NoRecord, Successes
<1>3. Cardinality({}) = 0
  BY FS_EmptySet
<1>4. Ladder!Init
  BY <1>2, <1>3 DEF Init, NoRecord, Ladder!Init
<1>5. QED
  BY <1>1, <1>4 DEF LInv, Rungs, Init

-----------------------------------------------------------------------------
(* The theorems                                                            *)

LEMMA Invariance == Spec => []IInv
<1>1. IInv /\ [Next]_vars => IInv'
  BY NextStep
<1>2. QED
  BY InitIInv, <1>1, PTL DEF Spec

\* The state file, the controller's copy and the control state are well formed
\* in every reachable state.
THEOREM TypeCorrect == Spec => []TypeOK
<1>1. IInv => TypeOK
  BY DEF IInv
<1>2. QED
  BY Invariance, <1>1, PTL

\* For every set of bundles and any number of attempts, crashes and repairs: the
\* state file claims `builds` only with the evidence of the current attempt.
THEOREM BuildsTheorem == Spec => []BuildsBacked
<1>1. IInv => BuildsBacked
  BY DEF IInv
<1>2. QED
  BY Invariance, <1>1, PTL

\* Likewise for `binary_verified`, which never stands without `builds`.
THEOREM VerifiedTheorem == Spec => []VerifiedBacked
<1>1. IInv => VerifiedBacked
  BY DEF IInv
<1>2. QED
  BY Invariance, <1>1, PTL

\* No build is launched into the install path of an earlier one that may still
\* be running.
THEOREM FreshPathTheorem == Spec => []FreshInstallPath
<1>1. QED
  BY Invariance, IInvImplies, PTL

\* An observer of the state file sees which recipe is being built.
THEOREM InFlightTheorem == Spec => []InFlightIsNamed
<1>1. QED
  BY Invariance, IInvImplies, PTL

\* The findings are an audit trail, in every step of the program.
THEOREM FindingsTheorem == Spec => FindingsOnlyClose
<1>1. IInv /\ [Next]_vars => [OnlyClose(disk.findings, disk'.findings)]_vars
  BY NextStep DEF Grows
<1>2. QED
  BY Invariance, <1>1, PTL DEF Spec, FindingsOnlyClose

\* The history is append-only: an event once written is never lost or changed.
THEOREM HistoryTheorem ==
  Spec => [][\A e \in DOMAIN disk.history :
               e \in DOMAIN disk'.history /\ disk'.history[e] = disk.history[e]]_vars
<1>1. IInv /\ [Next]_vars =>
        [\A e \in DOMAIN disk.history :
           e \in DOMAIN disk'.history /\ disk'.history[e] = disk.history[e]]_vars
  BY NextStep DEF Grows
<1>2. QED
  BY Invariance, <1>1, PTL DEF Spec

LEMMA AuditInvariance == Spec => []AInv
<1>1. AInv /\ [Next]_vars => AInv'
  BY AuditStep
<1>2. QED
  BY InitAInv, <1>1, PTL DEF Spec

\* However often controllers die: every attempt but a running one has exactly
\* one terminal event, so none gets lost and none ends twice.
THEOREM AttemptsTheorem == Spec => []AttemptsAccounted
<1>1. QED
  BY AuditInvariance, AuditImplies, PTL

\* Every attempt that failed or was interrupted has its one finding, and no
\* other attempt has any.
THEOREM FailuresTheorem == Spec => []FailuresHaveFindings
<1>1. QED
  BY AuditInvariance, AuditImplies, PTL

\* A superseded build or verification finding cites a later attempt whose
\* history shows that it got past what had failed.
THEOREM SupersededTheorem == Spec => []SupersededBacked
<1>1. QED
  BY AuditInvariance, AuditImplies, PTL

\* A completed campaign leaves no unfinished finding about a recipe or a profile
\* of its last run, whoever claimed it in the meantime.
THEOREM CompletedTheorem == Spec => []CompletedClosesFindings
<1>1. QED
  BY AuditInvariance, AuditImplies, PTL

\* For any bundles, any number of attempts and any crashes: the campaign
\* implements the claim ladder that ClaimLadder promises to a reader.
THEOREM LadderTheorem == Spec => ImplementsLadder
<1>1. LInv /\ [Next]_vars => LInv'
  BY LadderStep
<1>2. LInv /\ [Next]_vars => [Ladder!Next]_(Ladder!ladder)
  BY LadderStep
<1>3. QED
  BY InitLInv, <1>1, <1>2, PTL DEF Spec, ImplementsLadder, Ladder!Spec
=============================================================================
