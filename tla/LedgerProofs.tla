---------------------------- MODULE LedgerProofs ----------------------------
(***************************************************************************)
(* Proofs about Ledger.  IInv says what the lock holder has established at *)
(* each of its steps; nobody else changes the log, so its knowledge is not *)
(* disturbed.  The rest are facts about initial parts of a sequence that   *)
(* grows at its end and is cut back to a length no promise goes beyond.    *)
(***************************************************************************)
EXTENDS Ledger, TLAPS

-----------------------------------------------------------------------------
(* Sequences                                                               *)

\* The first k elements of a sequence.
LEMMA InitialPart ==
  ASSUME NEW S, NEW s \in Seq(S), NEW k \in 0..Len(s)
  PROVE  /\ SubSeq(s, 1, k) \in Seq(S)
         /\ Len(SubSeq(s, 1, k)) = k
         /\ \A i \in 1..k : SubSeq(s, 1, k)[i] = s[i]
OBVIOUS

\* IsPrefix, element by element.
LEMMA PrefixElements ==
  ASSUME NEW S, NEW s \in Seq(S), NEW t \in Seq(S)
  PROVE  IsPrefix(s, t) <=> Len(s) <= Len(t) /\ \A i \in 1..Len(s) : s[i] = t[i]
<1>1. CASE Len(s) <= Len(t)
  <2>1. /\ SubSeq(s, 1, Len(s)) \in Seq(S) /\ Len(SubSeq(s, 1, Len(s))) = Len(s)
        /\ \A i \in 1..Len(s) : SubSeq(s, 1, Len(s))[i] = s[i]
    BY InitialPart
  <2>2. Len(s) \in 0..Len(t)
    BY <1>1
  <2>3. /\ SubSeq(t, 1, Len(s)) \in Seq(S) /\ Len(SubSeq(t, 1, Len(s))) = Len(s)
        /\ \A i \in 1..Len(s) : SubSeq(t, 1, Len(s))[i] = t[i]
    BY <2>2, InitialPart
  <2>4. SubSeq(s, 1, Len(s)) = SubSeq(t, 1, Len(s)) <=> \A i \in 1..Len(s) : s[i] = t[i]
    BY <2>1, <2>3
  <2> QED
    BY <1>1, <2>4 DEF IsPrefix
<1>2. CASE ~(Len(s) <= Len(t))
  BY <1>2 DEF IsPrefix
<1> QED
  BY <1>1, <1>2

\* A sequence begins with itself.
LEMMA PrefixOfItself ==
  ASSUME NEW S, NEW s \in Seq(S)
  PROVE  IsPrefix(s, s)
BY PrefixElements

\* A prefix stays one when the sequence grows.
LEMMA PrefixGrows ==
  ASSUME NEW S, NEW s \in Seq(S), NEW t \in Seq(S), NEW x \in S, IsPrefix(s, t)
  PROVE  IsPrefix(s, Append(t, x))
<1>1. Append(t, x) \in Seq(S) /\ Len(Append(t, x)) = Len(t) + 1
      /\ \A i \in 1..Len(t) : Append(t, x)[i] = t[i]
  OBVIOUS
<1>2. Len(s) <= Len(t) /\ \A i \in 1..Len(s) : s[i] = t[i]
  BY PrefixElements
<1>3. ASSUME NEW u \in Seq(S), Len(s) <= Len(u), \A i \in 1..Len(s) : s[i] = u[i]
      PROVE  IsPrefix(s, u)
  BY <1>3, PrefixElements
<1> DEFINE u == Append(t, x)
<1>4. u \in Seq(S) /\ Len(s) <= Len(u) /\ \A i \in 1..Len(s) : s[i] = u[i]
  <2>1. \A i \in 1..Len(s) : i \in 1..Len(t)
    BY <1>1, <1>2
  <2> QED
    BY <1>1, <1>2, <2>1
<1> HIDE DEF u
<1>5. IsPrefix(s, u)
  BY <1>3, <1>4
<1> QED
  BY <1>5 DEF u

\* A prefix stays one when the sequence is cut behind it.
LEMMA PrefixCut ==
  ASSUME NEW S, NEW s \in Seq(S), NEW t \in Seq(S), NEW k \in 0..Len(t),
         IsPrefix(s, t), Len(s) <= k
  PROVE  IsPrefix(s, SubSeq(t, 1, k))
<1>1. Len(s) <= Len(t) /\ \A i \in 1..Len(s) : s[i] = t[i]
  BY PrefixElements
<1>2. SubSeq(t, 1, k) \in Seq(S) /\ Len(SubSeq(t, 1, k)) = k
      /\ \A i \in 1..k : SubSeq(t, 1, k)[i] = t[i]
  BY InitialPart
<1>3. ASSUME NEW u \in Seq(S), Len(s) <= Len(u), \A i \in 1..Len(s) : s[i] = u[i]
      PROVE  IsPrefix(s, u)
  BY <1>3, PrefixElements
<1>4. \A i \in 1..Len(s) : i \in 1..k
  BY <1>1, <1>2
<1> QED
  BY <1>1, <1>2, <1>3, <1>4

-----------------------------------------------------------------------------
(* Events                                                                  *)

\* Adding a line whose event is not in the log.
LEMMA EventsGrow ==
  ASSUME NEW s \in Seq(Line), NEW x \in Line, EventsOnce(s),
         \A i \in DOMAIN s : ~(eventOf[x.record] # None /\ eventOf[s[i].record] = eventOf[x.record])
  PROVE  EventsOnce(Append(s, x))
<1>1. /\ DOMAIN s = 1..Len(s) /\ DOMAIN Append(s, x) = 1..(Len(s) + 1) /\ Len(s) \in Nat
      /\ \A i \in 1..Len(s) : Append(s, x)[i] = s[i]
      /\ Append(s, x)[Len(s) + 1] = x
  OBVIOUS
<1> DEFINE t == Append(s, x)
           ev(y) == eventOf[y.record]
<1>2. SUFFICES ASSUME NEW i \in 1..(Len(s) + 1), NEW j \in 1..(Len(s) + 1),
                      ev(t[i]) # None, ev(t[i]) = ev(t[j])
               PROVE  i = j
  BY <1>1 DEF EventsOnce
<1>3. CASE i \in 1..Len(s) /\ j \in 1..Len(s)
  BY <1>1, <1>2, <1>3 DEF EventsOnce
<1>4. CASE i = Len(s) + 1 /\ j \in 1..Len(s)
  BY <1>1, <1>2, <1>4
<1>5. CASE i \in 1..Len(s) /\ j = Len(s) + 1
  BY <1>1, <1>2, <1>5
<1> QED
  BY <1>1, <1>3, <1>4, <1>5

\* Keeping the first lines.
LEMMA EventsCut ==
  ASSUME NEW s \in Seq(Line), NEW k \in 0..Len(s), EventsOnce(s)
  PROVE  EventsOnce(SubSeq(s, 1, k))
<1>1. SubSeq(s, 1, k) \in Seq(Line) /\ Len(SubSeq(s, 1, k)) = k
      /\ \A i \in 1..k : SubSeq(s, 1, k)[i] = s[i]
  BY InitialPart
<1> QED
  BY <1>1 DEF EventsOnce

-----------------------------------------------------------------------------
(* The invariant                                                           *)

Written == {"flush", "link", "sign", "publish", "report"}
Flushed == {"link", "sign", "publish", "report"}

\* What a new line was appended to: exactly the head its caller expected.
OnBasis(r) == r.fresh /\ r.basis # None => IsPrefix(r.basis, log) /\ Len(r.basis) = r.index - 1

InLog(r) == r.index \in 1..Len(log) /\ log[r.index] = r.line

\* What a writer knows under its lock, step by step.
WriterOK(w) ==
  pc[w] # "idle" =>
    /\ \A p \in Procs : p # w => pc[p] = "idle"
    /\ plan[w] \in Plan /\ view[w] = log
    /\ pc[w] = "copy" => tail # None
    /\ pc[w] = "cut" => tail.line \in quarantine
    /\ pc[w] = "write" => tail = None /\ plan[w].fresh
    /\ pc[w] \notin Written /\ plan[w].fresh =>
         /\ plan[w].index = Len(log) + 1
         /\ Recorded(eventOf[plan[w].line.record]) = {}
    /\ pc[w] \in Written \/ ~plan[w].fresh => InLog(plan[w])
    /\ pc[w] = "flush" /\ plan[w].fresh => plan[w].index = Len(log) /\ synced < Len(log)
    /\ pc[w] \in Flushed => synced = Len(log)
    /\ pc[w] \in {"sign", "publish", "report"} => linked
    /\ OnBasis(plan[w])

\* What a signer knows under its lock.
SignerOK(s) ==
  pc[s] # "idle" =>
    /\ pc[s] \in {"sign", "publish"}
    /\ \A w \in Writers : pc[w] = "idle"
    /\ view[s] = log

Holders == (\A w \in Writers : WriterOK(w)) /\ (\A s \in Signers : SignerOK(s))

AckOK(r) == linked /\ r.index \in 1..synced /\ log[r.index] = r.line /\ OnBasis(r)
AckFacts == \A r \in acked : AckOK(r)

HeadFacts ==
  /\ head \in heads \union {None} /\ surviving \subseteq heads \union {None}
  /\ ~stranded => \A h \in heads : IsPrefix(h, log) /\ Durable(h)

IInv == TypeOK /\ Holders /\ AckFacts /\ HeadFacts /\ EventsOnce(log)

-----------------------------------------------------------------------------
(* Effects: how the log changes, and what survives it                      *)

\* The log stays and more of it may be flushed.
LEMMA LogKept ==
  ASSUME TypeOK, AckFacts, HeadFacts,
         log' = log, synced' \in synced..Len(log), linked => linked',
         acked' = acked, signed' = signed
  PROVE  AckFacts' /\ HeadFacts'
<1>1. AckFacts'
  <2>1. SUFFICES ASSUME NEW r \in acked PROVE AckOK(r)'
    BY DEF AckFacts
  <2>2. AckOK(r) /\ synced \in Nat /\ synced' \in Nat /\ synced <= synced' /\ r.index \in 1..synced
    BY DEF AckFacts, AckOK, TypeOK
  <2> QED
    BY <2>2 DEF AckOK, OnBasis
<1>2. HeadFacts'
  <2>1. head' = head /\ surviving' = surviving /\ heads' = heads /\ stranded' = stranded
    BY DEF signed
  <2>2. ASSUME NEW h \in heads, Durable(h) PROVE Durable(h)'
    <3>1. h \in Seq(Line) /\ synced \in Nat /\ synced' \in Nat /\ synced <= synced'
      BY DEF TypeOK
    <3> QED
      BY <2>2, <3>1 DEF Durable
  <2> QED
    BY <2>1, <2>2 DEF HeadFacts
<1> QED
  BY <1>1, <1>2

\* A line is added.
LEMMA LogGrows ==
  ASSUME TypeOK, AckFacts, HeadFacts, NEW x \in Line,
         log' = Append(log, x), synced' = synced, linked' = linked,
         acked' = acked, signed' = signed
  PROVE  AckFacts' /\ HeadFacts'
<1>1. log \in Seq(Line) /\ Len(log) \in Nat /\ synced \in 0..Len(log)
      /\ \A i \in 1..Len(log) : Append(log, x)[i] = log[i]
  BY DEF TypeOK
<1>2. AckFacts'
  <2>1. SUFFICES ASSUME NEW r \in acked PROVE AckOK(r)'
    BY DEF AckFacts
  <2>2. AckOK(r) /\ r \in Plan
    BY DEF AckFacts, TypeOK
  <2>3. log'[r.index] = r.line
    BY <1>1, <2>2 DEF AckOK
  <2>4. OnBasis(r)'
    <3>1. SUFFICES ASSUME r.fresh, r.basis # None PROVE IsPrefix(r.basis, log')
      BY <2>2 DEF AckOK, OnBasis
    <3>2. r.basis \in Seq(Line) /\ IsPrefix(r.basis, log)
      BY <2>2, <3>1 DEF AckOK, OnBasis, Plan
    <3> QED
      BY <1>1, <3>2, PrefixGrows
  <2> QED
    BY <2>2, <2>3, <2>4 DEF AckOK
<1>3. HeadFacts'
  <2>1. head' = head /\ surviving' = surviving /\ heads' = heads /\ stranded' = stranded
    BY DEF signed
  <2>2. ASSUME NEW h \in heads, IsPrefix(h, log) PROVE IsPrefix(h, log')
    BY <1>1, <2>2, PrefixGrows DEF TypeOK
  <2> QED
    BY <2>1, <2>2 DEF HeadFacts, Durable
<1> QED
  BY <1>2, <1>3

\* The log is cut to a length no shorter than what is flushed, and flushed; the
\* head file is one of the two there were.
LEMMA LogCut ==
  ASSUME TypeOK, AckFacts, HeadFacts, EventsOnce(log), NEW k \in synced..Len(log),
         log' = SubSeq(log, 1, k), synced' = k, linked => linked',
         acked' = acked, heads' = heads, stranded' = stranded,
         head' \in surviving \union {head}, surviving' \subseteq surviving \union {head}
  PROVE  AckFacts' /\ HeadFacts' /\ EventsOnce(log')
<1>1. log \in Seq(Line) /\ synced \in 0..Len(log) /\ k \in 0..Len(log) /\ k \in Nat /\ synced <= k
  BY DEF TypeOK
<1>2. SubSeq(log, 1, k) \in Seq(Line) /\ Len(SubSeq(log, 1, k)) = k
      /\ \A i \in 1..k : SubSeq(log, 1, k)[i] = log[i]
  BY <1>1, InitialPart
<1>3. AckFacts'
  <2>1. SUFFICES ASSUME NEW r \in acked PROVE AckOK(r)'
    BY DEF AckFacts
  <2>2. AckOK(r) /\ r \in Plan /\ r.index \in Nat /\ r.index \in 1..synced
    BY DEF AckFacts, AckOK, TypeOK, Plan
  <2>3. r.index \in 1..k /\ log'[r.index] = r.line
    BY <1>1, <1>2, <2>2 DEF AckOK
  <2>4. OnBasis(r)'
    <3>1. SUFFICES ASSUME r.fresh, r.basis # None PROVE IsPrefix(r.basis, log')
      BY <2>2 DEF AckOK, OnBasis
    <3>2. r.basis \in Seq(Line) /\ IsPrefix(r.basis, log) /\ Len(r.basis) = r.index - 1
      BY <2>2, <3>1 DEF AckOK, OnBasis, Plan
    <3>3. Len(r.basis) <= k
      BY <2>3, <3>2, <1>1
    <3> QED
      BY <1>1, <3>2, <3>3, PrefixCut
  <2> QED
    BY <2>2, <2>3, <2>4 DEF AckOK
<1>4. HeadFacts'
  <2>1. ASSUME NEW h \in heads, IsPrefix(h, log), Durable(h)
        PROVE  IsPrefix(h, log') /\ Durable(h)'
    <3>1. h \in Seq(Line) /\ Len(h) \in Nat /\ Len(h) <= synced
      BY <2>1 DEF TypeOK, Durable
    <3>2. Len(h) <= k
      BY <1>1, <3>1
    <3>3. IsPrefix(h, SubSeq(log, 1, k))
      BY <1>1, <2>1, <3>1, <3>2, PrefixCut
    <3> QED
      BY <2>1, <3>2, <3>3 DEF Durable
  <2> QED
    BY <2>1 DEF HeadFacts
<1>5. EventsOnce(log')
  BY <1>1, EventsCut
<1> QED
  BY <1>3, <1>4, <1>5

\* The log is lost as a whole, before its directory entry was flushed.
LEMMA LogLost ==
  ASSUME TypeOK, AckFacts, HeadFacts, ~linked,
         log' = <<>>, synced' = 0, linked' = FALSE,
         acked' = acked, heads' = heads, stranded' = stranded,
         head' \in surviving \union {head}, surviving' \subseteq surviving \union {head}
  PROVE  AckFacts' /\ HeadFacts' /\ EventsOnce(log')
<1>1. AckFacts'
  BY DEF AckFacts, AckOK
<1>2. HeadFacts'
  <2>1. ASSUME NEW h \in heads, Durable(h)
        PROVE  IsPrefix(h, log') /\ Durable(h)'
    <3>1. h = <<>>
      BY <2>1 DEF Durable
    <3>2. <<>> \in Seq(Line)
      OBVIOUS
    <3>3. IsPrefix(<<>>, <<>>)
      BY <3>2, PrefixOfItself
    <3> QED
      BY <3>1, <3>3 DEF Durable
  <2> QED
    BY <2>1 DEF HeadFacts
<1>3. EventsOnce(log')
  BY DEF EventsOnce
<1> QED
  BY <1>1, <1>2, <1>3

-----------------------------------------------------------------------------
(* Control: who holds the lock, and what is known to the holder            *)

LEMMA GotoFacts ==
  ASSUME TypeOK, NEW p \in Procs, NEW point \in Points, Goto(p, point)
  PROVE  /\ pc' \in [Procs -> Points] /\ pc'[p] = point
         /\ \A q \in Procs : q # p => pc'[q] = pc[q]
         /\ plan' = plan /\ view' = view
BY DEF TypeOK, Goto

LEMMA LeaveFacts ==
  ASSUME TypeOK, NEW p \in Procs, Leave(p)
  PROVE  /\ pc' \in [Procs -> Points] /\ pc'[p] = "idle"
         /\ \A q \in Procs : q # p => pc'[q] = pc[q] /\ view'[q] = view[q]
         /\ plan' \in [Procs -> Plan \union {None}] /\ view' \in [Procs -> Seq(Line)]
<1>1. <<>> \in Seq(Line) /\ "idle" \in Points
  BY DEF Points
<1> QED
  BY <1>1 DEF TypeOK, Leave

\* A writer in its append is alone with the files.
LEMMA WriterAlone ==
  ASSUME TypeOK, Holders, NEW w \in Writers, pc[w] # "idle"
  PROVE  /\ w \in Procs /\ WriterOK(w)
         /\ \A p \in Procs : p # w => pc[p] = "idle"
         /\ plan[w] \in Plan /\ view[w] = log /\ OnBasis(plan[w])
BY DEF Holders, WriterOK, Procs

\* What only the acting writer can disturb.
LEMMA WriterStep ==
  ASSUME NEW w \in Writers, \A p \in Procs : p # w => pc'[p] = "idle", WriterOK(w)'
  PROVE  Holders'
<1>1. ASSUME NEW v \in Writers PROVE WriterOK(v)'
  BY <1>1 DEF WriterOK, Procs
<1>2. ASSUME NEW s \in Signers PROVE SignerOK(s)'
  BY <1>2, LedgerAssumption DEF SignerOK, Procs
<1> QED
  BY <1>1, <1>2 DEF Holders

LEMMA NobodyHolds ==
  ASSUME \A p \in Procs : pc'[p] = "idle"
  PROVE  Holders'
BY DEF Holders, WriterOK, SignerOK, Procs

\* The acting writer leaves: nobody holds the lock.
LEMMA WriterLeaves ==
  ASSUME TypeOK, Holders, NEW w \in Writers, pc[w] # "idle", Leave(w)
  PROVE  Holders'
BY WriterAlone, LeaveFacts, NobodyHolds

\* Signers share the lock among themselves.
LEMMA SignerStep ==
  ASSUME Holders, NEW s \in Signers, \A w \in Writers : pc[w] = "idle", log' = log,
         \A p \in Procs : p # s => pc'[p] = pc[p] /\ view'[p] = view[p],
         SignerOK(s)'
  PROVE  Holders'
<1>1. \A w \in Writers : w \in Procs /\ w # s /\ pc'[w] = "idle"
  BY LedgerAssumption DEF Procs
<1>2. ASSUME NEW w \in Writers PROVE WriterOK(w)'
  BY <1>1 DEF WriterOK
<1>3. ASSUME NEW t \in Signers, t # s PROVE SignerOK(t)'
  BY <1>1, <1>3 DEF SignerOK, Holders, Procs
<1> QED
  BY <1>2, <1>3 DEF Holders

-----------------------------------------------------------------------------
(* The steps of an append                                                  *)

LEMMA InitIInv == Init => IInv
<1> SUFFICES ASSUME Init PROVE IInv
  OBVIOUS
<1>1. <<>> \in Seq(Line) /\ "idle" \in Points
  BY DEF Points
<1>2. TypeOK
  <2>1. log \in Seq(Line) /\ view \in [Procs -> Seq(Line)] /\ synced \in 0..Len(log)
    BY <1>1 DEF Init
  <2>2. pc \in [Procs -> Points] /\ plan \in [Procs -> Plan \union {None}]
    BY <1>1 DEF Init
  <2> QED
    BY <2>1, <2>2 DEF Init, TypeOK
<1>3. Holders
  BY DEF Init, Holders, WriterOK, SignerOK, Procs
<1> QED
  BY <1>2, <1>3 DEF Init, IInv, AckFacts, HeadFacts, EventsOnce

\* Begin leaves the files alone, and its checks are what the writer knows.
LEMMA BeginStep ==
  ASSUME IInv, stamp' \in Nat, NEW w \in Writers, NEW line \in Line, NEW index \in Nat,
         NEW fresh \in BOOLEAN, NEW basis \in Seq(Line) \union {None},
         Begin(w, line, index, fresh, basis),
         fresh => index = Len(log) + 1 /\ Recorded(eventOf[line.record]) = {},
         ~fresh => index \in 1..Len(log) /\ log[index] = line
  PROVE  IInv'
<1> DEFINE r == [line |-> line, index |-> index, fresh |-> fresh, basis |-> basis]
           point == IF tail = None THEN AfterRepair(fresh) ELSE "copy"
<1>1. w \in Procs /\ r \in Plan /\ point \in Points
  BY DEF Procs, Plan, Points, AfterRepair
<1>2. plan' = [plan EXCEPT ![w] = r] /\ view' = [view EXCEPT ![w] = log]
      /\ pc' = [pc EXCEPT ![w] = point]
  BY DEF Begin
<1>3. /\ log' = log /\ tail' = tail /\ quarantine' = quarantine /\ synced' = synced
      /\ syncedTail' = syncedTail /\ linked' = linked /\ signed' = signed
      /\ losses' = losses /\ acked' = acked
  BY DEF Begin, content, stable
<1>4. TypeOK /\ Holders /\ AckFacts /\ HeadFacts /\ EventsOnce(log) /\ log \in Seq(Line)
      /\ synced \in 0..Len(log)
  BY DEF IInv, TypeOK
<1> HIDE DEF r, point
<1>5. /\ pc'[w] = point /\ plan'[w] = r /\ view'[w] = log
      /\ \A p \in Procs : p # w => pc'[p] = pc[p]
      /\ pc' \in [Procs -> Points] /\ plan' \in [Procs -> Plan \union {None}]
      /\ view' \in [Procs -> Seq(Line)]
  BY <1>1, <1>2, <1>4 DEF TypeOK
<1>6. TypeOK'
  BY <1>3, <1>4, <1>5 DEF TypeOK, signed
<1>7. WriterOK(w)'
  <2>1. \A p \in Procs : p # w => pc'[p] = "idle"
    BY <1>5 DEF Begin, FreeToWrite
  <2>2. /\ point \in {"copy", "write", "flush"}
        /\ point = "copy" => tail # None
        /\ point = "write" => tail = None /\ fresh
        /\ point = "flush" => ~fresh
    BY DEF point, AfterRepair
  <2>3. r.line = line /\ r.index = index /\ r.fresh = fresh /\ r.basis = basis
    BY DEF r
  <2>4. Recorded(eventOf[line.record])' = Recorded(eventOf[line.record])
    BY <1>3 DEF Recorded
  <2>5. OnBasis(r)'
    <3>1. SUFFICES ASSUME fresh, basis # None
                   PROVE  IsPrefix(basis, log) /\ Len(basis) = index - 1
      BY <1>3, <2>3 DEF OnBasis
    <3> QED
      BY <1>4, <3>1 DEF Begin, Meets
  <2>6. ~fresh => InLog(r)'
    BY <1>3, <2>3 DEF InLog
  <2> QED
    BY <1>1, <1>3, <1>5, <2>1, <2>2, <2>3, <2>4, <2>5, <2>6 DEF WriterOK, Written, Flushed
<1>8. Holders'
  BY <1>5, <1>7, WriterStep DEF Begin, FreeToWrite
<1>9. AckFacts' /\ HeadFacts'
  BY <1>3, <1>4, LogKept
<1> QED
  BY <1>3, <1>4, <1>6, <1>8, <1>9 DEF IInv

LEMMA BeginAppendStep ==
  ASSUME IInv, NEW w \in Writers, NEW r \in Records, NEW basis \in heads \union {None},
         BeginAppend(w, r, basis)
  PROVE  IInv'
<1> DEFINE line == [record |-> r, stamp |-> stamp + 1]
<1>1. stamp \in Nat /\ log \in Seq(Line) /\ heads \subseteq Seq(Line)
  BY DEF IInv, TypeOK
<1>2. line \in Line /\ line.record = r
  BY <1>1 DEF Line
<1>3. Begin(w, line, Len(log) + 1, TRUE, basis) /\ stamp' = stamp + 1
      /\ Recorded(eventOf[r]) = {}
  BY DEF BeginAppend
<1> HIDE DEF line
<1>4. Len(log) + 1 \in Nat /\ basis \in Seq(Line) \union {None} /\ stamp' \in Nat
  BY <1>1, <1>3
<1>5. Recorded(eventOf[line.record]) = {}
  BY <1>2, <1>3
<1> HIDE DEF Begin
<1> QED
  BY <1>2, <1>3, <1>4, <1>5, BeginStep

LEMMA BeginRetryStep ==
  ASSUME IInv, NEW w \in Writers, NEW r \in Records, NEW basis \in heads \union {None},
         BeginRetry(w, r, basis)
  PROVE  IInv'
<1>1. PICK i \in Recorded(eventOf[r]) :
        Begin(w, log[i], i, FALSE, basis) /\ UNCHANGED stamp
  BY DEF BeginRetry
<1>2. stamp \in Nat /\ log \in Seq(Line) /\ heads \subseteq Seq(Line)
  BY DEF IInv, TypeOK
<1>3. i \in 1..Len(log) /\ i \in Nat /\ log[i] \in Line /\ basis \in Seq(Line) \union {None}
  BY <1>2 DEF Recorded
<1> QED
  BY <1>1, <1>2, <1>3, BeginStep

LEMMA CopyTailStep ==
  ASSUME IInv, NEW w \in Writers, CopyTail(w)
  PROVE  IInv'
<1>1. TypeOK /\ Holders /\ AckFacts /\ HeadFacts /\ EventsOnce(log)
  BY DEF IInv
<1>2. pc[w] = "copy" /\ Goto(w, "cut") /\ quarantine' = quarantine \union {tail.line}
      /\ log' = log /\ tail' = tail /\ stable' = stable /\ signed' = signed
      /\ stamp' = stamp /\ losses' = losses /\ acked' = acked
  BY DEF CopyTail
<1>3. w \in Procs /\ WriterOK(w) /\ (\A p \in Procs : p # w => pc[p] = "idle")
  BY <1>1, <1>2, WriterAlone
<1>4. pc' \in [Procs -> Points] /\ pc'[w] = "cut" /\ plan' = plan /\ view' = view
      /\ \A q \in Procs : q # w => pc'[q] = pc[q]
  BY <1>1, <1>2, <1>3, GotoFacts DEF Points
<1>5. tail.line \in Line
  BY <1>1, <1>2, <1>3 DEF WriterOK, TypeOK, Fragment
<1>6. TypeOK'
  BY <1>1, <1>2, <1>4, <1>5 DEF TypeOK, stable, signed
<1>7. WriterOK(w)'
  BY <1>2, <1>3, <1>4 DEF WriterOK, Written, Flushed, Recorded, InLog, OnBasis
<1>8. Holders'
  BY <1>3, <1>4, <1>7, WriterStep
<1>9. AckFacts' /\ HeadFacts'
  BY <1>1, <1>2, LogKept DEF stable, TypeOK
<1> QED
  BY <1>1, <1>2, <1>6, <1>8, <1>9 DEF IInv

LEMMA CutTailStep ==
  ASSUME IInv, NEW w \in Writers, CutTail(w)
  PROVE  IInv'
<1>1. TypeOK /\ Holders /\ AckFacts /\ HeadFacts /\ EventsOnce(log)
  BY DEF IInv
<1>2. pc[w] = "cut" /\ Goto(w, AfterRepair(plan[w].fresh)) /\ tail' = None /\ syncedTail' = None
      /\ synced' = Len(log) /\ log' = log /\ quarantine' = quarantine /\ linked' = linked
      /\ signed' = signed /\ stamp' = stamp /\ losses' = losses /\ acked' = acked
  BY DEF CutTail
<1>3. w \in Procs /\ WriterOK(w) /\ (\A p \in Procs : p # w => pc[p] = "idle")
      /\ plan[w] \in Plan
  BY <1>1, <1>2, WriterAlone
<1>4. plan[w].fresh \in BOOLEAN /\ AfterRepair(plan[w].fresh) \in Points
  BY <1>3 DEF Plan, Points, AfterRepair
<1>5. pc' \in [Procs -> Points] /\ pc'[w] = AfterRepair(plan[w].fresh) /\ plan' = plan
      /\ view' = view /\ \A q \in Procs : q # w => pc'[q] = pc[q]
  BY <1>1, <1>2, <1>3, <1>4, GotoFacts
<1>6. synced \in 0..Len(log) /\ synced' \in synced..Len(log) /\ synced' \in 0..Len(log)
  BY <1>1, <1>2 DEF TypeOK
<1>7. TypeOK'
  BY <1>1, <1>2, <1>5, <1>6 DEF TypeOK, signed
<1>8. WriterOK(w)'
  BY <1>2, <1>3, <1>4, <1>5
     DEF WriterOK, Written, Flushed, Recorded, InLog, OnBasis, AfterRepair
<1>9. Holders'
  BY <1>3, <1>5, <1>8, WriterStep
<1>10. AckFacts' /\ HeadFacts'
  BY <1>1, <1>2, <1>6, LogKept
<1> QED
  BY <1>1, <1>2, <1>7, <1>9, <1>10 DEF IInv

LEMMA CutUnflushedStep ==
  ASSUME IInv, NEW w \in Writers, CutUnflushed(w)
  PROVE  IInv'
<1>1. TypeOK /\ Holders /\ AckFacts /\ HeadFacts /\ EventsOnce(log)
  BY DEF IInv
<1>2. pc[w] = "cut" /\ Leave(w) /\ tail' = None /\ log' = log /\ quarantine' = quarantine
      /\ stable' = stable /\ signed' = signed /\ stamp' = stamp /\ losses' = losses
      /\ acked' = acked
  BY DEF CutUnflushed
<1>3. w \in Procs
  BY DEF Procs
<1>4. TypeOK'
  BY <1>1, <1>2, <1>3, LeaveFacts DEF TypeOK, stable, signed
<1>5. Holders'
  BY <1>1, <1>2, WriterLeaves
<1>6. AckFacts' /\ HeadFacts'
  BY <1>1, <1>2, LogKept DEF stable, TypeOK
<1> QED
  BY <1>1, <1>2, <1>4, <1>5, <1>6 DEF IInv

\* The line that is written is new in the log: what Begin found still holds.
LEMMA WriteLineStep ==
  ASSUME IInv, NEW w \in Writers, WriteLine(w)
  PROVE  IInv'
<1>1. TypeOK /\ Holders /\ AckFacts /\ HeadFacts /\ EventsOnce(log) /\ log \in Seq(Line)
      /\ synced \in 0..Len(log)
  BY DEF IInv, TypeOK
<1> DEFINE x == plan[w].line
<1>2. pc[w] = "write" /\ log' = Append(log, x) /\ view' = [view EXCEPT ![w] = Append(@, x)]
      /\ pc' = [pc EXCEPT ![w] = "flush"] /\ tail' = tail /\ quarantine' = quarantine
      /\ stable' = stable /\ signed' = signed /\ plan' = plan /\ stamp' = stamp
      /\ losses' = losses /\ acked' = acked
  BY DEF WriteLine
<1>3. w \in Procs /\ (\A p \in Procs : p # w => pc[p] = "idle")
      /\ plan[w] \in Plan /\ view[w] = log /\ OnBasis(plan[w])
  BY <1>1, <1>2, WriterAlone
<1>4. plan[w].fresh /\ plan[w].index = Len(log) + 1 /\ Recorded(eventOf[x.record]) = {}
      /\ tail = None
  BY <1>1, <1>2, WriterAlone DEF WriterOK, Written
<1>5. x \in Line
  BY <1>3 DEF Plan
<1> HIDE DEF x
<1>6. /\ log' \in Seq(Line) /\ Len(log') = Len(log) + 1 /\ Len(log) \in Nat
      /\ log'[Len(log) + 1] = x /\ \A i \in 1..Len(log) : log'[i] = log[i]
  BY <1>1, <1>2, <1>5
<1>7. pc' \in [Procs -> Points] /\ pc'[w] = "flush" /\ view'[w] = log'
      /\ \A q \in Procs : q # w => pc'[q] = pc[q]
  BY <1>1, <1>2, <1>3 DEF TypeOK, Points
<1>8. view' \in [Procs -> Seq(Line)]
  BY <1>1, <1>2, <1>3, <1>6 DEF TypeOK
<1>9. synced' = synced /\ syncedTail' = syncedTail /\ linked' = linked
  BY <1>2 DEF stable
<1>10. TypeOK'
  <2>1. synced' \in 0..Len(log')
    BY <1>1, <1>6, <1>9
  <2> QED
    BY <1>1, <1>2, <1>6, <1>7, <1>8, <1>9, <2>1 DEF TypeOK, signed
<1>11. WriterOK(w)'
  <2>1. InLog(plan[w])'
    <3>1. plan[w].index \in 1..Len(log') /\ log'[plan[w].index] = plan[w].line
      BY <1>4, <1>6 DEF x
    <3> QED
      BY <1>2, <3>1 DEF InLog
  <2>2. OnBasis(plan[w])'
    <3>1. SUFFICES ASSUME plan[w].basis # None
                   PROVE  IsPrefix(plan[w].basis, log') /\ Len(plan[w].basis) = plan[w].index - 1
      BY <1>2 DEF OnBasis
    <3>2. plan[w].basis \in Seq(Line) /\ IsPrefix(plan[w].basis, log)
          /\ Len(plan[w].basis) = plan[w].index - 1
      BY <1>3, <1>4, <3>1 DEF OnBasis, Plan
    <3>3. IsPrefix(plan[w].basis, Append(log, x))
      BY <1>1, <1>5, <3>2, PrefixGrows
    <3> QED
      BY <1>2, <3>2, <3>3
  <2>3. synced' < Len(log') /\ plan[w].index = Len(log')
    BY <1>1, <1>4, <1>6, <1>9
  <2> QED
    BY <1>2, <1>3, <1>7, <2>1, <2>2, <2>3 DEF WriterOK, Written, Flushed
<1>12. Holders'
  BY <1>3, <1>7, <1>11, WriterStep
<1>13. AckFacts' /\ HeadFacts'
  BY <1>1, <1>2, <1>5, <1>9, LogGrows
<1>14. EventsOnce(log')
  <2>1. \A i \in DOMAIN log :
          ~(eventOf[x.record] # None /\ eventOf[log[i].record] = eventOf[x.record])
    BY <1>4 DEF Recorded
  <2> QED
    BY <1>1, <1>2, <1>5, <2>1, EventsGrow
<1> QED
  BY <1>10, <1>12, <1>13, <1>14 DEF IInv

LEMMA TearStep ==
  ASSUME IInv, NEW w \in Writers, Tear(w)
  PROVE  IInv'
<1>1. TypeOK /\ Holders /\ AckFacts /\ HeadFacts /\ EventsOnce(log)
  BY DEF IInv
<1>2. PICK whole \in BOOLEAN : tail' = [line |-> plan[w].line, whole |-> whole]
  BY DEF Tear
<1>3. pc[w] = "write" /\ Leave(w) /\ log' = log /\ quarantine' = quarantine
      /\ stable' = stable /\ signed' = signed /\ stamp' = stamp /\ losses' = losses
      /\ acked' = acked
  BY DEF Tear
<1>4. w \in Procs /\ plan[w] \in Plan
  BY <1>1, <1>3, WriterAlone
<1>5. tail' \in Fragment
  BY <1>2, <1>4 DEF Fragment, Plan
<1>6. TypeOK'
  BY <1>1, <1>3, <1>4, <1>5, LeaveFacts DEF TypeOK, stable, signed
<1>7. Holders'
  BY <1>1, <1>3, WriterLeaves
<1>8. AckFacts' /\ HeadFacts'
  BY <1>1, <1>3, LogKept DEF stable, TypeOK
<1> QED
  BY <1>1, <1>3, <1>6, <1>7, <1>8 DEF IInv

LEMMA FlushStep ==
  ASSUME IInv, NEW w \in Writers, Flush(w)
  PROVE  IInv'
<1>1. TypeOK /\ Holders /\ AckFacts /\ HeadFacts /\ EventsOnce(log)
  BY DEF IInv
<1>2. pc[w] = "flush" /\ Goto(w, "link") /\ synced' = Len(log) /\ syncedTail' = tail
      /\ log' = log /\ tail' = tail /\ quarantine' = quarantine /\ linked' = linked
      /\ signed' = signed /\ stamp' = stamp /\ losses' = losses /\ acked' = acked
  BY DEF Flush, content
<1>3. w \in Procs /\ WriterOK(w) /\ (\A p \in Procs : p # w => pc[p] = "idle")
  BY <1>1, <1>2, WriterAlone
<1>4. pc' \in [Procs -> Points] /\ pc'[w] = "link" /\ plan' = plan /\ view' = view
      /\ \A q \in Procs : q # w => pc'[q] = pc[q]
  BY <1>1, <1>2, <1>3, GotoFacts DEF Points
<1>5. synced \in 0..Len(log) /\ synced' \in synced..Len(log) /\ synced' \in 0..Len(log)
  BY <1>1, <1>2 DEF TypeOK
<1>6. TypeOK'
  BY <1>1, <1>2, <1>4, <1>5 DEF TypeOK, signed
<1>7. WriterOK(w)'
  BY <1>2, <1>3, <1>4 DEF WriterOK, Written, Flushed, InLog, OnBasis
<1>8. Holders'
  BY <1>3, <1>4, <1>7, WriterStep
<1>9. AckFacts' /\ HeadFacts'
  BY <1>1, <1>2, <1>5, LogKept
<1> QED
  BY <1>1, <1>2, <1>6, <1>8, <1>9 DEF IInv

\* The line that is cut back is the last one and was not flushed, so nothing
\* that was promised goes with it.
LEMMA CutBackStep ==
  ASSUME IInv, NEW w \in Writers, CutBack(w)
  PROVE  IInv'
<1>1. TypeOK /\ Holders /\ AckFacts /\ HeadFacts /\ EventsOnce(log) /\ log \in Seq(Line)
      /\ synced \in 0..Len(log)
  BY DEF IInv, TypeOK
<1> DEFINE k == plan[w].index - 1
<1>2. pc[w] = "flush" /\ plan[w].fresh /\ log' = SubSeq(log, 1, k) /\ synced' = k
      /\ syncedTail' = tail /\ Leave(w) /\ tail' = tail /\ quarantine' = quarantine
      /\ linked' = linked /\ signed' = signed /\ stamp' = stamp /\ losses' = losses
      /\ acked' = acked
  BY DEF CutBack
<1>3. w \in Procs /\ plan[w].index = Len(log) /\ synced < Len(log)
  BY <1>1, <1>2, WriterAlone DEF WriterOK
<1>4. k \in synced..Len(log) /\ k \in 0..Len(log)
  BY <1>1, <1>3
<1> HIDE DEF k
<1>5. log' \in Seq(Line) /\ Len(log') = k
  BY <1>1, <1>2, <1>4, InitialPart
<1>6. head' = head /\ surviving' = surviving /\ heads' = heads /\ stranded' = stranded
  BY <1>2 DEF signed
<1>7. TypeOK'
  <2>1. synced' \in 0..Len(log')
    BY <1>2, <1>4, <1>5
  <2> QED
    BY <1>1, <1>2, <1>3, <1>5, <1>6, <2>1, LeaveFacts DEF TypeOK
<1>8. Holders'
  BY <1>1, <1>2, WriterLeaves
<1>9. AckFacts' /\ HeadFacts' /\ EventsOnce(log')
  BY <1>1, <1>2, <1>4, <1>6, LogCut
<1> QED
  BY <1>7, <1>8, <1>9 DEF IInv

LEMMA LinkStep ==
  ASSUME IInv, NEW w \in Writers, Link(w)
  PROVE  IInv'
<1>1. TypeOK /\ Holders /\ AckFacts /\ HeadFacts /\ EventsOnce(log)
  BY DEF IInv
<1>2. pc[w] = "link" /\ linked' = TRUE /\ log' = log /\ tail' = tail
      /\ quarantine' = quarantine /\ synced' = synced /\ syncedTail' = syncedTail
      /\ signed' = signed /\ stamp' = stamp /\ losses' = losses /\ acked' = acked
  BY DEF Link, content
<1>3. PICK point \in {"sign", "report"} : Goto(w, point)
  BY DEF Link
<1>4. w \in Procs /\ WriterOK(w) /\ (\A p \in Procs : p # w => pc[p] = "idle")
  BY <1>1, <1>2, WriterAlone
<1>5. pc' \in [Procs -> Points] /\ pc'[w] = point /\ plan' = plan /\ view' = view
      /\ \A q \in Procs : q # w => pc'[q] = pc[q]
  BY <1>1, <1>3, <1>4, GotoFacts DEF Points
<1>6. TypeOK'
  BY <1>1, <1>2, <1>5 DEF TypeOK, signed
<1>7. WriterOK(w)'
  BY <1>2, <1>3, <1>4, <1>5 DEF WriterOK, Written, Flushed, InLog, OnBasis
<1>8. Holders'
  BY <1>4, <1>5, <1>7, WriterStep
<1>9. AckFacts' /\ HeadFacts'
  BY <1>1, <1>2, LogKept DEF TypeOK
<1> QED
  BY <1>1, <1>2, <1>6, <1>8, <1>9 DEF IInv

\* What a report says, the writer knows.
LEMMA ReportStep ==
  ASSUME IInv, NEW w \in Writers, Report(w)
  PROVE  IInv'
<1>1. TypeOK /\ Holders /\ AckFacts /\ HeadFacts /\ EventsOnce(log)
  BY DEF IInv
<1>2. pc[w] = "report" /\ Leave(w) /\ acked' = acked \union {plan[w]} /\ log' = log
      /\ tail' = tail /\ quarantine' = quarantine /\ stable' = stable /\ signed' = signed
      /\ stamp' = stamp /\ losses' = losses
  BY DEF Report, content
<1>3. w \in Procs /\ WriterOK(w) /\ plan[w] \in Plan
  BY <1>1, <1>2, WriterAlone
<1>4. TypeOK'
  BY <1>1, <1>2, <1>3, LeaveFacts DEF TypeOK, stable, signed
<1>5. Holders'
  BY <1>1, <1>2, WriterLeaves
<1>6. AckOK(plan[w])
  BY <1>2, <1>3 DEF WriterOK, Written, Flushed, InLog, AckOK
<1>7. AckFacts'
  BY <1>1, <1>2, <1>6 DEF AckFacts, AckOK, OnBasis, stable
<1>8. HeadFacts'
  BY <1>1, <1>2 DEF HeadFacts, Durable, stable, signed
<1> QED
  BY <1>1, <1>2, <1>4, <1>5, <1>7, <1>8 DEF IInv

-----------------------------------------------------------------------------
(* The steps of a signer, and of the environment                           *)

\* Who is about to sign has the whole log in memory, and a writer has flushed it.
LEMMA ToSign ==
  ASSUME TypeOK, Holders, NEW p \in Procs, pc[p] \in {"sign", "publish"}
  PROVE  view[p] = log /\ (p \in Writers => Durable(log))
<1>1. CASE p \in Writers
  BY <1>1 DEF Holders, WriterOK, Flushed, Durable, TypeOK
<1>2. CASE p \in Signers
  BY <1>2, LedgerAssumption DEF Holders, SignerOK
<1> QED
  BY <1>1, <1>2 DEF Procs

LEMMA BeginSigningStep ==
  ASSUME IInv, NEW s \in Signers, BeginSigning(s)
  PROVE  IInv'
<1>1. TypeOK /\ Holders /\ AckFacts /\ HeadFacts /\ EventsOnce(log) /\ log \in Seq(Line)
      /\ s \in Procs
  BY DEF IInv, TypeOK, Procs
<1>2. view' = [view EXCEPT ![s] = log] /\ pc' = [pc EXCEPT ![s] = "sign"]
      /\ log' = log /\ tail' = tail /\ quarantine' = quarantine /\ stable' = stable
      /\ signed' = signed /\ plan' = plan /\ stamp' = stamp /\ losses' = losses
      /\ acked' = acked
  BY DEF BeginSigning, content
<1>3. \A w \in Writers : pc[w] = "idle"
  BY DEF BeginSigning, FreeToSign
<1>4. pc' \in [Procs -> Points] /\ view' \in [Procs -> Seq(Line)] /\ pc'[s] = "sign"
      /\ view'[s] = log /\ \A p \in Procs : p # s => pc'[p] = pc[p] /\ view'[p] = view[p]
  BY <1>1, <1>2 DEF TypeOK, Points
<1>5. TypeOK'
  BY <1>1, <1>2, <1>4 DEF TypeOK, stable, signed
<1>6. SignerOK(s)'
  BY <1>1, <1>2, <1>3, <1>4, LedgerAssumption DEF SignerOK, Procs
<1>7. Holders'
  BY <1>1, <1>2, <1>3, <1>4, <1>6, SignerStep
<1>8. AckFacts' /\ HeadFacts'
  BY <1>1, <1>2, LogKept DEF stable, TypeOK
<1> QED
  BY <1>1, <1>2, <1>5, <1>7, <1>8 DEF IInv

\* A process whose step changes nothing but its own place, and a head file it may
\* have written: what the lock gave it and the others is not disturbed.
LEMMA HolderMoves ==
  ASSUME TypeOK, Holders, NEW p \in Procs, NEW point \in Points, Goto(p, point),
         log' = log, tail' = tail, quarantine' = quarantine, stable' = stable,
         \/ p \in Writers /\ pc[p] \in {"sign", "publish"} /\ point \in {"publish", "report"}
         \/ p \in Signers /\ pc[p] = "sign" /\ point = "publish"
  PROVE  Holders'
<1>1. pc'[p] = point /\ plan' = plan /\ view' = view
      /\ \A q \in Procs : q # p => pc'[q] = pc[q]
  BY GotoFacts
<1>2. CASE p \in Writers /\ pc[p] \in {"sign", "publish"} /\ point \in {"publish", "report"}
  <2>1. WriterOK(p) /\ \A q \in Procs : q # p => pc[q] = "idle"
    BY <1>2, WriterAlone
  <2>2. WriterOK(p)'
    BY <1>1, <1>2, <2>1 DEF WriterOK, Written, Flushed, InLog, OnBasis, stable
  <2> QED
    BY <1>1, <1>2, <2>1, <2>2, WriterStep
<1>3. CASE p \in Signers /\ pc[p] = "sign" /\ point = "publish"
  <2>1. SignerOK(p)
    BY <1>3 DEF Holders
  <2>2. \A w \in Writers : pc[w] = "idle"
    BY <1>3, <2>1 DEF SignerOK
  <2>3. SignerOK(p)'
    BY <1>1, <1>3, <2>1, <2>2, LedgerAssumption DEF SignerOK, Procs
  <2> QED
    BY <1>1, <1>3, <2>2, <2>3, SignerStep
<1> QED
  BY <1>2, <1>3

LEMMA WriteHeadStep ==
  ASSUME IInv, NEW p \in Procs, WriteHead(p)
  PROVE  IInv'
<1>1. TypeOK /\ Holders /\ AckFacts /\ HeadFacts /\ EventsOnce(log) /\ log \in Seq(Line)
      /\ heads \subseteq Seq(Line) /\ stranded \in BOOLEAN
  BY DEF IInv, TypeOK
<1>2. pc[p] = "sign" /\ Goto(p, "publish") /\ head' = view[p] /\ heads' = heads \union {view[p]}
      /\ stranded' = (stranded \/ (p \in Signers /\ ~Durable(view[p])))
      /\ surviving' = surviving \union {view[p]} /\ log' = log /\ tail' = tail
      /\ quarantine' = quarantine /\ stable' = stable /\ stamp' = stamp /\ losses' = losses /\ acked' = acked
  BY DEF WriteHead, content
<1>3. view[p] = log /\ (p \in Writers => Durable(log))
  BY <1>1, <1>2, ToSign
<1>4. pc' \in [Procs -> Points] /\ plan' = plan /\ view' = view
  BY <1>1, <1>2, GotoFacts DEF Points
<1>5. TypeOK'
  <2>1. head' \in Seq(Line) /\ heads' \subseteq Seq(Line) /\ stranded' \in BOOLEAN
    BY <1>1, <1>2, <1>3
  <2> QED
    BY <1>1, <1>2, <1>4, <2>1 DEF TypeOK, stable
<1>6. Holders'
  BY <1>1, <1>2, HolderMoves DEF Procs, Points
<1>7. AckFacts'
  BY <1>1, <1>2 DEF AckFacts, AckOK, OnBasis, stable
<1>8. HeadFacts'
  <2>1. head' \in heads' \union {None} /\ surviving' \subseteq heads' \union {None}
    BY <1>1, <1>2 DEF HeadFacts
  <2>2. ASSUME ~stranded', NEW h \in heads' PROVE IsPrefix(h, log') /\ Durable(h)'
    <3>1. ~stranded /\ Durable(log)
      BY <1>2, <1>3, <2>2 DEF Procs
    <3>2. IsPrefix(h, log) /\ Durable(h)
      BY <1>1, <1>2, <1>3, <2>2, <3>1, PrefixOfItself DEF HeadFacts
    <3> QED
      BY <1>2, <3>2 DEF Durable, stable
  <2> QED
    BY <2>1, <2>2 DEF HeadFacts
<1> QED
  BY <1>1, <1>2, <1>5, <1>6, <1>7, <1>8 DEF IInv

LEMMA FlushHeadStep ==
  ASSUME IInv, NEW p \in Procs, FlushHead(p)
  PROVE  IInv'
<1>1. TypeOK /\ Holders /\ AckFacts /\ HeadFacts /\ EventsOnce(log)
  BY DEF IInv
<1>2. pc[p] = "publish" /\ surviving' = {head} /\ log' = log /\ tail' = tail
      /\ quarantine' = quarantine /\ stable' = stable /\ head' = head /\ heads' = heads
      /\ stranded' = stranded /\ stamp' = stamp /\ losses' = losses /\ acked' = acked
  BY DEF FlushHead, content
<1>3. IF p \in Writers THEN Goto(p, "report") ELSE Leave(p)
  BY DEF FlushHead
<1>4. TypeOK'
  BY <1>1, <1>2, <1>3, GotoFacts, LeaveFacts DEF TypeOK, stable, Points
<1>5. Holders'
  <2>1. CASE p \in Writers
    BY <1>1, <1>2, <1>3, <2>1, HolderMoves DEF Points
  <2>2. CASE p \notin Writers
    <3>1. p \in Signers /\ SignerOK(p) /\ \A w \in Writers : pc[w] = "idle"
      BY <1>1, <1>2, <2>2 DEF Procs, Holders, SignerOK
    <3>2. pc'[p] = "idle" /\ \A q \in Procs : q # p => pc'[q] = pc[q] /\ view'[q] = view[q]
      BY <1>1, <1>3, <2>2, LeaveFacts
    <3> QED
      BY <1>1, <1>2, <3>1, <3>2, SignerStep DEF SignerOK
  <2> QED
    BY <2>1, <2>2
<1>6. AckFacts'
  BY <1>1, <1>2 DEF AckFacts, AckOK, OnBasis, stable
<1>7. HeadFacts'
  BY <1>1, <1>2 DEF HeadFacts, Durable, stable
<1> QED
  BY <1>1, <1>2, <1>4, <1>5, <1>6, <1>7 DEF IInv

LEMMA KillStep ==
  ASSUME IInv, NEW p \in Procs, Kill(p)
  PROVE  IInv'
<1>1. TypeOK /\ Holders /\ AckFacts /\ HeadFacts /\ EventsOnce(log)
  BY DEF IInv
<1>2. pc[p] # "idle" /\ Leave(p) /\ log' = log /\ tail' = tail /\ quarantine' = quarantine
      /\ stable' = stable /\ signed' = signed /\ stamp' = stamp /\ losses' = losses
      /\ acked' = acked
  BY DEF Kill, content
<1>3. TypeOK'
  BY <1>1, <1>2, LeaveFacts DEF TypeOK, stable, signed
<1>4. Holders'
  <2>1. CASE p \in Writers
    BY <1>1, <1>2, <2>1, WriterLeaves
  <2>2. CASE p \in Signers
    <3>1. \A w \in Writers : pc[w] = "idle"
      BY <1>1, <1>2, <2>2 DEF Holders, SignerOK
    <3>2. pc'[p] = "idle" /\ \A q \in Procs : q # p => pc'[q] = pc[q] /\ view'[q] = view[q]
      BY <1>1, <1>2, LeaveFacts
    <3> QED
      BY <1>1, <1>2, <2>2, <3>1, <3>2, SignerStep DEF SignerOK
  <2> QED
    BY <2>1, <2>2 DEF Procs
<1>5. AckFacts' /\ HeadFacts'
  BY <1>1, <1>2, LogKept DEF stable, TypeOK
<1> QED
  BY <1>1, <1>2, <1>3, <1>4, <1>5 DEF IInv

\* What a loss of power leaves after the last line is a tail.
LEMMA RemainsFacts ==
  ASSUME TypeOK, NEW k \in synced..Len(log)
  PROVE  Remains(k) \subseteq Fragment \union {None}
<1>1. log \in Seq(Line) /\ synced \in 0..Len(log) /\ tail \in Fragment \union {None}
      /\ syncedTail \in Fragment \union {None}
  BY DEF TypeOK
<1>2. ASSUME NEW line \in Line, NEW whole \in BOOLEAN
      PROVE  Parts(line, whole) \subseteq Fragment \union {None}
  BY DEF Parts, Fragment
<1>3. CASE k < Len(log)
  <2>1. log[k + 1] \in Line
    BY <1>1, <1>3
  <2> QED
    BY <1>2, <1>3, <2>1 DEF Remains
<1>4. CASE ~(k < Len(log))
  <2>1. tail # None => tail.line \in Line /\ tail.whole \in BOOLEAN
    BY <1>1 DEF Fragment
  <2>2. tail # None => Parts(tail.line, tail.whole) \subseteq Fragment \union {None}
    BY <1>2, <2>1
  <2> QED
    BY <1>1, <1>4, <2>2 DEF Remains
<1> QED
  BY <1>3, <1>4

LEMMA LosePowerStep ==
  ASSUME IInv, LosePower
  PROVE  IInv'
<1>1. TypeOK /\ Holders /\ AckFacts /\ HeadFacts /\ EventsOnce(log) /\ log \in Seq(Line)
      /\ synced \in 0..Len(log) /\ losses \in Nat
  BY DEF IInv, TypeOK
<1>2. /\ losses' = losses + 1 /\ quarantine' = quarantine /\ heads' = heads
      /\ stranded' = stranded /\ stamp' = stamp /\ acked' = acked
      /\ pc' = [p \in Procs |-> "idle"] /\ plan' = [p \in Procs |-> None]
      /\ view' = [p \in Procs |-> <<>>]
      /\ head' \in surviving \union {head} /\ surviving' \subseteq surviving \union {head}
  BY DEF LosePower
<1>3. /\ log' \in Seq(Line) /\ synced' \in 0..Len(log') /\ linked' \in BOOLEAN
      /\ tail' \in Fragment \union {None} /\ syncedTail' \in Fragment \union {None}
      /\ AckFacts' /\ HeadFacts' /\ EventsOnce(log')
  <2>1. CASE \E k \in synced..Len(log) :
               /\ log' = SubSeq(log, 1, k) /\ synced' = k
               /\ tail' \in Remains(k) /\ syncedTail' = tail'
               /\ linked' = (linked \/ k > 0)
    <3>1. PICK k \in synced..Len(log) :
               /\ log' = SubSeq(log, 1, k) /\ synced' = k
               /\ tail' \in Remains(k) /\ syncedTail' = tail'
               /\ linked' = (linked \/ k > 0)
      BY <2>1
    <3>2. k \in 0..Len(log) /\ linked' \in BOOLEAN /\ (linked => linked')
      <4>1. k \in 0..Len(log)
        BY <1>1, <3>1
      <4>2. linked' \in BOOLEAN /\ (linked => linked')
        BY <3>1
      <4> QED
        BY <4>1, <4>2
    <3>3. log' \in Seq(Line) /\ Len(log') = k
      BY <1>1, <3>1, <3>2, InitialPart
    <3>4. synced' \in 0..Len(log')
      BY <3>1, <3>2, <3>3
    <3>5. AckFacts' /\ HeadFacts' /\ EventsOnce(log')
      BY <1>1, <1>2, <3>1, <3>2, LogCut
    <3> QED
      BY <1>1, <3>1, <3>2, <3>3, <3>4, <3>5, RemainsFacts
  <2>2. CASE /\ ~linked
             /\ log' = <<>> /\ tail' = None
             /\ synced' = 0 /\ syncedTail' = None /\ linked' = FALSE
    <3>1. AckFacts' /\ HeadFacts' /\ EventsOnce(log')
      BY <1>1, <1>2, <2>2, LogLost
    <3>2. <<>> \in Seq(Line) /\ 0 \in 0..Len(<<>>)
      OBVIOUS
    <3> QED
      BY <2>2, <3>1, <3>2
  <2> QED
    BY <2>1, <2>2 DEF LosePower
<1>4. TypeOK'
  <2>1. pc' \in [Procs -> Points] /\ plan' \in [Procs -> Plan \union {None}]
        /\ view' \in [Procs -> Seq(Line)]
    BY <1>2 DEF Points
  <2> QED
    BY <1>1, <1>2, <1>3, <2>1 DEF TypeOK
<1>5. Holders'
  BY <1>2, NobodyHolds
<1> QED
  BY <1>3, <1>4, <1>5 DEF IInv

LEMMA NextStep == IInv /\ [Next]_vars => IInv'
<1> SUFFICES ASSUME IInv, [Next]_vars PROVE IInv'
  OBVIOUS
<1>1. CASE UNCHANGED vars
  BY <1>1 DEF vars, content, stable, signed, local, IInv, TypeOK, Holders, WriterOK, SignerOK,
     AckFacts, AckOK, HeadFacts, Durable, OnBasis, InLog, Recorded
<1>2. ASSUME NEW w \in Writers, Appending(w) PROVE IInv'
  BY <1>2, BeginAppendStep, BeginRetryStep, CopyTailStep, CutTailStep, CutUnflushedStep,
     WriteLineStep, TearStep, FlushStep, CutBackStep, LinkStep, ReportStep DEF Appending
<1>3. ASSUME NEW s \in Signers, BeginSigning(s) PROVE IInv'
  BY <1>3, BeginSigningStep
<1>4. ASSUME NEW p \in Procs, WriteHead(p) \/ FlushHead(p) \/ Kill(p) PROVE IInv'
  BY <1>4, WriteHeadStep, FlushHeadStep, KillStep
<1>5. CASE LosePower
  BY <1>5, LosePowerStep
<1> QED
  BY <1>1, <1>2, <1>3, <1>4, <1>5 DEF Next

-----------------------------------------------------------------------------
(* What a step may do to the head file and to a tail                       *)

\* Only a process that holds the lock replaces the head, by the whole log.
LEMMA HeadStep ==
  ASSUME IInv, [Next]_vars, losses' = losses, head # None, ~stranded'
  PROVE  IsPrefix(head, head')
<1>1. TypeOK /\ Holders /\ HeadFacts /\ log \in Seq(Line) /\ losses \in Nat
      /\ head \in Seq(Line)
  BY DEF IInv, TypeOK
<1>2. head' = head \/ (\E p \in Procs : WriteHead(p)) \/ LosePower
  <2>1. ASSUME NEW w \in Writers, Appending(w) PROVE head' = head
    BY <2>1 DEF signed, Appending, BeginAppend, BeginRetry, Begin, CopyTail, CutTail,
       CutUnflushed, WriteLine, Tear, Flush, CutBack, Link, Report
  <2>2. ASSUME NEW p \in Procs, BeginSigning(p) \/ FlushHead(p) \/ Kill(p)
        PROVE  head' = head
    BY <2>2 DEF signed, BeginSigning, FlushHead, Kill
  <2>3. CASE UNCHANGED vars
    BY <2>3 DEF vars, signed
  <2> QED
    BY <2>1, <2>2, <2>3 DEF Next, Procs
<1>3. CASE head' = head
  BY <1>1, <1>3, PrefixOfItself
<1>4. ASSUME NEW p \in Procs, WriteHead(p) PROVE IsPrefix(head, head')
  <2>1. head' = log
    BY <1>1, <1>4, ToSign DEF WriteHead
  <2>2. ~stranded
    BY <1>4 DEF WriteHead
  <2> QED
    BY <1>1, <2>1, <2>2 DEF HeadFacts
<1>5. CASE LosePower
  BY <1>1, <1>5 DEF LosePower
<1> QED
  BY <1>2, <1>3, <1>4, <1>5

\* A tail is only cut where the writer has its copy.
LEMMA TailStep ==
  ASSUME IInv, [Next]_vars, losses' = losses, tail # None, tail' # tail
  PROVE  tail.line \in quarantine
<1>1. TypeOK /\ Holders /\ losses \in Nat
  BY DEF IInv, TypeOK
<1>2. LosePower \/ \E w \in Writers : CutTail(w) \/ CutUnflushed(w) \/ Tear(w)
  BY DEF vars, content, stable, signed, local, Next, Appending, BeginAppend, BeginRetry, Begin,
     CopyTail, WriteLine, Flush, CutBack, Link, Report, BeginSigning, WriteHead, FlushHead, Kill
<1>3. CASE LosePower
  BY <1>1, <1>3 DEF LosePower
<1>4. ASSUME NEW w \in Writers, CutTail(w) \/ CutUnflushed(w) \/ Tear(w)
      PROVE  tail.line \in quarantine
  BY <1>1, <1>4 DEF Holders, WriterOK, CutTail, CutUnflushed, Tear
<1> QED
  BY <1>2, <1>3, <1>4

-----------------------------------------------------------------------------
(* The theorems                                                            *)

LEMMA Invariance == Spec => []IInv
  BY InitIInv, NextStep, PTL DEF Spec

\* The files, what is on stable storage and what each process holds are well
\* formed in every reachable state.
THEOREM TypeCorrect == Spec => []TypeOK
<1>1. IInv => TypeOK
  BY DEF IInv
<1> QED
  BY Invariance, <1>1, PTL

\* For any number of writers and signers, lines and losses of power: an append
\* that was reported is on stable storage where its report says, and stays.
THEOREM AckedTheorem == Spec => []AckedDurable
<1>1. IInv => AckedDurable
  <2>1. SUFFICES ASSUME IInv, NEW r \in acked
                 PROVE  linked /\ r.index <= synced /\ log[r.index] = r.line
    BY DEF AckedDurable
  <2>2. AckOK(r) /\ synced \in Nat
    BY <2>1 DEF IInv, AckFacts, TypeOK
  <2> QED
    BY <2>2 DEF AckOK
<1> QED
  BY Invariance, <1>1, PTL

\* However often appends are interrupted and retried, no event is in the log
\* twice.
THEOREM EventTheorem == Spec => []EventRecordedOnce
<1>1. IInv => EventRecordedOnce
  BY DEF IInv, EventRecordedOnce
<1> QED
  BY Invariance, <1>1, PTL

\* A new line that was reported follows exactly the head its caller expected.
THEOREM ExpectedHeadTheorem == Spec => []AppendsToItsHead
<1>1. IInv => AppendsToItsHead
  BY DEF IInv, AckFacts, AckOK, OnBasis, AppendsToItsHead
<1> QED
  BY Invariance, <1>1, PTL

\* As long as no signer published a line that was not flushed, every head that
\* was ever visible covers an initial part of the log.
THEOREM HeadsTheorem == Spec => []HeadsHold
<1>1. IInv => HeadsHold
  BY DEF IInv, HeadFacts, HeadsHold
<1> QED
  BY Invariance, <1>1, PTL

\* Under the same condition the head file never goes back while the machine
\* runs.
THEOREM HeadAdvancesTheorem == Spec => HeadAdvances
<1>1. IInv /\ [Next]_vars =>
        [losses' = losses /\ head # None /\ ~stranded' => IsPrefix(head, head')]_vars
  BY HeadStep
<1> QED
  BY Invariance, <1>1, PTL DEF Spec, HeadAdvances

\* A repair never destroys the only copy of a tail.
THEOREM TailsTheorem == Spec => TailsKept
<1>1. IInv /\ [Next]_vars =>
        [losses' = losses /\ tail # None /\ tail' # tail => tail.line \in quarantine]_vars
  BY TailStep
<1> QED
  BY Invariance, <1>1, PTL DEF Spec, TailsKept

-----------------------------------------------------------------------------
(* Ledger implements AppendOnlyLog                                         *)

\* What is committed stays when the flushed lines do.
LEMMA CommittedGrows ==
  ASSUME TypeOK, TypeOK', EventsOnce(log'), linked => linked',
         linked => synced <= synced' /\ \A i \in 1..synced : log'[i] = log[i]
  PROVE  IsPrefix(Committed, Committed') /\ EventsOnce(Committed')
<1>1. log \in Seq(Line) /\ synced \in 0..Len(log) /\ log' \in Seq(Line)
      /\ synced' \in 0..Len(log') /\ <<>> \in Seq(Line)
  BY DEF TypeOK
<1>2. EventsOnce(Committed')
  <2>1. EventsOnce(SubSeq(log', 1, synced'))
    BY <1>1, EventsCut
  <2>2. EventsOnce(<<>>)
    BY DEF EventsOnce
  <2> QED
    BY <2>1, <2>2 DEF Committed
<1>3. CASE linked
  <2>1. /\ SubSeq(log, 1, synced) \in Seq(Line) /\ Len(SubSeq(log, 1, synced)) = synced
        /\ \A i \in 1..synced : SubSeq(log, 1, synced)[i] = log[i]
    BY <1>1, InitialPart
  <2>2. /\ SubSeq(log', 1, synced') \in Seq(Line) /\ Len(SubSeq(log', 1, synced')) = synced'
        /\ \A i \in 1..synced' : SubSeq(log', 1, synced')[i] = log'[i]
    BY <1>1, InitialPart
  <2>3. Committed = SubSeq(log, 1, synced) /\ Committed' = SubSeq(log', 1, synced')
    BY <1>3 DEF Committed
  <2>4. Committed \in Seq(Line) /\ Committed' \in Seq(Line)
        /\ Len(Committed) = synced /\ Len(Committed') = synced'
        /\ \A i \in 1..synced : Committed[i] = Committed'[i]
    <3>1. \A i \in 1..synced : i \in 1..synced'
      BY <1>1, <1>3
    <3> QED
      BY <1>3, <2>1, <2>2, <2>3, <3>1
  <2>5. IsPrefix(Committed, Committed')
    BY <1>1, <1>3, <2>4, PrefixElements
  <2> QED
    BY <1>2, <2>5
<1>4. CASE ~linked
  <2>1. Committed = <<>> /\ Committed' \in Seq(Line)
    BY <1>1, <1>4, InitialPart DEF Committed
  <2>2. ASSUME NEW t \in Seq(Line) PROVE IsPrefix(<<>>, t)
    <3> DEFINE z == <<>>
    <3>1. z \in Seq(Line) /\ Len(z) = 0
      OBVIOUS
    <3> HIDE DEF z
    <3>2. Len(z) <= Len(t) /\ \A i \in 1..Len(z) : z[i] = t[i]
      BY <3>1
    <3>3. IsPrefix(z, t)
      BY <3>1, <3>2, PrefixElements
    <3> QED
      BY <3>3 DEF z
  <2> QED
    BY <1>2, <2>1, <2>2
<1> QED
  BY <1>3, <1>4

\* No step but a loss of power changes a flushed line, and no loss of power one
\* that is committed.
LEMMA FlushedKept ==
  ASSUME IInv, [Next]_vars
  PROVE  /\ linked => linked'
         /\ linked => synced <= synced' /\ \A i \in 1..synced : log'[i] = log[i]
<1>1. TypeOK /\ Holders /\ log \in Seq(Line) /\ synced \in Nat /\ Len(log) \in Nat
      /\ synced <= Len(log)
  BY DEF IInv, TypeOK
<1>2. CASE UNCHANGED vars
  BY <1>1, <1>2 DEF vars, content, stable
<1>3. ASSUME NEW w \in Writers, Appending(w)
      PROVE  (linked => linked') /\ synced <= synced' /\ \A i \in 1..synced : log'[i] = log[i]
  <2>1. CASE \E r \in Records, basis \in heads \union {None} :
               BeginAppend(w, r, basis) \/ BeginRetry(w, r, basis)
    <3>1. content' = content /\ stable' = stable
      BY <2>1 DEF BeginAppend, BeginRetry, Begin
    <3> QED
      BY <1>1, <3>1 DEF content, stable
  <2>2. CASE CopyTail(w) \/ CutUnflushed(w) \/ Tear(w) \/ Link(w) \/ Report(w)
    BY <1>1, <2>2 DEF CopyTail, CutUnflushed, Tear, Link, Report, content, stable
  <2>3. CASE CutTail(w) \/ Flush(w)
    BY <1>1, <2>3 DEF CutTail, Flush, content
  <2>4. CASE WriteLine(w)
    <3>1. plan[w].line \in Line
      BY <1>1, <2>4, WriterAlone DEF WriteLine, Plan
    <3>2. log' = Append(log, plan[w].line) /\ synced' = synced /\ linked' = linked
      BY <2>4 DEF WriteLine, stable
    <3> QED
      BY <1>1, <3>1, <3>2
  <2>5. CASE CutBack(w)
    <3> DEFINE k == plan[w].index - 1
    <3>1. log' = SubSeq(log, 1, k) /\ synced' = k /\ linked' = linked
      BY <2>5 DEF CutBack
    <3>2. k \in 0..Len(log) /\ synced <= k
      BY <1>1, <2>5, WriterAlone DEF CutBack, WriterOK
    <3> HIDE DEF k
    <3>3. \A i \in 1..k : SubSeq(log, 1, k)[i] = log[i]
      BY <1>1, <3>2, InitialPart
    <3> QED
      BY <1>1, <3>1, <3>2, <3>3
  <2> QED
    BY <1>3, <2>1, <2>2, <2>3, <2>4, <2>5 DEF Appending
<1>4. ASSUME NEW p \in Procs, BeginSigning(p) \/ WriteHead(p) \/ FlushHead(p) \/ Kill(p)
      PROVE  (linked => linked') /\ synced <= synced' /\ \A i \in 1..synced : log'[i] = log[i]
  BY <1>1, <1>4 DEF BeginSigning, WriteHead, FlushHead, Kill, content, stable
<1>5. CASE LosePower /\ linked
  <2>1. PICK k \in synced..Len(log) :
          log' = SubSeq(log, 1, k) /\ synced' = k /\ linked' = (linked \/ k > 0)
    BY <1>5 DEF LosePower
  <2>2. k \in 0..Len(log) /\ synced <= k
    BY <1>1, <2>1
  <2>3. \A i \in 1..k : SubSeq(log, 1, k)[i] = log[i]
    BY <1>1, <2>2, InitialPart
  <2>4. \A i \in 1..synced : log'[i] = log[i]
    BY <1>1, <2>1, <2>2, <2>3
  <2>5. linked'
    BY <1>5, <2>1
  <2> QED
    BY <2>1, <2>2, <2>4, <2>5
<1> QED
  BY <1>2, <1>3, <1>4, <1>5 DEF Next, Procs

\* A step of the ledger is a step of the promise, or none.
LEMMA PromiseStep ==
  ASSUME IInv, IInv', [Next]_vars
  PROVE  [Promise!Next]_(Promise!promise)
<1>1. TypeOK /\ Holders /\ log \in Seq(Line) /\ synced \in 0..Len(log)
  BY DEF IInv, TypeOK
<1>2. IsPrefix(Committed, Committed') /\ EventsOnce(Committed')
  BY FlushedKept, CommittedGrows DEF IInv
<1>3. CASE acked' = acked
  <2>1. {<<r.index, r.line>> : r \in acked'} = {<<r.index, r.line>> : r \in acked}
    BY <1>3
  <2>2. Promise!EventsOnce(Committed')
    BY <1>2 DEF Promise!EventsOnce, EventsOnce
  <2>3. Promise!Commit
    BY <1>2, <2>1, <2>2 DEF Promise!Commit, Promise!IsPrefix, IsPrefix
  <2> QED
    BY <2>3 DEF Promise!Next
<1>4. ASSUME NEW w \in Writers, Report(w) PROVE Promise!Next
  <2> DEFINE i == plan[w].index
  <2>1. pc[w] = "report" /\ acked' = acked \union {plan[w]} /\ Committed' = Committed
    BY <1>4 DEF Report, content, stable, Committed
  <2>2. linked /\ synced = Len(log) /\ i \in 1..Len(log) /\ log[i] = plan[w].line
    BY <1>1, <2>1 DEF Holders, WriterOK, Written, Flushed, InLog
  <2>3. i \in DOMAIN Committed /\ Committed[i] = plan[w].line
    BY <1>1, <2>2, InitialPart DEF Committed
  <2>4. {<<r.index, r.line>> : r \in acked'}
          = {<<r.index, r.line>> : r \in acked} \union {<<i, Committed[i]>>}
    BY <2>1, <2>3
  <2>5. Promise!Tell
    BY <2>1, <2>3, <2>4 DEF Promise!Tell
  <2> QED
    BY <2>5 DEF Promise!Next
<1>5. acked' = acked \/ \E w \in Writers : Report(w)
  <2>1. ASSUME NEW w \in Writers, Appending(w), ~Report(w) PROVE acked' = acked
    BY <2>1 DEF Appending, BeginAppend, BeginRetry, Begin, CopyTail, CutTail,
       CutUnflushed, WriteLine, Tear, Flush, CutBack, Link
  <2>2. ASSUME NEW p \in Procs, BeginSigning(p) \/ WriteHead(p) \/ FlushHead(p) \/ Kill(p)
        PROVE  acked' = acked
    BY <2>2 DEF BeginSigning, WriteHead, FlushHead, Kill
  <2>3. CASE UNCHANGED vars \/ LosePower
    BY <2>3 DEF vars, LosePower
  <2> QED
    BY <2>1, <2>2, <2>3 DEF Next, Procs
<1> QED
  BY <1>3, <1>4, <1>5

\* For any number of writers and signers, lines and losses of power: the ledger
\* implements an append-only log that tells nobody of a line it can lose.
THEOREM PromiseTheorem == Spec => KeepsPromise
<1>1. Init => Promise!Init
  BY DEF Init, Promise!Init, Committed
<1>2. IInv /\ IInv' /\ [Next]_vars => [Promise!Next]_(Promise!promise)
  BY PromiseStep
<1> QED
  BY Invariance, <1>1, <1>2, PTL DEF Spec, KeepsPromise, Promise!Spec
=============================================================================
