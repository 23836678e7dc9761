-------------------------- MODULE LedgerLockProofs --------------------------
(***************************************************************************)
(* Proofs about LedgerLock, for any threads, processes and number of       *)
(* calls.  The slot makes the record lock of a process the lock of one     *)
(* thread; the system keeps the record locks of processes apart.           *)
(***************************************************************************)
EXTENDS LedgerLock, TLAPS

-----------------------------------------------------------------------------
(* The invariant                                                           *)

\* Who is between claiming and giving up a slot has claimed it.
SlotClaimed == \A t \in Threads : pc[t] \in InSlot => slot[proc[t]] = t

\* Only writers go to the gate.
GateIsForWriters == \A t \in Threads : pc[t] = "gate" => mode[t] = "write"

\* A process has locked the file exactly while the thread in its slot works
\* under the lock, and as that thread asked.
RecordTracked ==
  /\ \A t \in Threads : pc[t] = "held" => record[proc[t]] = mode[t]
  /\ \A p \in Processes : record[p] # "none" => slot[p] # None /\ pc[slot[p]] = "held"

\* The system grants no conflicting record locks.
RecordsAgree ==
  \A p, q \in Processes : p # q /\ record[p] = "write" => record[q] = "none"

IInv == TypeOK /\ SlotClaimed /\ GateIsForWriters /\ RecordTracked /\ RecordsAgree

LEMMA InitIInv == Init => IInv
<1> SUFFICES ASSUME Init PROVE IInv
  OBVIOUS
<1>1. \A t \in Threads : pc[t] = "idle" /\ mode[t] = "read" /\ calls[t] = 0
  BY DEF Init
<1>2. \A p \in Processes : slot[p] = None /\ record[p] = "none"
  BY DEF Init
<1>3. TypeOK
  BY <1>2 DEF Init, TypeOK, Points, Modes
<1>4. SlotClaimed /\ GateIsForWriters /\ RecordTracked /\ RecordsAgree
  BY <1>1, <1>2 DEF SlotClaimed, GateIsForWriters, RecordTracked, RecordsAgree, InSlot
<1> QED
  BY <1>3, <1>4 DEF IInv

LEMMA CallStep ==
  ASSUME IInv, NEW t \in Threads, NEW m \in Modes, Call(t, m)
  PROVE  IInv'
<1>1. TypeOK /\ SlotClaimed /\ GateIsForWriters /\ RecordTracked /\ RecordsAgree
  BY DEF IInv
<1>2. /\ pc' \in [Threads -> Points] /\ mode' \in [Threads -> Modes]
      /\ calls' \in [Threads -> Nat]
  BY <1>1 DEF Call, Goto, TypeOK, Points, InGate
<1>3. /\ pc[t] = "idle" /\ pc'[t] \in {"gate", "slot"}
      /\ \A u \in Threads : u # t => pc'[u] = pc[u] /\ mode'[u] = mode[u]
      /\ gate' = gate /\ slot' = slot /\ record' = record
  BY <1>1 DEF Call, Goto, TypeOK
<1>4. gate # t /\ \A p \in Processes : slot[p] # t
  BY <1>1, <1>3, LockAssumption DEF TypeOK, InGate, InSlot
<1>5. lockFile' \in BOOLEAN
  BY <1>1 DEF Call, TypeOK
<1>6. TypeOK'
  BY <1>1, <1>2, <1>3, <1>4, <1>5 DEF TypeOK
<1>7. SlotClaimed' /\ RecordTracked' /\ RecordsAgree'
  BY <1>1, <1>3, <1>4, LockAssumption DEF TypeOK, SlotClaimed, RecordTracked, RecordsAgree, InSlot
<1>8. GateIsForWriters'
  BY <1>1 DEF Call, Goto, TypeOK, GateIsForWriters
<1> QED
  BY <1>6, <1>7, <1>8 DEF IInv

LEMMA NextIInv == IInv /\ [Next]_vars => IInv'
<1> SUFFICES ASSUME IInv, [Next]_vars PROVE IInv'
  OBVIOUS
<1>1. ASSUME NEW t \in Threads, NEW m \in Modes, Call(t, m) PROVE IInv'
  BY <1>1, CallStep
<1> USE LockAssumption
<1> USE DEF IInv, TypeOK, SlotClaimed, GateIsForWriters, RecordTracked, RecordsAgree,
            Points, InGate, InSlot, Modes, Goto
<1>2. CASE UNCHANGED vars
  BY <1>2 DEF vars
<1>3. ASSUME NEW t \in Threads, LockGate(t) PROVE IInv'
  BY <1>3 DEF LockGate
<1>4. ASSUME NEW t \in Threads, RefuseLog(t) PROVE IInv'
  BY <1>4 DEF RefuseLog
<1>5. ASSUME NEW t \in Threads, ClaimSlot(t) PROVE IInv'
  BY <1>5 DEF ClaimSlot
<1>6. ASSUME NEW t \in Threads, OpenRecord(t) PROVE IInv'
  BY <1>6 DEF OpenRecord
<1>7. ASSUME NEW t \in Threads, OpenFails(t) PROVE IInv'
  BY <1>7 DEF OpenFails
<1>8. ASSUME NEW t \in Threads, LockRecord(t) PROVE IInv'
  BY <1>8 DEF LockRecord, Compatible
<1>9. ASSUME NEW t \in Threads, LockFails(t) PROVE IInv'
  BY <1>9 DEF LockFails
<1>10. ASSUME NEW t \in Threads, Close(t) PROVE IInv'
  BY <1>10 DEF Close
<1>11. ASSUME NEW t \in Threads, ReleaseSlot(t) PROVE IInv'
  BY <1>11 DEF ReleaseSlot
<1>12. ASSUME NEW t \in Threads, UnlockGate(t) PROVE IInv'
  BY <1>12 DEF UnlockGate
<1>13. ASSUME NEW p \in Processes, Kill(p) PROVE IInv'
  BY <1>13 DEF Kill
<1> QED
  BY <1>1, <1>2, <1>3, <1>4, <1>5, <1>6, <1>7, <1>8, <1>9, <1>10, <1>11, <1>12, <1>13
     DEF Next, Advance, Refused

-----------------------------------------------------------------------------
(* What follows from it                                                    *)

\* Who works under the lock is in its process's slot and has its record lock.
LEMMA IInvImplies == IInv => WriterExcludesAll /\ LockIsNotLost /\ NeverHoldsAndWaits
<1> SUFFICES ASSUME IInv PROVE WriterExcludesAll /\ LockIsNotLost /\ NeverHoldsAndWaits
  OBVIOUS
<1>1. WriterExcludesAll
  <2>1. SUFFICES ASSUME NEW t \in Threads, pc[t] = "held", mode[t] = "write",
                        NEW u \in Threads, u # t, pc[u] = "held"
                 PROVE  FALSE
    BY DEF WriterExcludesAll, Holding
  <2>2. slot[proc[t]] = t /\ slot[proc[u]] = u
    BY <2>1 DEF IInv, SlotClaimed, InSlot
  <2>3. record[proc[t]] = "write" /\ record[proc[u]] \in Modes
    BY <2>1 DEF IInv, RecordTracked, TypeOK
  <2> QED
    BY <2>1, <2>2, <2>3, LockAssumption DEF IInv, RecordsAgree, Modes
<1>2. LockIsNotLost
  BY DEF IInv, RecordTracked, LockIsNotLost
<1>3. NeverHoldsAndWaits
  BY LockAssumption DEF IInv, SlotClaimed, RecordTracked, NeverHoldsAndWaits, InSlot
<1> QED
  BY <1>1, <1>2, <1>3

\* Nobody else works under the lock where a writer gets it, and no writer where
\* a signer does.
LEMMA Granted ==
  ASSUME IInv, NEW t \in Threads, LockRecord(t), NEW u \in Threads, pc[u] = "held"
  PROVE  u # t /\ mode[t] = "read" /\ mode[u] = "read"
<1>1. u # t /\ slot[proc[t]] = t /\ slot[proc[u]] = u
  BY DEF LockRecord, IInv, SlotClaimed, InSlot
<1>2. proc[u] # proc[t] /\ proc[u] \in Processes
  BY <1>1, LockAssumption
<1>3. record[proc[u]] = mode[u] /\ mode[u] \in Modes
  BY DEF IInv, RecordTracked, TypeOK
<1> QED
  BY <1>1, <1>2, <1>3 DEF LockRecord, Compatible, Modes

\* A step changes who works under the lock as SharedLock allows.
LEMMA SharedStep ==
  ASSUME IInv, [Next]_vars
  PROVE  [Shared!Next]_(Shared!holders)
<1>1. ASSUME NEW t \in Threads, LockRecord(t) PROVE Shared!Next
  <2>1. /\ pc[t] = "lock" /\ mode' = mode /\ pc' = [pc EXCEPT ![t] = "held"]
        /\ pc \in [Threads -> Points] /\ mode[t] \in Modes
    BY <1>1 DEF LockRecord, Goto, IInv, TypeOK
  <2>2. CASE mode[t] = "write"
    <3>1. \A u \in Threads : pc[u] # "held"
      BY <1>1, <2>2, Granted
    <3>2. Holding("write") = {} /\ Holding("read") = {}
      BY <3>1 DEF Holding
    <3>3. Holding("write")' = {t} /\ Holding("read")' = {}
      BY <2>1, <2>2, <3>1 DEF Holding
    <3> QED
      BY <3>2, <3>3 DEF Shared!Next, Shared!Write
  <2>3. CASE mode[t] = "read"
    <3>1. \A u \in Threads : pc[u] = "held" => mode[u] = "read"
      BY <1>1, Granted
    <3>2. Holding("write") = {}
      BY <3>1 DEF Holding
    <3>3. Holding("write")' = {}
      BY <2>1, <2>3, <3>1 DEF Holding
    <3>4. Holding("read")' = Holding("read") \union {t}
      BY <2>1, <2>3 DEF Holding
    <3> QED
      BY <3>2, <3>3, <3>4 DEF Shared!Next, Shared!Read
  <2> QED
    BY <2>1, <2>2, <2>3 DEF Modes
<1>2. ASSUME \A u \in Threads : pc'[u] = "held" => pc[u] = "held" /\ mode'[u] = mode[u]
      PROVE  Shared!Next
  <2>1. Holding("write")' \subseteq Holding("write") /\ Holding("read")' \subseteq Holding("read")
    BY <1>2 DEF Holding
  <2> QED
    BY <2>1 DEF Shared!Next, Shared!Release
<1>3. ASSUME NEW t \in Threads, NEW m \in Modes, Call(t, m)
      PROVE  \A u \in Threads : pc'[u] = "held" => pc[u] = "held" /\ mode'[u] = mode[u]
  BY <1>3 DEF Call, Goto, IInv, TypeOK
<1>4. ASSUME NEW t \in Threads, Advance(t) \/ Refused(t), ~LockRecord(t)
      PROVE  \A u \in Threads : pc'[u] = "held" => pc[u] = "held" /\ mode'[u] = mode[u]
  BY <1>4 DEF Advance, Refused, LockGate, RefuseLog, ClaimSlot, OpenRecord, OpenFails, LockFails,
              Close, ReleaseSlot, UnlockGate, Goto, IInv, TypeOK
<1>5. ASSUME NEW p \in Processes, Kill(p)
      PROVE  \A u \in Threads : pc'[u] = "held" => pc[u] = "held" /\ mode'[u] = mode[u]
  BY <1>5 DEF Kill
<1>6. CASE UNCHANGED vars
  BY <1>6 DEF vars, Holding, Shared!holders
<1> QED
  BY <1>1, <1>2, <1>3, <1>4, <1>5, <1>6 DEF Next

-----------------------------------------------------------------------------
(* The theorems                                                            *)

LEMMA Invariance == Spec => []IInv
  BY InitIInv, NextIInv, PTL DEF Spec

\* Gate, slots and record locks are well formed and held by threads that are
\* where they can hold them.
THEOREM TypeCorrect == Spec => []TypeOK
<1>1. IInv => TypeOK
  BY DEF IInv
<1> QED
  BY Invariance, <1>1, PTL

\* For any threads and processes: a writer works alone.
THEOREM ExclusionTheorem == Spec => []WriterExcludesAll
BY Invariance, IInvImplies, PTL

\* No thread loses the process-scoped lock to another thread of its process.
THEOREM NotLostTheorem == Spec => []LockIsNotLost
BY Invariance, IInvImplies, PTL

\* No process waits for a record lock while it has one.
THEOREM NeverHoldsAndWaitsTheorem == Spec => []NeverHoldsAndWaits
BY Invariance, IInvImplies, PTL

\* The three locks implement the one that append and sign_head are promised.
THEOREM SharedLockTheorem == Spec => ImplementsSharedLock
<1>1. Init => Shared!Init
  BY DEF Init, Shared!Init, Holding
<1>2. IInv /\ [Next]_vars => [Shared!Next]_(Shared!holders)
  BY SharedStep
<1> QED
  BY Invariance, <1>1, <1>2, PTL DEF Spec, ImplementsSharedLock, Shared!Spec
=============================================================================
