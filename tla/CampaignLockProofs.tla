------------------------- MODULE CampaignLockProofs -------------------------
(***************************************************************************)
(* Proofs about CampaignLock, for every set of processes and inodes.       *)
(***************************************************************************)
EXTENDS CampaignLock, TLAPS

\* From try_lock_exclusive to unlock, the opened inode is locked by its opener.
LockTracked ==
  \A p \in Procs : InCritical(p) \/ pc[p] = "unguarded" => holder[fd[p]] = p

\* Once a process has unlinked the guard, the path never names its inode again.
UnlinkedForGood ==
  \A p \in Procs : pc[p] = "unguarded" => fd[p] # guard

\* Without an overlap, everyone who has the guard open has the linked one.
OpenersSeeTheGuard ==
  ~overlapped => \A p \in Procs : InCritical(p) \/ pc[p] = "opened" => fd[p] = guard

\* In a run without crash or failure somebody is bound to remove each file.
SomeoneWillCleanUp ==
  ~abnormal =>
    /\ guard # None => \E p \in Procs : InCritical(p) \/ (pc[p] = "opened" /\ fd[p] = guard)
    /\ meta # None => pc[meta] = "held"

IInv ==
  /\ TypeOK
  /\ LockTracked
  /\ OnlyLiveProcessesHold
  /\ UnlinkedForGood
  /\ OpenersSeeTheGuard
  /\ MetadataNamesHolder
  /\ SomeoneWillCleanUp

\* Two processes in the critical section share the linked inode, hence the lock.
LEMMA Exclusion == IInv => ExclusiveWithoutOverlap
  BY DEF IInv, OpenersSeeTheGuard, LockTracked, ExclusiveWithoutOverlap

LEMMA InitIInv == Init => IInv
  BY NoneAssumption
  DEF Init, IInv, TypeOK, LockTracked, OnlyLiveProcessesHold,
      UnlinkedForGood, OpenersSeeTheGuard, MetadataNamesHolder, SomeoneWillCleanUp,
      InCritical, Critical, Points

LEMMA NextIInv == IInv /\ [Next]_vars => IInv'
<1> SUFFICES ASSUME IInv, [Next]_vars PROVE IInv'
  OBVIOUS
<1> USE NoneAssumption
<1> USE DEF IInv, TypeOK, LockTracked, OnlyLiveProcessesHold,
            UnlinkedForGood, OpenersSeeTheGuard, MetadataNamesHolder, SomeoneWillCleanUp,
            InCritical, Critical, Points
<1>1. ASSUME NEW p \in Procs, Open(p) PROVE IInv'
  BY <1>1 DEF Open, InUse
<1>2. ASSUME NEW p \in Procs, TryLock(p) PROVE IInv'
  BY <1>2 DEF TryLock
<1>3. ASSUME NEW p \in Procs, Busy(p) PROVE IInv'
  BY <1>3 DEF Busy
<1>4. ASSUME NEW p \in Procs, WriteMetadata(p) PROVE IInv'
  BY <1>4, Exclusion DEF WriteMetadata, ExclusiveWithoutOverlap
<1>5. ASSUME NEW p \in Procs, MetadataFails(p) PROVE IInv'
  BY <1>5, Exclusion DEF MetadataFails, Abandon, ExclusiveWithoutOverlap
<1>6. ASSUME NEW p \in Procs, RemoveMetadata(p) PROVE IInv'
  BY <1>6, Exclusion DEF RemoveMetadata, ExclusiveWithoutOverlap
<1>7. ASSUME NEW p \in Procs, RemoveGuard(p) PROVE IInv'
  <2> USE <1>7 DEF RemoveGuard
  <2>1. TypeOK' /\ LockTracked' /\ OnlyLiveProcessesHold'
    OBVIOUS
  <2>2. UnlinkedForGood'
    OBVIOUS
  <2>3. OpenersSeeTheGuard'
    <3>1. SUFFICES ASSUME ~overlapped', NEW q \in Procs, (InCritical(q) \/ pc[q] = "opened")'
                   PROVE  FALSE
      OBVIOUS
    <3>2. ~overlapped /\ q # p /\ (InCritical(q) \/ pc[q] = "opened")
      BY <3>1
    <3>3. fd[q] = guard
      BY <3>2
    <3>4. pc[q] # "opened"
      BY <3>1, <3>3
    <3>5. QED
      BY <3>2, <3>4, Exclusion DEF ExclusiveWithoutOverlap
  <2>4. MetadataNamesHolder'
    BY Exclusion DEF ExclusiveWithoutOverlap
  <2>5. SomeoneWillCleanUp'
    OBVIOUS
  <2>6. QED
    BY <2>1, <2>2, <2>3, <2>4, <2>5
<1>8. ASSUME NEW p \in Procs, Unlock(p) PROVE IInv'
  BY <1>8 DEF Unlock
<1>9. ASSUME NEW p \in Procs, Crash(p) PROVE IInv'
  BY <1>9, Exclusion DEF Crash, Abandon, ExclusiveWithoutOverlap
<1>10. CASE UNCHANGED vars
  BY <1>10 DEF vars
<1>11. QED
  BY <1>1, <1>2, <1>3, <1>4, <1>5, <1>6, <1>7, <1>8, <1>9, <1>10 DEF Next

\* The type invariant holds in every reachable state.
THEOREM TypeCorrect == Spec => []TypeOK
<1>1. IInv => TypeOK
  BY DEF IInv
<1>2. QED
  BY InitIInv, NextIInv, <1>1, PTL DEF Spec

\* For any number of processes: unless a guard was removed under a process that
\* had it open, at most one process is between lock and unlink.
THEOREM ExclusionTheorem == Spec => []ExclusiveWithoutOverlap
<1>1. QED
  BY InitIInv, NextIInv, Exclusion, PTL DEF Spec

\* Under the same condition the metadata file names the process that holds.
THEOREM MetadataTheorem == Spec => []MetadataNamesHolder
<1>1. IInv => MetadataNamesHolder
  BY DEF IInv
<1>2. QED
  BY InitIInv, NextIInv, <1>1, PTL DEF Spec

\* Runs without crash or failure leave neither file behind, even when guards
\* were removed under other processes.
THEOREM CleanUpTheorem == Spec => []NothingLeftBehind
<1>1. IInv => NothingLeftBehind
  BY NoneAssumption
  DEF IInv, TypeOK, SomeoneWillCleanUp, NothingLeftBehind, InCritical, Critical
<1>2. QED
  BY InitIInv, NextIInv, <1>1, PTL DEF Spec

\* A lock is held by a live process only, so a crash never blocks a retry.
THEOREM LiveHolderTheorem == Spec => []OnlyLiveProcessesHold
<1>1. IInv => OnlyLiveProcessesHold
  BY DEF IInv
<1>2. QED
  BY InitIInv, NextIInv, <1>1, PTL DEF Spec
=============================================================================
