---------------------------- MODULE RunnerProofs ----------------------------
(***************************************************************************)
(* Proofs about the EasyBuild runner, a section for each of its models:    *)
(* ProcessTree, for every set of process numbers and any number of rounds, *)
(* and BuildLocks, for any number of runs and modules.                     *)
(***************************************************************************)
EXTENDS ProcessTree, BuildLocks, TLAPS

USE ProcessAssumption

-----------------------------------------------------------------------------
(* ProcessTree: the processes below the child                              *)

LEMMA DescendantsClosed == ClosedBelow(Descendants)
BY DEF ClosedBelow, Descendants

LEMMA DescendantsLeast ==
  ASSUME NEW S \in SUBSET Pids, ClosedBelow(S)
  PROVE  Descendants \subseteq S
BY DEF Descendants

\* The child is not below itself, and nothing without a parent is.
LEMMA DescendantsHaveParents ==
  ASSUME parent \in [Pids -> Pids \cup {NoParent}]
  PROVE  Descendants \subseteq {p \in Pids : parent[p] # NoParent}
<1>1. ClosedBelow({p \in Pids : parent[p] # NoParent})
  BY DEF ClosedBelow
<1> QED BY <1>1, DescendantsLeast

\* Who starts below the child, or as its child, is below it.
LEMMA StartedBelow ==
  ASSUME parent \in [Pids -> Pids \cup {NoParent}],
         NEW p \in Pids, NEW q \in Pids,
         p \in Descendants \cup {child}, parent[q] = NoParent,
         parent' = [parent EXCEPT ![q] = p]
  PROVE  Descendants \cup {q} \subseteq Descendants'
<1> SUFFICES ASSUME NEW S \in SUBSET Pids, ClosedBelow(S)'
             PROVE  Descendants \cup {q} \subseteq S
  BY DEF Descendants
<1>1. ClosedBelow(S)
  BY DEF ClosedBelow
<1>2. Descendants \subseteq S
  BY <1>1, DescendantsLeast
<1>3. q \in S
  BY <1>2 DEF ClosedBelow
<1> QED BY <1>2, <1>3

\* When leaves are taken away, everything else stays below the child.
LEMMA LeavesGone ==
  ASSUME parent \in [Pids -> Pids \cup {NoParent}],
         NEW Z \in SUBSET Pids,
         \A q \in Pids : parent[q] \notin Z,
         \A q \in Pids \ Z : parent'[q] = parent[q]
  PROVE  Descendants \ Z \subseteq Descendants'
<1> SUFFICES ASSUME NEW S \in SUBSET Pids, ClosedBelow(S)'
             PROVE  Descendants \ Z \subseteq S
  BY DEF Descendants
<1>1. ClosedBelow(S \cup Z)
  BY DEF ClosedBelow
<1> QED BY <1>1, DescendantsLeast

-----------------------------------------------------------------------------
(* ProcessTree: the inductive invariant                                    *)

\* What each point of stop_tree knows of its own variables.
Bookkeeping ==
  /\ phase \in {"wait", "scan"} => rounds < Rounds
  /\ phase # "stop" => found = {}
  /\ ~timedOut => phase \in {"wait", "done"} /\ tree = {}
  /\ phase = "wait" => ~timedOut

\* The process table: only what is alive has children, what is in the tree
\* does not run, and nothing else is suspended.
TableOK ==
  /\ parent[child] = NoParent
  /\ state[child] # "free"
  /\ \A p \in Pids : state[p] = "free" => parent[p] = NoParent /\ p \notin found \cup tree
  /\ \A p, q \in Pids : parent[q] = p => Alive(p)
  /\ \A p \in tree : state[p] \in {"stopped", "dead"}
  /\ \A p \in Pids : state[p] = "stopped" => p \in tree
  /\ phase \in {"killtree", "reap"} => state[child] = "dead"
  /\ phase \in {"reap", "done"} => \A p \in tree : state[p] = "dead"

\* As long as nobody has lost its parent, all is found below the child.
Reachable ==
  ~orphaned /\ phase \in {"wait", "scan", "stop", "kill"} =>
    \A p \in Pids : Alive(p) /\ p # child => p \in Descendants

\* From the last reading of /proc on, all but the child has been found.
Collected ==
  ~orphaned /\ ~late =>
    /\ NoMoreScans => \A p \in Pids : Alive(p) /\ p # child => p \in tree \cup found
    /\ phase = "killtree" => \A p \in Pids : Alive(p) => p \in tree
    /\ phase \in {"reap", "done"} /\ timedOut => \A p \in Pids : ~Alive(p)

PTInv == PTTypeOK /\ Bookkeeping /\ TableOK /\ Reachable /\ Collected

LEMMA PTInitInv == PTInit => PTInv
<1> SUFFICES ASSUME PTInit PROVE PTInv
  OBVIOUS
<1> USE DEF PTInit
<1>1. PTTypeOK
  <2>1. state \in [Pids -> {"free", "running", "stopped", "dead"}]
    OBVIOUS
  <2>2. rounds \in 0..Rounds
    OBVIOUS
  <2> QED BY <2>1, <2>2 DEF PTTypeOK, Phases
<1>2. Bookkeeping
  BY DEF Bookkeeping
<1>4. TableOK
  BY DEF TableOK, Alive
<1>3. Reachable /\ Collected
  BY DEF Reachable, Collected, Alive, NoMoreScans
<1> QED BY <1>1, <1>2, <1>3, <1>4 DEF PTInv

LEMMA PTNextInv == PTInv /\ [PTNext]_ptVars => PTInv'
<1> SUFFICES ASSUME PTInv, [PTNext]_ptVars PROVE PTInv'
  OBVIOUS
<1> USE DEF PTInv
<1>t. parent \in [Pids -> Pids \cup {NoParent}] /\ Descendants \subseteq Pids
  BY DEF PTTypeOK, Descendants
<1>d. /\ child \notin Descendants
      /\ \A p \in Descendants : state[p] # "free"
  BY <1>t, DescendantsHaveParents DEF TableOK
<1>1. ASSUME NEW p \in Pids, NEW q \in Pids, Fork(p, q) PROVE PTInv'
  <2> USE <1>1 DEF Fork, stopper
  <2>0. parent[q] = NoParent /\ q # child /\ q # p /\ q \notin found \cup tree
    BY DEF TableOK
  <2>1. PTTypeOK'
    BY DEF PTTypeOK, Phases
  <2>2. Bookkeeping'
    BY DEF Bookkeeping
  <2>3. TableOK'
    BY <2>0 DEF TableOK, PTTypeOK, Alive
  <2>4. Reachable'
    <3> SUFFICES ASSUME ~orphaned, phase \in {"wait", "scan", "stop", "kill"},
                        NEW x \in Pids, Alive(x)', x # child
                 PROVE  x \in Descendants'
      BY DEF Reachable
    <3>1. p \in Descendants \cup {child}
      BY DEF Reachable, Alive
    <3>2. Descendants \cup {q} \subseteq Descendants'
      BY <1>t, <2>0, <3>1, StartedBelow
    <3>3. x = q \/ Alive(x)
      BY DEF Alive, PTTypeOK
    <3> QED BY <3>2, <3>3 DEF Reachable
  <2>5. Collected'
    <3>1. CASE ~orphaned /\ ~late'
      <4>1. ~NoMoreScans /\ ~late
        BY <3>1 DEF PTTypeOK
      <4>2. phase # "killtree" /\ ~(phase \in {"reap", "done"} /\ timedOut)
        BY <3>1, <4>1 DEF Collected, TableOK, Alive
      <4> QED BY <4>1, <4>2 DEF Collected, NoMoreScans
    <3> QED BY <3>1 DEF Collected
  <2> QED BY <2>1, <2>2, <2>3, <2>4, <2>5
<1>2. ASSUME NEW p \in Pids, NEW q \in Pids, Bury(p, q) PROVE PTInv'
  <2> USE <1>2 DEF Bury, stopper, history
  <2>1. PTTypeOK'
    BY DEF PTTypeOK, Phases
  <2>2. Bookkeeping'
    BY DEF Bookkeeping
  <2>3. TableOK'
    BY DEF TableOK, PTTypeOK, Alive
  <2>4. Reachable'
    <3>1. \A x \in Pids : parent[x] # q
      BY DEF TableOK, Alive
    <3>2. Descendants \ {q} \subseteq Descendants'
      BY <1>t, <3>1, LeavesGone
    <3> QED BY <3>2 DEF Reachable, Alive
  <2>5. Collected'
    BY DEF Collected, NoMoreScans, Alive
  <2> QED BY <2>1, <2>2, <2>3, <2>4, <2>5
<1>3. ASSUME NEW p \in Pids, Exit(p) PROVE PTInv'
  <2> USE <1>3 DEF Exit, Reparented, stopper
  <2>1. PTTypeOK'
    BY DEF PTTypeOK, Phases
  <2>2. Bookkeeping'
    BY DEF Bookkeeping
  <2>3. TableOK'
    BY DEF TableOK, PTTypeOK, Alive
  <2>4. Reachable'
    <3> SUFFICES ASSUME ~orphaned', phase \in {"wait", "scan", "stop", "kill"},
                        NEW x \in Pids, Alive(x)', x # child
                 PROVE  x \in Descendants'
      BY DEF Reachable
    <3> DEFINE Z == {q \in Pids : parent[q] = p}
    <3>1. ~orphaned /\ \A q \in Z : ~Alive(q)
      BY DEF PTTypeOK
    <3>2. \A q \in Pids : parent[q] \notin Z
      BY <3>1 DEF TableOK
    <3>3. \A q \in Pids \ Z : parent'[q] = parent[q]
      OBVIOUS
    <3>4. Descendants \ Z \subseteq Descendants'
      BY <1>t, <3>2, <3>3, LeavesGone
    <3>5. Alive(x) /\ x \notin Z
      BY <3>1 DEF Alive, PTTypeOK
    <3> QED BY <3>1, <3>4, <3>5 DEF Reachable
  <2>5. Collected'
    BY DEF Collected, NoMoreScans, Alive, PTTypeOK
  <2> QED BY <2>1, <2>2, <2>3, <2>4, <2>5
<1>4. CASE ChildEnded
  <2> USE <1>4 DEF ChildEnded, processes, history
  <2>1. PTTypeOK' /\ Bookkeeping'
    BY DEF PTTypeOK, Phases, Bookkeeping
  <2>0. tree = {} /\ ~timedOut
    BY DEF Bookkeeping
  <2>2. TableOK'
    BY <2>0 DEF TableOK, Alive
  <2>3. Reachable' /\ Collected'
    BY <2>0 DEF Reachable, Collected, Bookkeeping, NoMoreScans
  <2> QED BY <2>1, <2>2, <2>3
<1>5. CASE LimitPassed
  <2> USE <1>5 DEF LimitPassed, processes, history
  <2>1. Reachable'
    BY DEF Reachable, Alive, Descendants, ClosedBelow
  <2> QED BY <2>1 DEF PTTypeOK, Phases, Bookkeeping, TableOK, Collected, NoMoreScans, Alive
<1>6. CASE Scan
  <2> USE <1>6 DEF Scan, processes, history
  <2>1. PTTypeOK'
    BY <1>t, <1>d DEF PTTypeOK, Phases, Bookkeeping
  <2>2. Bookkeeping'
    BY DEF Bookkeeping, PTTypeOK
  <2>3. TableOK'
    BY <1>d DEF TableOK, Alive
  <2>4. Reachable'
    BY DEF Reachable, Alive, Descendants, ClosedBelow
  <2>5. Collected'
    BY DEF Collected, Reachable, NoMoreScans, Alive
  <2> QED BY <2>1, <2>2, <2>3, <2>4, <2>5
<1>7. CASE StopFound
  <2> USE <1>7 DEF StopFound, history
  <2>1. PTTypeOK'
    BY DEF PTTypeOK, Phases
  <2>2. Bookkeeping'
    BY DEF Bookkeeping, PTTypeOK
  <2>3. TableOK'
    BY DEF TableOK, PTTypeOK, Alive
  <2>4. Reachable'
    BY DEF Reachable, Alive, Descendants, ClosedBelow, PTTypeOK
  <2>5. Collected'
    BY DEF Collected, NoMoreScans, Alive, PTTypeOK
  <2> QED BY <2>1, <2>2, <2>3, <2>4, <2>5
<1>8. CASE KillChild
  <2> USE <1>8 DEF KillChild, Reparented, history
  <2>1. PTTypeOK'
    BY DEF PTTypeOK, Phases
  <2>3. TableOK'
    BY DEF TableOK, PTTypeOK, Alive
  <2>4. Bookkeeping' /\ Reachable'
    BY DEF Bookkeeping, Reachable
  <2>5. Collected'
    BY DEF Collected, NoMoreScans, Alive, PTTypeOK, Bookkeeping
  <2> QED BY <2>1, <2>3, <2>4, <2>5
<1>9. CASE KillTree
  <2> USE <1>9 DEF KillTree, Reparented, history
  <2>1. PTTypeOK'
    BY DEF PTTypeOK, Phases
  <2>3. TableOK'
    BY DEF TableOK, PTTypeOK, Alive
  <2>4. Bookkeeping' /\ Reachable'
    BY DEF Bookkeeping, Reachable
  <2>5. Collected'
    BY DEF Collected, NoMoreScans, Alive, PTTypeOK
  <2> QED BY <2>1, <2>3, <2>4, <2>5
<1>10. CASE Wait
  BY <1>10 DEF Wait, processes, history, PTTypeOK, Phases, Bookkeeping, TableOK,
               Reachable, Collected, NoMoreScans, Alive
<1>11. CASE UNCHANGED ptVars
  BY <1>11 DEF ptVars, processes, stopper, history, PTTypeOK, Phases, Bookkeeping, TableOK,
               Reachable, Collected, NoMoreScans, Alive, Descendants, ClosedBelow
<1> QED
  BY <1>1, <1>2, <1>3, <1>4, <1>5, <1>6, <1>7, <1>8, <1>9, <1>10, <1>11
     DEF PTNext, Program, StopTree

LEMMA PTInvariance == PTSpec => []PTInv
BY PTInitInv, PTNextInv, PTL DEF PTSpec

-----------------------------------------------------------------------------
(* ProcessTree: the theorems                                               *)

\* The types of the process table and of what stop_tree has collected.
THEOREM PTTypeCorrect == PTSpec => []PTTypeOK
BY PTInvariance, PTL DEF PTInv

\* For any number of processes and of rounds: what goes on after a stop has
\* lost its parent or was started after the last reading of /proc.
THEOREM GoneTheorem == PTSpec => []StoppedRunIsGone
<1>1. PTInv => StoppedRunIsGone
  BY DEF PTInv, Collected, StoppedRunIsGone
<1> QED BY <1>1, PTInvariance, PTL

\* stop_tree leaves no process suspended, in no case.
THEOREM NotSuspendedTheorem == PTSpec => []NoneLeftStopped
<1>1. PTInv => NoneLeftStopped
  BY DEF PTInv, TableOK, NoneLeftStopped
<1> QED BY <1>1, PTInvariance, PTL

HIDE ProcessAssumption
USE ConstantsAssumption

-----------------------------------------------------------------------------
(* BuildLocks: the inductive invariant                                     *)

\* A build has its lock, unless it was taken; and no lock of the past.
BuildsHold ==
  \A r \in Runs, m \in Modules :
    Building(r, m) => lock[m] # Old /\ (lock[m] = r \/ m \in stolen)

\* A lock of the past is known to every run that could list it, and named in
\* no output.
OldIsSeen ==
  \A r \in Runs, m \in Modules :
    lock[m] = Old =>
      /\ m \notin logged[r] \cup todo[r]
      /\ hasPath[r] /\ pc[r] # "idle" => m \in before[r]

\* What the lists of a clean-up hold of the run's own locks.
OwnListed ==
  \A r \in Runs :
    /\ ~hasPath[r] => before[r] = {}
    /\ \A m \in Modules :
         pc[r] \in {"clean", "killed"} /\ lock[m] = r =>
           \/ pc[r] = "clean" /\ m \in todo[r]
           \/ IF hasPath[r] THEN m \in before[r] ELSE m \notin logged[r]

IInv == TypeOK /\ BuildsHold /\ OldIsSeen /\ OwnListed

\* A step of one of the runs, with its actions.
Step(r) ==
  \/ Start(r) \/ End(r) \/ TimeOut(r) \/ ListLocks(r) \/ Done(r)
  \/ \E m \in Modules : \/ Announce(r, m) \/ CreateLock(r, m)
                        \/ FinishModule(r, m) \/ RemoveLock(r, m)

LEMMA InitInv == Init => IInv
BY DEF Init, IInv, TypeOK, BuildsHold, OldIsSeen, OwnListed, Building, Points

-----------------------------------------------------------------------------
(* BuildLocks: each part is kept by every step                             *)

LEMMA TypeKept ==
  ASSUME TypeOK, NEW q \in Runs, Step(q)
  PROVE  TypeOK'
<1>1. CASE Start(q)
  <2>1. before' \in [Runs -> SUBSET Modules]
    BY <1>1 DEF TypeOK, Start, Present
  <2>2. /\ pc' \in [Runs -> Points]
        /\ eb' \in [Runs -> {"off", "on", "announced", "build"}]
        /\ at' = at
        /\ \A r \in Runs : /\ pc'[r] = (IF r = q THEN "wait" ELSE pc[r])
                           /\ eb'[r] = (IF r = q THEN "on" ELSE eb[r])
    BY <1>1 DEF TypeOK, Points, Start
  <2>3. at[q] = None
    <3>1. pc[q] = "idle"
      BY <1>1 DEF Start
    <3>2. eb[q] = "off"
      BY <3>1 DEF TypeOK
    <3> QED BY <3>2 DEF TypeOK
  <2>4. \A r \in Runs : /\ at'[r] # None <=> eb'[r] \in {"announced", "build"}
                        /\ eb'[r] # "off" <=> pc'[r] = "wait"
    BY <2>2, <2>3 DEF TypeOK
  <2> QED BY <1>1, <2>1, <2>2, <2>4 DEF TypeOK, Start
<1>2. CASE End(q)
  BY <1>2 DEF TypeOK, Points, End
<1>3. CASE TimeOut(q)
  BY <1>3 DEF TypeOK, Points, TimeOut
<1>4. CASE ListLocks(q)
  BY <1>4 DEF TypeOK, Points, ListLocks, Present
<1>5. CASE Done(q)
  BY <1>5 DEF TypeOK, Points, Done
<1>6. ASSUME NEW n \in Modules, Announce(q, n) PROVE TypeOK'
  <2>1. logged' \in [Runs -> SUBSET Modules]
    BY <1>6 DEF TypeOK, Announce
  <2>2. /\ eb' \in [Runs -> {"off", "on", "announced", "build"}]
        /\ at' \in [Runs -> Modules \cup {None}]
        /\ \A r \in Runs : /\ at'[r] = (IF r = q THEN n ELSE at[r])
                           /\ eb'[r] = (IF r = q THEN "announced" ELSE eb[r])
    BY <1>6 DEF TypeOK, Announce
  <2>3. pc[q] = "wait"
    <3>1. eb[q] = "on"
      BY <1>6 DEF Announce
    <3> QED BY <3>1 DEF TypeOK
  <2>4. \A r \in Runs : /\ at'[r] # None <=> eb'[r] \in {"announced", "build"}
                        /\ eb'[r] # "off" <=> pc'[r] = "wait"
    <3>1. pc' = pc
      BY <1>6 DEF Announce
    <3> QED BY <2>2, <2>3, <3>1 DEF TypeOK
  <2> QED BY <1>6, <2>1, <2>2, <2>4 DEF TypeOK, Announce
<1>7. ASSUME NEW n \in Modules, CreateLock(q, n) PROVE TypeOK'
  BY <1>7 DEF TypeOK, Points, CreateLock
<1>8. ASSUME NEW n \in Modules, FinishModule(q, n) PROVE TypeOK'
  BY <1>8 DEF TypeOK, Points, FinishModule, Building
<1>9. ASSUME NEW n \in Modules, RemoveLock(q, n) PROVE TypeOK'
  BY <1>9 DEF TypeOK, Points, RemoveLock, InUse
<1> QED BY <1>1, <1>2, <1>3, <1>4, <1>5, <1>6, <1>7, <1>8, <1>9 DEF Step

LEMMA BuildsHoldKept ==
  ASSUME IInv, NEW q \in Runs, Step(q)
  PROVE  BuildsHold'
<1> USE DEF IInv, TypeOK, BuildsHold, Building
<1>1. CASE Start(q)
  BY <1>1 DEF Start
<1>2. CASE End(q)
  BY <1>2 DEF End
<1>3. CASE TimeOut(q)
  BY <1>3 DEF TimeOut
<1>4. CASE ListLocks(q)
  BY <1>4 DEF ListLocks
<1>5. CASE Done(q)
  BY <1>5 DEF Done
<1>6. ASSUME NEW n \in Modules, Announce(q, n) PROVE BuildsHold'
  BY <1>6 DEF Announce
<1>7. ASSUME NEW n \in Modules, CreateLock(q, n) PROVE BuildsHold'
  BY <1>7 DEF CreateLock
\* Of two builds of one module only the one with the lock is not robbed yet.
<1>8. ASSUME NEW n \in Modules, FinishModule(q, n) PROVE BuildsHold'
  BY <1>8 DEF FinishModule
<1>9. ASSUME NEW n \in Modules, RemoveLock(q, n) PROVE BuildsHold'
  <2> SUFFICES ASSUME NEW r \in Runs, NEW m \in Modules, Building(r, m)'
               PROVE  lock'[m] # Old /\ (lock'[m] = r \/ m \in stolen')
    OBVIOUS
  <2>1. Building(r, m)
    BY <1>9 DEF RemoveLock
  <2>2. r # q
    <3>1. pc[q] = "clean" /\ pc[r] = "wait"
      BY <1>9, <2>1 DEF RemoveLock
    <3> QED BY <3>1
  <2>3. CASE m = n
    BY <1>9, <2>1, <2>2, <2>3 DEF RemoveLock, InUse
  <2>4. CASE m # n
    BY <1>9, <2>1, <2>4 DEF RemoveLock
  <2> QED BY <2>3, <2>4
<1> QED BY <1>1, <1>2, <1>3, <1>4, <1>5, <1>6, <1>7, <1>8, <1>9 DEF Step

\* No step makes a lock of the past.
LEMMA NoNewOldLock ==
  ASSUME TypeOK, NEW q \in Runs, Step(q), NEW m \in Modules, lock'[m] = Old
  PROVE  lock[m] = Old
BY DEF Step, TypeOK, Start, End, TimeOut, ListLocks, Done, Announce, CreateLock,
       FinishModule, RemoveLock

LEMMA OldIsSeenKept ==
  ASSUME IInv, NEW q \in Runs, Step(q)
  PROVE  OldIsSeen'
<1> SUFFICES ASSUME NEW r \in Runs, NEW m \in Modules, lock'[m] = Old
             PROVE  /\ m \notin logged'[r] \cup todo'[r]
                    /\ hasPath'[r] /\ pc'[r] # "idle" => m \in before'[r]
  BY DEF OldIsSeen
<1>0. lock[m] = Old
  BY NoNewOldLock DEF IInv
<1> USE <1>0 DEF IInv, TypeOK, OldIsSeen
<1>1. CASE Start(q)
  BY <1>1 DEF Start, Present
<1>2. CASE End(q)
  BY <1>2 DEF End
<1>3. CASE TimeOut(q)
  BY <1>3 DEF TimeOut
<1>4. CASE ListLocks(q)
  BY <1>4 DEF ListLocks, Present
<1>5. CASE Done(q)
  BY <1>5 DEF Done
<1>6. CASE \E n \in Modules : Announce(q, n)
  BY <1>6 DEF Announce
<1>7. CASE \E n \in Modules : CreateLock(q, n)
  BY <1>7 DEF CreateLock
<1>8. CASE \E n \in Modules : FinishModule(q, n)
  BY <1>8 DEF FinishModule
<1>9. CASE \E n \in Modules : RemoveLock(q, n)
  BY <1>9 DEF RemoveLock
<1> QED BY <1>1, <1>2, <1>3, <1>4, <1>5, <1>6, <1>7, <1>8, <1>9 DEF Step

LEMMA OwnListedKept ==
  ASSUME IInv, NEW q \in Runs, Step(q)
  PROVE  OwnListed'
<1> USE DEF IInv, TypeOK, OwnListed
<1>1. CASE Start(q)
  BY <1>1 DEF Start
<1>2. CASE End(q)
  BY <1>2 DEF End
<1>3. CASE TimeOut(q)
  BY <1>3 DEF TimeOut
<1>4. CASE ListLocks(q)
  BY <1>4 DEF ListLocks, Present
<1>5. CASE Done(q)
  BY <1>5 DEF Done
<1>6. CASE \E n \in Modules : Announce(q, n)
  BY <1>6 DEF Announce
<1>7. CASE \E n \in Modules : CreateLock(q, n)
  BY <1>7 DEF CreateLock
<1>8. CASE \E n \in Modules : FinishModule(q, n)
  BY <1>8 DEF FinishModule
<1>9. CASE \E n \in Modules : RemoveLock(q, n)
  BY <1>9 DEF RemoveLock
<1> QED BY <1>1, <1>2, <1>3, <1>4, <1>5, <1>6, <1>7, <1>8, <1>9 DEF Step

LEMMA StepInv == IInv /\ [Next]_vars => IInv'
<1> SUFFICES ASSUME IInv, [Next]_vars PROVE IInv'
  OBVIOUS
<1>1. CASE UNCHANGED vars
  BY <1>1 DEF vars, run, IInv, TypeOK, BuildsHold, OldIsSeen, OwnListed, Building
<1>2. CASE Next
  <2>1. PICK q \in Runs : Step(q)
    BY <1>2 DEF Next, Step
  <2> QED
    BY <2>1, TypeKept, BuildsHoldKept, OldIsSeenKept, OwnListedKept DEF IInv
<1> QED BY <1>1, <1>2

LEMMA Invariance == Spec => []IInv
<1> QED BY InitInv, StepInv, PTL DEF Spec

-----------------------------------------------------------------------------
(* BuildLocks: the theorems                                                *)

\* The types, and that only a run that waits has an EasyBuild, and only this
\* is at a module.
THEOREM TypeCorrect == Spec => []TypeOK
<1>1. IInv => TypeOK
  BY DEF IInv
<1> QED BY <1>1, Invariance, PTL

\* Two runs build one module together only after a clean-up took a lock in use.
THEOREM ExclusionTheorem == Spec => []ExclusiveUntilStolen
<1>1. IInv => ExclusiveUntilStolen
  BY DEF IInv, BuildsHold, ExclusiveUntilStolen
<1> QED BY <1>1, Invariance, PTL

\* Of its own locks a killed run leaves only those that it cannot know to be
\* its own.
THEOREM OwnLocksTheorem == Spec => []OwnLocksGone
<1>1. IInv => OwnLocksGone
  BY DEF IInv, OwnListed, OwnLocksGone
<1> QED BY <1>1, Invariance, PTL

\* Locks from before every run stay: they are in no list of a clean-up, and
\* no build goes on under them.
THEOREM OldLocksTheorem == Spec => OldLocksStay
<1>1. IInv /\ [Next]_vars => [\A m \in Modules : lock[m] = Old => lock'[m] = Old]_vars
  <2> SUFFICES ASSUME IInv, Next, NEW m \in Modules, lock[m] = Old
               PROVE  lock'[m] = Old
    BY DEF vars
  <2>1. PICK q \in Runs : Step(q)
    BY DEF Next, Step
  <2> USE DEF IInv, TypeOK
  <2>2. CASE Start(q) \/ End(q) \/ TimeOut(q) \/ ListLocks(q) \/ Done(q)
    BY <2>2 DEF Start, End, TimeOut, ListLocks, Done
  <2>3. CASE \E n \in Modules : Announce(q, n) \/ CreateLock(q, n)
    BY <2>3 DEF Announce, CreateLock
  <2>4. CASE \E n \in Modules : FinishModule(q, n)
    BY <2>4 DEF FinishModule, BuildsHold
  <2>5. CASE \E n \in Modules : RemoveLock(q, n)
    BY <2>5 DEF RemoveLock, OldIsSeen
  <2> QED BY <2>1, <2>2, <2>3, <2>4, <2>5 DEF Step
<1> QED BY <1>1, Invariance, PTL DEF Spec, OldLocksStay
=============================================================================
