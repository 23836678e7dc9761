---------------------------- MODULE PlanProofs -----------------------------
(***************************************************************************)
(* Proofs about the planners: Shards, for lists of any length over any     *)
(* modules and trees; Batches, for any roots and sizes; and MergeOrder,    *)
(* for any pull requests.                                                  *)
(***************************************************************************)
EXTENDS Shards, Batches, MergeOrder, WellFoundedInduction, FiniteSetTheorems, TLAPS

-----------------------------------------------------------------------------
(* Least numbers                                                           *)

\* A set of numbers has a least one.
LEMMA LeastNumber ==
  ASSUME NEW R \in SUBSET Nat, R # {}
  PROVE  \E r \in R : \A x \in R : r <= x
<1>1. PICK r \in R : \A x \in R : ~(<<x, r>> \in OpToRel(<, Nat))
  BY NatLessThanWellFounded, WFMin
<1>2. \A x \in R : ~(x < r)
  BY <1>1 DEF OpToRel
<1> QED BY <1>2

\* So Min returns it.
LEMMA MinIsLeast ==
  ASSUME NEW R \in SUBSET Nat, R # {}
  PROVE  Min(R) \in R /\ \A x \in R : Min(R) <= x
BY LeastNumber DEF Min

-----------------------------------------------------------------------------
(* Shards                                                                  *)

USE ConstantsAssumption

-----------------------------------------------------------------------------
(* What a walk reaches                                                     *)

LEMMA WalkClosed ==
  ASSUME NEW t \in Trees, NEW m \in Modules, NEW stop, p \in Problem
  PROVE  /\ ClosedIn(Walk(t, m, stop), t, stop)
         /\ m \notin stop => m \in Walk(t, m, stop)
         /\ Walk(t, m, stop) \subseteq Modules \ stop
<1>1. p.deps[t] \in [Modules -> SUBSET Modules]
  BY DEF Problem
<1> QED BY <1>1 DEF Walk, ClosedIn

LEMMA WalkLeast ==
  ASSUME NEW t, NEW m, NEW stop, NEW S \in SUBSET Modules,
         ClosedIn(S, t, stop), {m} \ stop \subseteq S
  PROVE  Walk(t, m, stop) \subseteq S
BY DEF Walk

\* The more is installed, the less a walk reaches.
LEMMA WalkShrinks ==
  ASSUME NEW t \in Trees, NEW m \in Modules, NEW less, NEW more, less \subseteq more,
         p \in Problem
  PROVE  Walk(t, m, more) \subseteq Walk(t, m, less)
<1>1. ClosedIn(Walk(t, m, less), t, more)
  BY WalkClosed DEF ClosedIn
<1>2. {m} \ more \subseteq Walk(t, m, less)
  BY WalkClosed
<1>3. Walk(t, m, less) \subseteq Modules
  BY WalkClosed
<1> QED BY <1>1, <1>2, <1>3, WalkLeast

\* The same for what a line builds.
LEMMA LineWalk ==
  ASSUME NEW i \in Lines, NEW stop, p \in Problem
  PROVE  /\ ClosedIn(Walk(p.tree[i], p.root[i], stop), p.tree[i], stop)
         /\ p.root[i] \notin stop => p.root[i] \in Walk(p.tree[i], p.root[i], stop)
<1> DEFINE t == p.tree[i]  m == p.root[i]
<1>1. t \in Trees /\ m \in Modules
  BY DEF Problem
<1> HIDE DEF t, m
<1>2. /\ ClosedIn(Walk(t, m, stop), t, stop)
      /\ m \notin stop => m \in Walk(t, m, stop)
  BY <1>1, WalkClosed
<1> QED BY <1>2 DEF t, m

\* What is reached from a module that was reached was reached before.
LEMMA WalkFromWithin ==
  ASSUME NEW t \in Trees, NEW m \in Modules, NEW stop, p \in Problem,
         NEW x \in Walk(t, m, stop)
  PROVE  Walk(t, x, stop) \subseteq Walk(t, m, stop)
<1>1. Walk(t, m, stop) \subseteq Modules /\ ClosedIn(Walk(t, m, stop), t, stop)
  BY WalkClosed
<1> QED BY <1>1, WalkLeast

\* In numbered modules a walk goes down.
LEMMA WalkGoesDown ==
  ASSUME NEW t \in Trees, NEW m \in Modules, NEW stop, p \in Problem, TreesAgree
  PROVE  \A x \in Walk(t, m, stop) : x <= m
<1> DEFINE S == {x \in Modules : x <= m}
<1>1. p.deps[t] \in [Modules -> SUBSET Modules]
  BY DEF Problem
<1>2. ClosedIn(S, t, stop)
  <2> SUFFICES ASSUME NEW x \in S, NEW n \in p.deps[t][x] PROVE n \in S
    BY DEF ClosedIn
  <2>1. n \in Modules /\ n < x
    BY <1>1 DEF TreesAgree
  <2>2. n \in Nat /\ x \in Nat /\ m \in Nat
    BY <2>1
  <2> QED BY <2>1, <2>2
<1>3. {m} \ stop \subseteq S
  OBVIOUS
<1> QED BY <1>2, <1>3, WalkLeast

\* What a module loads is found on the way that builds stop at, or from an
\* installed module that it loads.
LEMMA LoadedOnTheWay ==
  ASSUME NEW t \in Trees, NEW m \in Modules, p \in Problem, NEW x \in Loads(t, m)
  PROVE  \/ x \in Walk(t, m, NotRebuilt)
         \/ \E n \in NotRebuilt \cap Loads(t, m) : x \in Loads(t, n)
<1> DEFINE W == Walk(t, m, NotRebuilt)
           K == NotRebuilt \cap Loads(t, m)
           C == W \cup UNION {Loads(t, n) : n \in K}
<1>1. \A n \in Modules :
        ClosedIn(Loads(t, n), t, {}) /\ n \in Loads(t, n) /\ Loads(t, n) \subseteq Modules
  BY WalkClosed DEF Loads
<1>2. ClosedIn(W, t, NotRebuilt) /\ W \subseteq Modules /\ {m} \ NotRebuilt \subseteq W
  BY WalkClosed
<1>3. W \subseteq Loads(t, m)
  BY WalkShrinks DEF Loads
<1>4. K \subseteq Modules /\ \A n \in K : n \in Loads(t, n)
  BY <1>1
<1> HIDE DEF W
<1>5. m \in C
  BY <1>1, <1>2, <1>4
<1>6. C \subseteq Modules
  BY <1>1, <1>2, <1>4
<1>7. ClosedIn(C, t, {})
  <2> SUFFICES ASSUME NEW y \in C, NEW z \in p.deps[t][y] PROVE z \in C
    BY DEF ClosedIn
  <2>1. CASE y \in W
    <3>1. z \in NotRebuilt \/ z \in W
      BY <1>2, <2>1 DEF ClosedIn
    <3>2. z \in Loads(t, m)
      BY <1>1, <1>3, <2>1 DEF ClosedIn
    <3> QED BY <1>4, <3>1, <3>2
  <2>2. ASSUME NEW n \in K, y \in Loads(t, n) PROVE z \in C
    BY <1>1, <1>4, <2>2 DEF ClosedIn
  <2> QED BY <2>1, <2>2
<1>8. Loads(t, m) \subseteq C
  BY <1>5, <1>6, <1>7, WalkLeast DEF Loads
<1> QED BY <1>8 DEF W

-----------------------------------------------------------------------------
(* The inductive invariant                                                 *)

TypeOK ==
  /\ p \in Problem
  /\ pc \in {"group", "pack", "prelude", "shards"}
  /\ group \in [Lines -> Lines]
  /\ shared \in SUBSET Modules
  /\ DOMAIN shardOf = Lines
  /\ have \in SUBSET Modules
  /\ builder \in [Modules -> Lines \cup {None, Prelude}]
  /\ pc = "shards" =>
       /\ line \in [DOMAIN loads -> Lines \cup {None}]
       /\ todo \in [DOMAIN loads -> SUBSET Modules]
       /\ busy \in [DOMAIN loads -> Modules \cup {None}]

\* The groups are finished and keep together what is in conflict.
Grouped ==
  /\ toBuild = [i \in Lines |-> Closure(i)]
  /\ pc # "group" => \A i, j \in Lines : Conflict(i, j) => group[i] = group[j]
  /\ NotRebuilt \subseteq have

\* What groups share is built by the prelude or is still in it, and no line
\* has built it.
PreludeFirst ==
  /\ pc \in {"pack", "prelude"} => shared \subseteq SharedModules
  /\ pc # "group" => SharedModules \subseteq shared \cup have
  /\ pc = "shards" => shared = {}
  /\ pc # "shards" => \A m \in Modules : builder[m] \notin Lines

\* A line builds what its group alone needs, in the shard of the group.
OwnWork ==
  /\ \A m \in Modules :
       builder[m] \in Lines => m \in toBuild[builder[m]] \ SharedModules
  /\ pc = "shards" =>
       \A s \in DOMAIN loads :
         /\ todo[s] # {} => line[s] # None
         /\ line[s] # None => /\ shardOf[group[line[s]]] = s
                              /\ todo[s] \subseteq toBuild[line[s]] \ SharedModules
         /\ busy[s] # None => busy[s] \in todo[s]

IInv == TypeOK /\ Grouped /\ PreludeFirst /\ OwnWork

LEMMA NamesDiffer == None \notin Lines /\ Prelude \notin Lines /\ None \notin Modules
BY DEF None, Prelude, Lines

\* A root is in the closures of one group only.
LEMMA RootsNotShared ==
  ASSUME IInv, pc # "group", NEW i \in Lines
  PROVE  p.root[i] \notin SharedModules
<1> SUFFICES ASSUME p.root[i] \in SharedModules PROVE FALSE
  OBVIOUS
<1>1. PICK g, h \in Groups : g # h /\ p.root[i] \in Needs(g) \cap Needs(h)
  BY DEF SharedModules
<1>2. PICK j \in Lines : group[j] = g /\ p.root[i] \in toBuild[j]
  BY <1>1 DEF Needs, Members
<1>3. PICK k \in Lines : group[k] = h /\ p.root[i] \in toBuild[k]
  BY <1>1 DEF Needs, Members
<1>4. group[i] = g /\ group[i] = h
  BY <1>2, <1>3 DEF IInv, Grouped, Conflict
<1> QED BY <1>1, <1>4

\* What two lines of different groups need is shared.
LEMMA NeededByTwo ==
  ASSUME TypeOK, NEW i \in Lines, NEW j \in Lines, group[i] # group[j],
         NEW m \in Modules, m \in toBuild[i], m \in toBuild[j]
  PROVE  m \in SharedModules
<1>1. group[i] \in Groups /\ group[j] \in Groups
  BY DEF Groups
<1>2. m \in Needs(group[i]) /\ m \in Needs(group[j])
  BY DEF Needs, Members
<1> QED BY <1>1, <1>2 DEF SharedModules

LEMMA InitInv == Init => IInv
<1> SUFFICES ASSUME Init PROVE IInv
  OBVIOUS
<1>1. TypeOK
  BY NamesDiffer DEF Init, TypeOK, Problem, Lines, None
<1>2. Grouped
  BY DEF Init, Grouped, NotRebuilt
<1>3. PreludeFirst /\ OwnWork
  BY NamesDiffer DEF Init, PreludeFirst, OwnWork
<1> QED BY <1>1, <1>2, <1>3 DEF IInv

-----------------------------------------------------------------------------
(* Each step keeps it                                                      *)

LEMMA SameShared ==
  ASSUME UNCHANGED <<group, toBuild>>
  PROVE  SharedModules' = SharedModules
BY DEF SharedModules, Needs, Groups, Members

LEMMA SameClosures ==
  ASSUME UNCHANGED p
  PROVE  NotRebuilt' = NotRebuilt /\ \A i \in Lines : Closure(i)' = Closure(i)
<1>1. NotRebuilt' = NotRebuilt
  BY DEF NotRebuilt
<1>2. ASSUME NEW t, NEW S PROVE ClosedIn(S, t, NotRebuilt)' = ClosedIn(S, t, NotRebuilt)
  BY <1>1 DEF ClosedIn
<1>3. ASSUME NEW t, NEW m
      PROVE  Walk(t, m, NotRebuilt)' = Walk(t, m, NotRebuilt)
  BY <1>1, <1>2 DEF Walk
<1> QED BY <1>1, <1>3 DEF Closure

LEMMA SameGrouping ==
  ASSUME Grouped, UNCHANGED <<p, toBuild, group>>, pc # "group", have \subseteq have'
  PROVE  Grouped'
<1>1. \A i, j \in Lines : Conflict(i, j)' = Conflict(i, j)
  BY DEF Conflict
<1> QED BY <1>1, SameClosures DEF Grouped

LEMMA MergeKeeps == ASSUME IInv, Merge PROVE IInv'
<1> USE DEF IInv
<1>1. TypeOK'
  BY DEF Merge, TypeOK, builds
<1>2. Grouped'
  BY SameClosures DEF Merge, Grouped, builds
<1>3. PreludeFirst' /\ OwnWork'
  BY DEF Merge, PreludeFirst, OwnWork, builds
<1> QED BY <1>1, <1>2, <1>3

LEMMA SplitKeeps == ASSUME IInv, Split PROVE IInv'
<1> USE DEF IInv
<1>1. SharedModules' = SharedModules
  BY SameShared DEF Split
<1>2. TypeOK'
  BY DEF Split, TypeOK, builds, SharedModules
<1>3. Grouped'
  BY SameClosures DEF Split, Grouped, builds, Conflict
<1>4. PreludeFirst' /\ OwnWork'
  BY <1>1 DEF Split, PreludeFirst, OwnWork, builds
<1> QED BY <1>2, <1>3, <1>4

LEMMA PackKeeps == ASSUME IInv, Pack \/ Packed PROVE IInv'
<1> USE DEF IInv
<1>1. SharedModules' = SharedModules
  BY SameShared DEF Pack, Packed
<1>2. TypeOK'
  BY DEF Pack, Packed, TypeOK, builds
<1>3. Grouped'
  BY SameGrouping DEF Pack, Packed, builds
<1>4. PreludeFirst' /\ OwnWork'
  BY <1>1 DEF Pack, Packed, PreludeFirst, OwnWork, builds
<1> QED BY <1>2, <1>3, <1>4

LEMMA BuildPreludeKeeps == ASSUME IInv, BuildPrelude PROVE IInv'
<1> USE DEF IInv
<1>1. SharedModules' = SharedModules
  BY SameShared DEF BuildPrelude
<1>2. PICK m \in shared, t \in Trees :
        /\ shared' = shared \ {m}
        /\ have' = have \cup Walk(t, m, have)
        /\ builder' = [x \in Modules |->
                         IF x \in Walk(t, m, have) THEN Prelude ELSE builder[x]]
  BY DEF BuildPrelude
<1>3. Walk(t, m, have) \subseteq Modules /\ (m \notin have => m \in Walk(t, m, have))
  BY <1>2, WalkClosed DEF TypeOK
<1>4. TypeOK'
  BY <1>2, <1>3 DEF BuildPrelude, TypeOK
<1>5. Grouped'
  BY <1>2, SameGrouping DEF BuildPrelude
<1>6. PreludeFirst'
  BY <1>1, <1>2, <1>3, NamesDiffer DEF BuildPrelude, PreludeFirst, TypeOK
<1>7. OwnWork'
  BY <1>2, NamesDiffer DEF BuildPrelude, PreludeFirst, OwnWork, TypeOK
<1> QED BY <1>4, <1>5, <1>6, <1>7

LEMMA PreludeBuiltKeeps == ASSUME IInv, PreludeBuilt PROVE IInv'
<1> USE DEF IInv
<1>1. SharedModules' = SharedModules
  BY SameShared DEF PreludeBuilt
<1>2. TypeOK'
  BY DEF PreludeBuilt, TypeOK
<1>3. Grouped'
  BY SameGrouping DEF PreludeBuilt
<1>4. PreludeFirst'
  BY <1>1 DEF PreludeBuilt, PreludeFirst
<1>5. OwnWork'
  BY <1>1, NamesDiffer DEF PreludeBuilt, PreludeFirst, OwnWork, TypeOK
<1> QED BY <1>2, <1>3, <1>4, <1>5

\* What a line looks for when it starts is in its closure, and not shared.
LEMMA MissingIsOwn ==
  ASSUME IInv, pc = "shards", NEW i \in Lines
  PROVE  LET stop == IF i \in p.forced THEN have \ {p.root[i]} ELSE have
         IN  Walk(p.tree[i], p.root[i], stop) \subseteq toBuild[i] \ SharedModules
<1> DEFINE stop == IF i \in p.forced THEN have \ {p.root[i]} ELSE have
<1>1. p.tree[i] \in Trees /\ p.root[i] \in Modules /\ p \in Problem
  BY DEF IInv, TypeOK, Problem
<1>2. NotRebuilt \subseteq stop
  BY DEF IInv, Grouped, NotRebuilt
<1>3. Walk(p.tree[i], p.root[i], stop) \subseteq toBuild[i]
  BY <1>1, <1>2, WalkShrinks DEF IInv, Grouped, Closure
<1>4. SharedModules \subseteq stop
  BY RootsNotShared DEF IInv, PreludeFirst
<1>5. Walk(p.tree[i], p.root[i], stop) \cap stop = {}
  <2> HIDE DEF stop
  <2>1. Walk(p.tree[i], p.root[i], stop) \subseteq Modules \ stop
    BY DEF Walk
  <2> QED BY <2>1
<1> QED BY <1>3, <1>4, <1>5

LEMMA StartLineKeeps ==
  ASSUME IInv, NEW s \in DOMAIN loads, StartLine(s) PROVE IInv'
<1> USE DEF IInv
<1>1. SharedModules' = SharedModules
  BY SameShared DEF StartLine, plan
<1>2. PICK i \in Lines :
        /\ NextLine(s, i)
        /\ line' = [line EXCEPT ![s] = i]
        /\ todo' = [todo EXCEPT ![s] =
             Walk(p.tree[i], p.root[i],
                  IF i \in p.forced THEN have \ {p.root[i]} ELSE have)]
  BY DEF StartLine
<1>3. todo'[s] \subseteq toBuild[i] \ SharedModules
  BY <1>2, MissingIsOwn DEF StartLine, TypeOK
<1>4. toBuild[i] \subseteq Modules
  BY DEF Grouped, Closure, Walk
<1>5. TypeOK'
  BY <1>2, <1>3, <1>4 DEF StartLine, plan, TypeOK
<1>6. Grouped'
  BY SameGrouping DEF StartLine, plan
<1>7. PreludeFirst'
  BY <1>1 DEF StartLine, plan, PreludeFirst
<1>8. OwnWork'
  <2>1. shardOf[group[i]] = s
    BY <1>2 DEF NextLine, Remaining
  <2>2. i # None
    BY NamesDiffer
  <2>3. busy[s] = None
    BY NamesDiffer DEF StartLine, OwnWork
  <2> QED
    BY <1>1, <1>2, <1>3, <2>1, <2>2, <2>3 DEF StartLine, plan, OwnWork, TypeOK
<1> QED BY <1>5, <1>6, <1>7, <1>8

LEMMA BuildModuleKeeps ==
  ASSUME IInv, NEW s \in DOMAIN loads, BuildModule(s) PROVE IInv'
<1> USE DEF IInv
<1>1. SharedModules' = SharedModules
  BY SameShared DEF BuildModule, plan
<1>2. TypeOK'
  BY DEF BuildModule, plan, TypeOK
<1>3. Grouped'
  BY SameGrouping DEF BuildModule, plan
<1>4. PreludeFirst' /\ OwnWork'
  BY <1>1 DEF BuildModule, plan, PreludeFirst, OwnWork, TypeOK
<1> QED BY <1>2, <1>3, <1>4

LEMMA FinishModuleKeeps ==
  ASSUME IInv, NEW s \in DOMAIN loads, FinishModule(s) PROVE IInv'
<1> USE DEF IInv
<1>1. SharedModules' = SharedModules
  BY SameShared DEF FinishModule, plan
<1>2. /\ busy[s] \in Modules /\ busy[s] \in todo[s]
      /\ line[s] \in Lines /\ busy[s] \in toBuild[line[s]] \ SharedModules
  BY DEF FinishModule, OwnWork, TypeOK
<1>3. TypeOK'
  BY <1>2 DEF FinishModule, plan, TypeOK
<1>4. Grouped'
  BY SameGrouping DEF FinishModule, plan
<1>5. PreludeFirst'
  BY <1>1 DEF FinishModule, plan, PreludeFirst
<1>6. OwnWork'
  <2>1. \A m \in Modules :
          builder'[m] \in Lines => m \in toBuild[builder'[m]] \ SharedModules
    BY <1>2 DEF FinishModule, OwnWork, TypeOK
  <2> QED BY <1>1, <1>2, <2>1 DEF FinishModule, plan, OwnWork, TypeOK
<1> QED BY <1>3, <1>4, <1>5, <1>6

LEMMA FinishLineKeeps ==
  ASSUME IInv, NEW s \in DOMAIN loads, FinishLine(s) PROVE IInv'
<1> USE DEF IInv
<1>1. SharedModules' = SharedModules
  BY SameShared DEF FinishLine, plan
<1>2. TypeOK'
  BY DEF FinishLine, plan, TypeOK
<1>3. Grouped'
  BY SameGrouping DEF FinishLine, plan
<1>4. PreludeFirst' /\ OwnWork'
  BY <1>1 DEF FinishLine, plan, PreludeFirst, OwnWork, TypeOK
<1> QED BY <1>2, <1>3, <1>4

LEMMA StepInv == IInv /\ [Next]_vars => IInv'
<1> SUFFICES ASSUME IInv, [Next]_vars PROVE IInv'
  OBVIOUS
<1>1. CASE UNCHANGED vars
  <2>1. SharedModules' = SharedModules
    BY <1>1, SameShared DEF vars, plan
  <2>2. TypeOK' /\ PreludeFirst' /\ OwnWork'
    BY <1>1, <2>1 DEF vars, plan, builds, IInv, TypeOK, PreludeFirst, OwnWork
  <2>3. Grouped'
    BY <1>1, SameClosures DEF vars, plan, builds, IInv, Grouped, Conflict
  <2> QED BY <2>2, <2>3 DEF IInv
<1>2. CASE Next
  BY <1>2, MergeKeeps, SplitKeeps, PackKeeps, BuildPreludeKeeps, PreludeBuiltKeeps,
     StartLineKeeps, BuildModuleKeeps, FinishModuleKeeps, FinishLineKeeps DEF Next
<1> QED BY <1>1, <1>2

LEMMA Invariance == Spec => []IInv
<1> QED BY InitInv, StepInv, PTL DEF Spec

-----------------------------------------------------------------------------
(* The theorems                                                            *)

\* No two shards build the same module, however the trees of the lines differ.
THEOREM OneShardTheorem == Spec => []BuiltInOneShard
<1>1. ASSUME IInv PROVE BuiltInOneShard
  <2> SUFFICES ASSUME pc = "shards",
                      NEW s \in DOMAIN loads, NEW u \in DOMAIN loads,
                      s # u, busy[s] # None
               PROVE  /\ busy[u] # busy[s]
                      /\ builder[busy[s]] \in Lines =>
                            shardOf[group[builder[busy[s]]]] = s
    BY DEF BuiltInOneShard
  <2> USE <1>1 DEF IInv
  <2>1. /\ busy[s] \in Modules /\ line[s] \in Lines /\ shardOf[group[line[s]]] = s
        /\ busy[s] \in toBuild[line[s]] \ SharedModules
    BY DEF OwnWork, TypeOK
  <2>2. busy[u] # busy[s]
    <3> SUFFICES ASSUME busy[u] = busy[s] PROVE FALSE
      OBVIOUS
    <3>1. /\ line[u] \in Lines /\ shardOf[group[line[u]]] = u
          /\ busy[s] \in toBuild[line[u]]
      BY DEF OwnWork, TypeOK
    <3>2. group[line[s]] # group[line[u]]
      BY <2>1, <3>1
    <3> QED BY <2>1, <3>1, <3>2, NeededByTwo
  <2>3. ASSUME builder[busy[s]] \in Lines
        PROVE  group[builder[busy[s]]] = group[line[s]]
    BY <2>1, <2>3, NeededByTwo DEF OwnWork
  <2> QED BY <2>1, <2>2, <2>3
<1> QED BY <1>1, Invariance, PTL

\* A shard loads what another one is building only through an installed module.
THEOREM QuietLoadsTheorem == Spec => []LoadsAreQuiet
<1>1. ASSUME IInv PROVE LoadsAreQuiet
  <2> SUFFICES ASSUME pc = "shards",
                      NEW s \in DOMAIN loads, NEW u \in DOMAIN loads,
                      s # u, busy[s] # None, busy[u] # None,
                      busy[u] \in Loads(p.tree[line[s]], busy[s])
               PROVE  \E m \in NotRebuilt \cap Loads(p.tree[line[s]], busy[s]) :
                        busy[u] \in Loads(p.tree[line[s]], m)
    BY DEF LoadsAreQuiet, NotRebuilt, StaysInstalled
  <2> USE <1>1 DEF IInv
  <2> DEFINE i == line[s]
             k == line[u]
             W == Walk(p.tree[i], busy[s], NotRebuilt)
  <2>1. /\ i \in Lines /\ busy[s] \in Modules
        /\ busy[s] \in toBuild[i] /\ shardOf[group[i]] = s
        /\ k \in Lines /\ busy[u] \in Modules
        /\ busy[u] \in toBuild[k] \ SharedModules /\ shardOf[group[k]] = u
    BY DEF OwnWork, TypeOK
  <2>2. /\ p \in Problem /\ p.tree[i] \in Trees /\ p.root[i] \in Modules
        /\ p.tree[k] \in Trees /\ p.root[k] \in Modules
    BY <2>1 DEF TypeOK, Problem
  <2>3. \/ busy[u] \in W
        \/ \E m \in NotRebuilt \cap Loads(p.tree[i], busy[s]) :
             busy[u] \in Loads(p.tree[i], m)
    BY <2>1, <2>2, LoadedOnTheWay
  <2>4. W \subseteq toBuild[i]
    BY <2>1, <2>2, WalkFromWithin DEF Grouped, Closure
  <2>5. group[i] # group[k]
    BY <2>1
  <2>6. busy[u] \notin W
    BY <2>1, <2>4, <2>5, NeededByTwo
  <2> QED BY <2>3, <2>6
<1> QED BY <1>1, Invariance, PTL

-----------------------------------------------------------------------------
(* Roots: a second invariant, on top of the first                          *)

\* Who has finished a line, or is at it, has its root or is about to build it.
RootsDone ==
  /\ pc # "shards" => done = {}
  /\ \A i \in done : p.root[i] \in have
  /\ pc = "shards" =>
       \A s \in DOMAIN loads :
         line[s] # None => p.root[line[s]] \in have \cup todo[s]

\* A line that is going on has no root of another line to build.
NoForeignRoot ==
  TreesAgree /\ pc = "shards" =>
    \A s \in DOMAIN loads, i \in Lines :
      line[s] # None /\ p.root[i] \in todo[s] => p.root[i] = p.root[line[s]]

RInv == IInv /\ RootsDone /\ NoForeignRoot /\ RootsBuiltByTheirLines

\* When the trees agree, the prelude builds only what is shared.
LEMMA PreludeBuildsShared ==
  ASSUME IInv, pc = "prelude", TreesAgree, NEW m \in shared, NEW t \in Trees
  PROVE  Walk(t, m, have) \subseteq SharedModules
<1> USE DEF IInv
<1>1. PICK g \in Groups, h \in Groups : g # h /\ m \in Needs(g) \cap Needs(h)
  BY DEF PreludeFirst, SharedModules
<1>2. ASSUME NEW f \in Groups, m \in Needs(f)
      PROVE  Walk(t, m, have) \subseteq Needs(f)
  <2>1. PICK i \in Lines : i \in Members(f) /\ m \in toBuild[i]
    BY <1>2 DEF Needs, Members
  <2>2. p \in Problem /\ p.tree[i] \in Trees /\ p.root[i] \in Modules /\ m \in Modules
    BY DEF TypeOK, Problem
  <2>3. toBuild[i] = Walk(p.tree[i], p.root[i], NotRebuilt)
    BY DEF Grouped, Closure
  <2>4. p.deps[p.tree[i]] = p.deps[t]
    BY <2>2 DEF TreesAgree
  <2>5. ClosedIn(toBuild[i], t, have) /\ toBuild[i] \subseteq Modules
    <3>1. ClosedIn(toBuild[i], p.tree[i], NotRebuilt)
      BY <2>2, <2>3, LineWalk
    <3>2. toBuild[i] \subseteq Modules
      BY <2>3 DEF Walk
    <3> QED BY <2>4, <3>1, <3>2 DEF ClosedIn, Grouped
  <2>6. Walk(t, m, have) \subseteq toBuild[i]
    BY <2>1, <2>5, WalkLeast
  <2> QED BY <2>1, <2>6 DEF Needs
<1>3. Walk(t, m, have) \subseteq Needs(g) /\ Walk(t, m, have) \subseteq Needs(h)
  BY <1>1, <1>2
<1>4. Walk(t, m, have) \subseteq Modules
  BY DEF Walk
<1> QED BY <1>1, <1>3, <1>4 DEF SharedModules

\* When the trees agree, some line of a shard waits for no other.
LEMMA SomeLineMayGo ==
  ASSUME IInv, TreesAgree, NEW s, Remaining(s) # {}
  PROVE  \E j \in Remaining(s) : MayGoNext(s, j)
<1> USE DEF IInv
<1> DEFINE R == {p.root[j] : j \in Remaining(s)}
<1>1. p \in Problem /\ \A j \in Lines : p.root[j] \in Modules /\ p.tree[j] \in Trees
  BY DEF TypeOK, Problem
<1>2. Remaining(s) \subseteq Lines
  BY DEF Remaining
<1>3. R \in SUBSET Nat /\ R # {}
  BY <1>1, <1>2
<1>4. PICK j \in Remaining(s) : \A a \in Remaining(s) : p.root[j] <= p.root[a]
  <2>1. PICK r \in R : \A x \in R : r <= x
    <3> HIDE DEF R
    <3> QED BY <1>3, LeastNumber
  <2> QED BY <2>1
<1>5. ASSUME NEW a \in Remaining(s), WaitsFor(j, a) PROVE FALSE
  <2>1. toBuild[j] = Walk(p.tree[j], p.root[j], NotRebuilt)
    BY <1>2 DEF Grouped, Closure
  <2>2. p.root[a] <= p.root[j]
    BY <1>1, <1>2, <1>5, <2>1, WalkGoesDown DEF WaitsFor
  <2>3. p.root[a] \in Nat /\ p.root[j] \in Nat /\ p.root[a] # p.root[j]
    BY <1>1, <1>2, <1>5 DEF WaitsFor
  <2> QED BY <1>4, <2>2, <2>3
<1> QED BY <1>5 DEF MayGoNext

\* A line that starts has no root of another line to build.
LEMMA NextLineHasNoForeignRoot ==
  ASSUME IInv, RootsDone, TreesAgree, pc = "shards", NEW s \in DOMAIN loads,
         NEW i \in Lines, NextLine(s, i), NEW a \in Lines, p.root[a] # p.root[i]
  PROVE  p.root[a] \notin Walk(p.tree[i], p.root[i],
                             IF i \in p.forced THEN have \ {p.root[i]} ELSE have)
<1> DEFINE stop == IF i \in p.forced THEN have \ {p.root[i]} ELSE have
<1> SUFFICES ASSUME p.root[a] \in Walk(p.tree[i], p.root[i], stop) PROVE FALSE
  OBVIOUS
<1>1. p.root[a] \in toBuild[i]
  BY MissingIsOwn
<1>2. a \notin done
  <2>1. p.root[a] \notin stop
    BY DEF Walk
  <2> QED BY <2>1 DEF RootsDone
<1>3. group[a] = group[i]
  BY <1>1 DEF IInv, Grouped, Conflict
<1>4. a \in Remaining(s) /\ i \in Remaining(s)
  BY <1>2, <1>3 DEF NextLine, Remaining
<1>5. WaitsFor(i, a)
  BY <1>1 DEF WaitsFor
<1>6. ~MayGoNext(s, i)
  BY <1>4, <1>5 DEF MayGoNext
<1> QED BY <1>4, <1>6, SomeLineMayGo DEF NextLine

LEMMA RootInit == Init => RInv
<1> SUFFICES ASSUME Init PROVE RInv
  OBVIOUS
<1>1. \A i \in Lines : builder[p.root[i]] = None
  BY InitInv DEF Init, IInv, TypeOK, Problem
<1> QED BY <1>1, InitInv DEF Init, RInv, RootsDone, NoForeignRoot, RootsBuiltByTheirLines

LEMMA RootStep == RInv /\ [Next]_vars => RInv'
<1> SUFFICES ASSUME RInv, [Next]_vars PROVE RInv'
  OBVIOUS
<1> USE DEF RInv
<1>1. IInv'
  BY StepInv
<1>2. p' = p /\ (TreesAgree' => TreesAgree)
  BY DEF Next, vars, plan, Merge, Split, Pack, Packed, BuildPrelude, PreludeBuilt,
         StartLine, BuildModule, FinishModule, FinishLine, TreesAgree
<1>3. \A i \in Lines : p.root[i] \in Modules
  BY DEF IInv, TypeOK, Problem
<1> USE DEF RootsDone, NoForeignRoot, RootsBuiltByTheirLines
<1>4. CASE UNCHANGED vars
  BY <1>1, <1>2, <1>4 DEF vars, plan, builds
<1>5. CASE Merge \/ Split \/ Pack \/ Packed
  BY <1>1, <1>2, <1>5 DEF Merge, Split, Pack, Packed, builds
<1>6. CASE BuildPrelude
  <2>1. PICK m \in shared, t \in Trees :
          /\ have' = have \cup Walk(t, m, have)
          /\ builder' = [x \in Modules |->
                           IF x \in Walk(t, m, have) THEN Prelude ELSE builder[x]]
    BY <1>6 DEF BuildPrelude
  <2>2. TreesAgree => \A i \in Lines : p.root[i] \notin Walk(t, m, have)
    BY <1>6, <2>1, PreludeBuildsShared, RootsNotShared DEF BuildPrelude
  <2>3. RootsBuiltByTheirLines'
    BY <1>2, <1>3, <2>1, <2>2
  <2> QED BY <1>1, <1>2, <1>6, <2>1, <2>3 DEF BuildPrelude
<1>7. CASE PreludeBuilt
  BY <1>1, <1>2, <1>7 DEF PreludeBuilt
<1>8. ASSUME NEW s \in DOMAIN loads, StartLine(s) PROVE RInv'
  <2>1. PICK i \in Lines :
          /\ NextLine(s, i)
          /\ line' = [line EXCEPT ![s] = i]
          /\ todo' = [todo EXCEPT ![s] =
               Walk(p.tree[i], p.root[i],
                    IF i \in p.forced THEN have \ {p.root[i]} ELSE have)]
    BY <1>8 DEF StartLine
  <2>2. /\ pc = "shards" /\ pc' = pc /\ loads' = loads /\ have' = have
        /\ done' = done /\ builder' = builder
        /\ DOMAIN line = DOMAIN loads /\ DOMAIN todo = DOMAIN loads
    BY <1>8 DEF StartLine, plan, IInv, TypeOK
  <2>3. p.root[i] \in have \cup todo'[s]
    <3> DEFINE stop == IF i \in p.forced THEN have \ {p.root[i]} ELSE have
    <3>1. p \in Problem /\ p.tree[i] \in Trees
      BY DEF IInv, TypeOK, Problem
    <3>2. p.root[i] \notin stop => p.root[i] \in Walk(p.tree[i], p.root[i], stop)
      <4> HIDE DEF stop
      <4> QED BY <3>1, LineWalk
    <3> QED BY <2>1, <2>2, <3>2
  <2>4. RootsDone'
    BY <1>2, <2>1, <2>2, <2>3
  <2>5. NoForeignRoot'
    <3> SUFFICES ASSUME TreesAgree, NEW u \in DOMAIN loads, NEW a \in Lines,
                        line'[u] # None, p.root[a] \in todo'[u]
                 PROVE  p.root[a] = p.root[line'[u]]
      BY <1>2, <2>2
    <3>1. CASE u = s
      BY <2>1, <2>2, <3>1, NextLineHasNoForeignRoot
    <3>2. CASE u # s
      BY <2>1, <2>2, <3>2
    <3> QED BY <3>1, <3>2
  <2> QED BY <1>1, <1>2, <2>2, <2>4, <2>5
<1>9. ASSUME NEW s \in DOMAIN loads, BuildModule(s) PROVE RInv'
  BY <1>1, <1>2, <1>9 DEF BuildModule, plan
<1>10. ASSUME NEW s \in DOMAIN loads, FinishModule(s) PROVE RInv'
  <2>1. busy[s] \in todo[s] /\ busy[s] \in Modules /\ line[s] \in Lines /\ pc = "shards"
    BY <1>10 DEF FinishModule, IInv, OwnWork, TypeOK
  <2>2. /\ DOMAIN todo = DOMAIN loads /\ builder \in [Modules -> Lines \cup {None, Prelude}]
        /\ have' = have \cup {busy[s]}
        /\ builder' = [builder EXCEPT ![busy[s]] = line[s]]
        /\ todo' = [todo EXCEPT ![s] = todo[s] \ {busy[s]}]
        /\ UNCHANGED <<pc, loads, line, done>>
    BY <1>10 DEF FinishModule, plan, IInv, TypeOK
  <2>3. RootsDone' /\ NoForeignRoot'
    BY <1>2, <2>1, <2>2
  <2>4. RootsBuiltByTheirLines'
    <3> SUFFICES ASSUME TreesAgree, NEW i \in Lines
                 PROVE  \/ builder'[p.root[i]] = None
                        \/ /\ builder'[p.root[i]] \in Lines
                           /\ p.root[builder'[p.root[i]]] = p.root[i]
      BY <1>2
    <3>1. CASE p.root[i] = busy[s]
      <4>1. line[s] # None
        BY <2>1, NamesDiffer
      <4>2. p.root[i] = p.root[line[s]]
        BY <2>1, <3>1, <4>1
      <4> QED BY <2>1, <2>2, <3>1, <4>2
    <3>2. CASE p.root[i] # busy[s]
      BY <1>3, <2>2, <3>2
    <3> QED BY <3>1, <3>2
  <2> QED BY <1>1, <2>3, <2>4
<1>11. ASSUME NEW s \in DOMAIN loads, FinishLine(s) PROVE RInv'
  <2>1. /\ DOMAIN line = DOMAIN loads /\ pc = "shards" /\ line[s] # None /\ todo[s] = {}
        /\ done' = done \cup {line[s]}
        /\ line' = [line EXCEPT ![s] = None]
        /\ UNCHANGED <<pc, loads, have, builder, todo>>
    BY <1>11 DEF FinishLine, plan, IInv, TypeOK
  <2> QED BY <1>1, <1>2, <2>1
<1> QED BY <1>4, <1>5, <1>6, <1>7, <1>8, <1>9, <1>10, <1>11 DEF Next

\* When the trees agree, the module of a line is built by a line for it.
THEOREM RootsTheorem == Spec => []RootsBuiltByTheirLines
<1>1. RInv => RootsBuiltByTheirLines
  BY DEF RInv
<1> QED BY <1>1, RootInit, RootStep, PTL DEF Spec

HIDE ConstantsAssumption

-----------------------------------------------------------------------------
(* Batches                                                                 *)

\* Roots are looked at in their order.
InOrder == \A x \in DOMAIN rep, y \in Live \ DOMAIN rep : x < y

\* Two groups build nothing in common.
GroupsApart ==
  \A x, y \in DOMAIN rep :
    rep[x] # rep[y] => request.builds[x] \cap request.builds[y] = {}

\* No part of these roots can be taken out without building something twice.
Undivided(roots) ==
  \A part \in (SUBSET roots) \ {{}, roots} : Built(part) \cap Built(roots \ part) # {}

GroupsUndivided == \A c \in Components : Undivided(c)

\* A batch has whole groups, and more than one only within the size.
BinsOfGroups ==
  /\ bins # <<>> => DOMAIN rep = Live
  /\ \A n \in DOMAIN bins, x, y \in Live :
       x \in bins[n] /\ rep[x] = rep[y] => y \in bins[n]
  /\ \A n, k \in DOMAIN bins : n # k => bins[n] \cap bins[k] = {}
  /\ \A n \in DOMAIN bins : Cardinality(bins[n]) > Size => bins[n] \in Components

BInv == BatchTypeOK /\ InOrder /\ GroupsApart /\ GroupsUndivided /\ BinsOfGroups

\* The roots that may go are finitely many numbers.
LEMMA LiveFinite ==
  ASSUME request \in Requests
  PROVE  IsFiniteSet(Live) /\ Live \subseteq Nat /\ Size \in Nat
<1>1. /\ DOMAIN request.builds \subseteq Nat /\ IsFiniteSet(DOMAIN request.builds)
      /\ request.size \in Nat
  BY RequestsAssumption
<1>2. Live \subseteq DOMAIN request.builds
  BY DEF Live
<1> QED BY <1>1, <1>2, FS_Subset DEF Size

\* What may go and what it builds depend on the request only.
LEMMA SameRequest ==
  ASSUME request' = request
  PROVE  /\ Live' = Live /\ Size' = Size
         /\ \A S : Built(S)' = Built(S)
         /\ \A S : Undivided(S)' = Undivided(S)
<1>1. Live' = Live /\ Size' = Size
  BY DEF Live, Size
<1>2. \A S : Built(S)' = Built(S)
  BY DEF Built
<1>3. \A S : Undivided(S)' = Undivided(S)
  BY <1>2 DEF Undivided
<1> QED BY <1>1, <1>2, <1>3

LEMMA BatchInitInv == BatchInit => BInv
BY DEF BatchInit, BInv, BatchTypeOK, InOrder, GroupsApart, GroupsUndivided, Components,
       BinsOfGroups

\* What a root builds is owned by a root that was looked at before, or by itself.
LEMMA OwnerIsEarlier ==
  ASSUME BInv, NEW r \in Live \ DOMAIN rep, \A x \in Live \ DOMAIN rep : r <= x,
         NEW m \in request.builds[r]
  PROVE  /\ m \in request.builds[Owner(m)]
         /\ Owner(m) # r => Owner(m) \in DOMAIN rep
         /\ \A x \in DOMAIN rep : m \in request.builds[x] => Owner(m) # r
<1> DEFINE B == {x \in Live : m \in request.builds[x]}
<1>1. Live \subseteq Nat /\ DOMAIN rep \subseteq Live
  BY LiveFinite DEF BInv, BatchTypeOK
<1>2. Owner(m) \in B /\ \A x \in B : Owner(m) <= x
  <2>1. B \in SUBSET Nat /\ B # {}
    BY <1>1
  <2> HIDE DEF B
  <2>2. Min(B) \in B /\ \A x \in B : Min(B) <= x
    BY <2>1, MinIsLeast
  <2>3. Owner(m) = Min(B)
    BY DEF Owner, B
  <2> QED BY <2>2, <2>3
<1>3. Owner(m) \in Live /\ m \in request.builds[Owner(m)] /\ Owner(m) <= r
  BY <1>2
<1>4. Owner(m) \in DOMAIN rep \/ Owner(m) = r
  <2> DEFINE o == Owner(m)
  <2>1. o \in Live /\ o \in Nat /\ r \in Nat /\ o <= r
    BY <1>1, <1>3
  <2>2. o \notin DOMAIN rep => r <= o
    BY <2>1
  <2> HIDE DEF o
  <2>3. o \in DOMAIN rep \/ o = r
    BY <2>1, <2>2
  <2> QED BY <2>3 DEF o
<1>5. ASSUME NEW x \in DOMAIN rep, m \in request.builds[x] PROVE Owner(m) # r
  <2>1. x < r
    BY <1>1 DEF BInv, InOrder
  <2>2. Owner(m) <= x /\ x \in Nat /\ r \in Nat
    BY <1>1, <1>2, <1>5
  <2>3. r = Owner(m) => r <= x
    BY <2>2
  <2> QED BY <2>1, <2>2, <2>3
<1> QED BY <1>3, <1>4, <1>5

\* The groups after a root was united: those it does not meet, and one of all
\* that it meets.
LEMMA UniteGroups ==
  ASSUME BInv, NEW r \in Live \ DOMAIN rep, \A x \in Live \ DOMAIN rep : r <= x,
         rep' = United(r)
  PROVE  /\ DOMAIN rep' = DOMAIN rep \cup {r}
         /\ r \in Met(r) /\ Met(r) \subseteq DOMAIN rep \cup {r}
         /\ Min(Met(r)) \in Met(r)
         /\ \A x \in DOMAIN rep' :
              rep'[x] = IF x = r \/ rep[x] \in Met(r) THEN Min(Met(r)) ELSE rep[x]
<1>1. Live \subseteq Nat /\ DOMAIN rep \subseteq Live /\ rep \in [DOMAIN rep -> DOMAIN rep]
  BY LiveFinite DEF BInv, BatchTypeOK
<1>2. r \in Met(r) /\ Met(r) \subseteq DOMAIN rep \cup {r}
  BY <1>1, OwnerIsEarlier DEF Met
<1>3. Min(Met(r)) \in Met(r)
  <2>1. Met(r) \in SUBSET Nat /\ Met(r) # {}
    BY <1>1, <1>2
  <2> QED BY <2>1, MinIsLeast
<1> QED BY <1>2, <1>3 DEF United

\* Who shares a module with a root that is united is in a group that it meets.
LEMMA UniteApart ==
  ASSUME BInv, NEW r \in Live \ DOMAIN rep, \A x \in Live \ DOMAIN rep : r <= x,
         rep' = United(r), request' = request
  PROVE  GroupsApart'
<1>0. /\ DOMAIN rep' = DOMAIN rep \cup {r} /\ r \in Met(r)
      /\ \A x \in DOMAIN rep' :
           rep'[x] = IF x = r \/ rep[x] \in Met(r) THEN Min(Met(r)) ELSE rep[x]
  BY UniteGroups
<1>1. ASSUME NEW x \in DOMAIN rep, NEW m \in request.builds[r], m \in request.builds[x]
      PROVE  rep[x] \in Met(r)
  <2>1. Owner(m) # r /\ Owner(m) \in DOMAIN rep /\ m \in request.builds[Owner(m)]
    BY <1>1, OwnerIsEarlier
  <2>2. rep[x] = rep[Owner(m)]
    BY <1>1, <2>1 DEF BInv, GroupsApart
  <2> QED BY <2>1, <2>2 DEF Met
<1>2. ASSUME NEW x \in DOMAIN rep', NEW y \in DOMAIN rep', rep'[x] # rep'[y],
             NEW m \in request.builds[x] \cap request.builds[y]
      PROVE  FALSE
  <2>1. CASE x \in DOMAIN rep /\ y \in DOMAIN rep
    <3>1. rep[x] = rep[y]
      BY <2>1, <1>2 DEF BInv, GroupsApart
    <3>2. rep'[x] = rep'[y]
      BY <1>0, <2>1, <3>1
    <3> QED BY <1>2, <3>2
  <2>2. CASE x = r /\ y \in DOMAIN rep
    BY <1>0, <1>1, <1>2, <2>2
  <2>3. CASE y = r /\ x \in DOMAIN rep
    BY <1>0, <1>1, <1>2, <2>3
  <2>4. CASE x = r /\ y = r
    BY <1>2, <2>4
  <2> QED BY <1>0, <1>2, <2>1, <2>2, <2>3, <2>4
<1>3. request' = request
  OBVIOUS
<1> QED BY <1>2, <1>3 DEF GroupsApart

\* A part that is neither nothing nor all leaves a rest.
LEMMA SplitInTwo ==
  ASSUME NEW S, NEW part \in (SUBSET S) \ {{}, S}
  PROVE  /\ part \cup (S \ part) = S /\ part \cap (S \ part) = {}
         /\ part # {} /\ S \ part # {}
<1>1. part \subseteq S /\ part # S /\ part # {}
  OBVIOUS
<1>2. \E x \in S : x \notin part
  BY <1>1
<1> QED BY <1>1, <1>2

\* What a root meets shares a module with it, and is itself undivided.
LEMMA UniteUndivided ==
  ASSUME BInv, NEW r \in Live \ DOMAIN rep, \A x \in Live \ DOMAIN rep : r <= x,
         rep' = United(r), request' = request
  PROVE  GroupsUndivided'
<1> DEFINE G == {x \in DOMAIN rep' : x = r \/ rep[x] \in Met(r)}
<1>0. /\ DOMAIN rep' = DOMAIN rep \cup {r}
      /\ r \in Met(r) /\ Met(r) \subseteq DOMAIN rep \cup {r}
      /\ Min(Met(r)) \in Met(r)
      /\ \A x \in DOMAIN rep' :
           rep'[x] = IF x = r \/ rep[x] \in Met(r) THEN Min(Met(r)) ELSE rep[x]
      /\ rep \in [DOMAIN rep -> DOMAIN rep]
  BY UniteGroups DEF BInv, BatchTypeOK
\* A group that was met lies on both sides, or one of its modules is r's.
<1>1. ASSUME NEW P, NEW Q, P \cup Q = G, r \in P, P \cap Q = {}, Q # {}
      PROVE  Built(P) \cap Built(Q) # {}
  <2>1. PICK x \in Q : TRUE
    BY <1>1
  <2>2. x \in DOMAIN rep /\ rep[x] \in Met(r) /\ x # r
    BY <1>0, <1>1, <2>1
  <2>3. rep[x] # r
    BY <1>0, <2>2
  <2>4. PICK m \in request.builds[r] : Owner(m) # r /\ rep[x] = rep[Owner(m)]
    BY <2>2, <2>3 DEF Met
  <2>5. Owner(m) \in DOMAIN rep /\ m \in request.builds[Owner(m)]
    BY <2>4, OwnerIsEarlier
  <2> DEFINE c == Component(rep[x])
             part == c \cap P
  <2>6. c \in Components /\ x \in c /\ Owner(m) \in c
    BY <2>2, <2>4, <2>5 DEF Components, Component
  <2>7. c \subseteq G
    BY <1>0, <2>2 DEF Component
  <2>8. CASE Owner(m) \in Q
    <3>1. m \in Built(P) /\ m \in Built(Q)
      BY <1>1, <2>4, <2>5, <2>8 DEF Built
    <3> QED BY <3>1
  <2>9. CASE Owner(m) \notin Q
    <3>1. Owner(m) \in part /\ x \in c \ part
      BY <1>1, <2>6, <2>7, <2>9
    <3>2. part \in (SUBSET c) \ {{}, c}
      <4>1. part \subseteq c
        OBVIOUS
      <4>2. part # {} /\ part # c
        <5> HIDE DEF c, part
        <5> QED BY <3>1
      <4> QED BY <4>1, <4>2
    <3>3. Built(part) \cap Built(c \ part) # {}
      BY <2>6, <3>2 DEF BInv, GroupsUndivided, Undivided
    <3>4. part \subseteq P /\ c \ part \subseteq Q
      BY <1>1, <2>7
    <3>5. Built(part) \subseteq Built(P) /\ Built(c \ part) \subseteq Built(Q)
      BY <3>4 DEF Built
    <3> QED BY <3>3, <3>5
  <2> QED BY <2>8, <2>9
<1>2. Undivided(G)
  <2> SUFFICES ASSUME NEW part \in (SUBSET G) \ {{}, G}
               PROVE  Built(part) \cap Built(G \ part) # {}
    BY DEF Undivided
  <2>1. r \in G
    BY <1>0
  <2>2. CASE r \in part
    <3>1. part \cup (G \ part) = G /\ part \cap (G \ part) = {} /\ G \ part # {}
      BY SplitInTwo
    <3> HIDE DEF G
    <3> QED BY <1>1, <2>2, <3>1
  <2>3. CASE r \notin part
    <3>1. Built(G \ part) \cap Built(part) # {}
      <4>1. (G \ part) \cup part = G /\ r \in G \ part /\ (G \ part) \cap part = {} /\ part # {}
        BY <2>1, <2>3, SplitInTwo
      <4> HIDE DEF G
      <4> QED BY <1>1, <4>1
    <3> QED BY <3>1
  <2> QED BY <2>2, <2>3
<1>3. ASSUME NEW c \in Components' PROVE c = G \/ c \in Components
  <2>1. PICK x \in DOMAIN rep' : c = {y \in DOMAIN rep' : rep'[y] = rep'[x]}
    BY DEF Components, Component
  <2>2. CASE x \in G
    <3>1. rep'[x] = Min(Met(r))
      BY <1>0, <2>2
    <3>2. \A y \in DOMAIN rep' : rep'[y] = Min(Met(r)) <=> y \in G
      BY <1>0
    <3> QED BY <2>1, <3>1, <3>2
  <2>3. CASE x \notin G
    <3>1. x \in DOMAIN rep /\ rep'[x] = rep[x] /\ rep[x] \notin Met(r)
      BY <1>0, <2>1, <2>3
    <3>2. \A y \in DOMAIN rep' : rep'[y] = rep[x] <=> y \in DOMAIN rep /\ rep[y] = rep[x]
      BY <1>0, <3>1
    <3>3. c = Component(rep[x])
      BY <1>0, <2>1, <3>1, <3>2 DEF Component
    <3> QED BY <3>1, <3>3 DEF Components
  <2> QED BY <2>2, <2>3
<1>4. \A c \in Components' : Undivided(c)
  BY <1>2, <1>3 DEF BInv, GroupsUndivided
<1> QED BY <1>4, SameRequest DEF GroupsUndivided

LEMMA UniteKeeps == ASSUME BInv, Unite PROVE BInv'
<1>1. PICK r \in Live \ DOMAIN rep :
        (\A x \in Live \ DOMAIN rep : r <= x) /\ rep' = United(r)
  BY DEF Unite
<1>2. request' = request /\ bins' = bins
  BY DEF Unite
<1>3. /\ Live' = Live /\ Live \subseteq Nat /\ DOMAIN rep \subseteq Live
      /\ rep \in [DOMAIN rep -> DOMAIN rep]
      /\ request \in Requests /\ bins \in Seq(SUBSET Live)
  BY <1>2, SameRequest, LiveFinite DEF BInv, BatchTypeOK
<1>4. /\ DOMAIN rep' = DOMAIN rep \cup {r}
      /\ r \in Met(r) /\ Met(r) \subseteq DOMAIN rep \cup {r}
      /\ Min(Met(r)) \in Met(r)
      /\ \A x \in DOMAIN rep' :
           rep'[x] = IF x = r \/ rep[x] \in Met(r) THEN Min(Met(r)) ELSE rep[x]
  BY <1>1, UniteGroups
<1>5. BatchTypeOK'
  <2>1. \A x \in DOMAIN rep' : rep'[x] \in DOMAIN rep'
    BY <1>3, <1>4
  <2>2. rep' \in [DOMAIN rep' -> DOMAIN rep']
    <3>1. rep' = [x \in DOMAIN rep' |-> rep'[x]]
      BY <1>1, <1>4 DEF United
    <3> QED BY <2>1, <3>1
  <2> QED BY <1>2, <1>3, <1>4, <2>2 DEF BatchTypeOK
<1>6. InOrder'
  <2>1. ASSUME NEW x \in DOMAIN rep', NEW y \in Live \ DOMAIN rep' PROVE x < y
    <3>1. y \in Live \ DOMAIN rep /\ y # r /\ y \in Nat /\ r \in Nat
      BY <1>3, <1>4
    <3>2. CASE x = r
      BY <1>1, <3>1, <3>2
    <3>3. CASE x \in DOMAIN rep
      BY <3>1, <3>3 DEF BInv, InOrder
    <3> QED BY <1>4, <3>2, <3>3
  <2> QED BY <1>3, <2>1 DEF InOrder
<1>7. GroupsApart' /\ GroupsUndivided'
  BY <1>1, <1>2, UniteApart, UniteUndivided
<1>8. BinsOfGroups'
  <2>1. bins = <<>>
    BY DEF BInv, BinsOfGroups
  <2> QED BY <1>2, <2>1 DEF BinsOfGroups
<1> QED BY <1>5, <1>6, <1>7, <1>8 DEF BInv

LEMMA PlaceKeeps == ASSUME BInv, Place PROVE BInv'
<1>1. PICK c \in Unplaced : bins' = Placed(c)
  BY DEF Place
<1>2. request' = request /\ rep' = rep /\ DOMAIN rep = Live
  BY DEF Place
<1>3. /\ Live' = Live /\ Size' = Size /\ Components' = Components
      /\ \A S : Undivided(S)' = Undivided(S)
  BY <1>2, SameRequest DEF Components, Component
<1>4. /\ IsFiniteSet(Live) /\ Live \subseteq Nat /\ Size \in Nat
      /\ bins \in Seq(SUBSET Live) /\ request \in Requests
      /\ Len(bins) \in Nat /\ DOMAIN bins = 1..Len(bins)
      /\ \A n \in DOMAIN bins : bins[n] \subseteq Live
  BY LiveFinite DEF BInv, BatchTypeOK
<1>5. PICK z \in Live : c = Component(rep[z])
  BY <1>2 DEF Unplaced, Components
<1>6. /\ c \subseteq Live /\ z \in c /\ c \in Components
      /\ \A x, y \in Live : x \in c /\ rep[x] = rep[y] => y \in c
  BY <1>1, <1>2, <1>5 DEF Component, Unplaced
<1>7. \A n \in DOMAIN bins : bins[n] \cap c = {}
  <2>1. ASSUME NEW n \in DOMAIN bins, NEW x \in bins[n] \cap c PROVE c \subseteq bins[n]
    <3>1. \A y \in c : rep[y] = rep[x]
      BY <1>5, <2>1 DEF Component
    <3> QED BY <1>6, <2>1, <3>1 DEF BInv, BinsOfGroups
  <2> QED BY <1>1, <2>1 DEF Unplaced
<1>8. /\ IsFiniteSet(c) /\ Cardinality(c) \in Nat
      /\ \A n \in DOMAIN bins : IsFiniteSet(bins[n]) /\ Cardinality(bins[n]) \in Nat
  BY <1>4, <1>6, FS_Subset, FS_CardinalityType
<1> DEFINE fitting == {n \in DOMAIN bins : Cardinality(bins[n]) + Cardinality(c) <= Size}
<1>9. CASE Cardinality(c) >= Size \/ fitting = {}
  <2>1. bins' = Append(bins, c)
    BY <1>1, <1>9 DEF Placed
  <2>2. /\ bins' \in Seq(SUBSET Live) /\ DOMAIN bins' = 1..(Len(bins) + 1)
        /\ \A n \in DOMAIN bins : bins'[n] = bins[n]
        /\ bins'[Len(bins) + 1] = c
    BY <1>4, <1>6, <2>1
  <2>3. BatchTypeOK'
    BY <1>2, <1>3, <2>2 DEF BInv, BatchTypeOK
  <2>4. \A n \in DOMAIN bins' : (n \in DOMAIN bins /\ bins'[n] = bins[n]) \/ (n = Len(bins) + 1 /\ bins'[n] = c)
    <3> SUFFICES ASSUME NEW n \in DOMAIN bins', n # Len(bins) + 1 PROVE n \in DOMAIN bins
      BY <2>2
    <3> QED BY <1>4, <2>2
  <2>5. ASSUME NEW n \in DOMAIN bins', NEW x \in Live, NEW y \in Live,
               x \in bins'[n], rep[x] = rep[y]
        PROVE  y \in bins'[n]
    BY <1>6, <2>4, <2>5 DEF BInv, BinsOfGroups
  <2>6. ASSUME NEW n \in DOMAIN bins', NEW k \in DOMAIN bins', n # k
        PROVE  bins'[n] \cap bins'[k] = {}
    BY <1>7, <2>4, <2>6 DEF BInv, BinsOfGroups
  <2>7. ASSUME NEW n \in DOMAIN bins', Cardinality(bins'[n]) > Size
        PROVE  bins'[n] \in Components
    BY <1>6, <2>4, <2>7 DEF BInv, BinsOfGroups
  <2>8. BinsOfGroups'
    BY <1>2, <1>3, <2>5, <2>6, <2>7 DEF BinsOfGroups
  <2> QED BY <1>2, <1>3, <2>3, <2>8 DEF BInv, InOrder, GroupsApart, GroupsUndivided
<1>10. CASE ~(Cardinality(c) >= Size \/ fitting = {})
  <2> DEFINE f == Min(fitting)
  <2>1. f \in fitting
    <3>1. fitting \in SUBSET Nat /\ fitting # {}
      BY <1>4, <1>10
    <3> HIDE DEF fitting
    <3> QED BY <3>1, MinIsLeast
  <2>2. f \in DOMAIN bins /\ Cardinality(bins[f]) + Cardinality(c) <= Size
    BY <2>1
  <2>3. bins' = [bins EXCEPT ![f] = bins[f] \cup c]
    BY <1>1, <1>10 DEF Placed
  <2> HIDE DEF f
  <2>4. /\ bins' \in Seq(SUBSET Live) /\ DOMAIN bins' = DOMAIN bins
        /\ \A n \in DOMAIN bins : bins'[n] = IF n = f THEN bins[f] \cup c ELSE bins[n]
    BY <1>4, <1>6, <2>2, <2>3
  <2>5. Cardinality(bins'[f]) <= Size
    <3>1. Cardinality(bins[f] \cup c) = Cardinality(bins[f]) + Cardinality(c) - Cardinality(bins[f] \cap c)
      BY <1>8, <2>2, FS_Union
    <3>2. Cardinality(bins[f] \cap c) = 0
      <4>1. bins[f] \cap c = {}
        BY <1>7, <2>2
      <4> QED BY <4>1, FS_EmptySet
    <3>3. bins'[f] = bins[f] \cup c
      BY <2>2, <2>4
    <3>4. Cardinality(bins[f]) \in Nat
      BY <1>8, <2>2
    <3> QED BY <1>8, <2>2, <3>1, <3>2, <3>3, <3>4
  <2>6. BatchTypeOK'
    BY <1>2, <1>3, <2>4 DEF BInv, BatchTypeOK
  <2>7. ASSUME NEW n \in DOMAIN bins', NEW x \in Live, NEW y \in Live,
               x \in bins'[n], rep[x] = rep[y]
        PROVE  y \in bins'[n]
    BY <1>6, <2>2, <2>4, <2>7 DEF BInv, BinsOfGroups
  <2>8. ASSUME NEW n \in DOMAIN bins', NEW k \in DOMAIN bins', n # k
        PROVE  bins'[n] \cap bins'[k] = {}
    BY <1>7, <2>2, <2>4, <2>8 DEF BInv, BinsOfGroups
  <2>9. ASSUME NEW n \in DOMAIN bins', Cardinality(bins'[n]) > Size
        PROVE  bins'[n] \in Components
    <3>1. n # f
      <4>1. f \in DOMAIN bins' /\ Cardinality(bins'[f]) \in Nat
        <5>1. bins'[f] \subseteq Live
          BY <1>4, <1>6, <2>2, <2>4
        <5> QED BY <1>4, <2>2, <2>4, <5>1, FS_Subset, FS_CardinalityType
      <4> QED BY <1>4, <2>5, <2>9, <4>1
    <3> QED BY <2>4, <2>9, <3>1 DEF BInv, BinsOfGroups
  <2>10. BinsOfGroups'
    BY <1>2, <1>3, <2>7, <2>8, <2>9 DEF BinsOfGroups
  <2> QED BY <1>2, <1>3, <2>6, <2>10 DEF BInv, InOrder, GroupsApart, GroupsUndivided
<1> QED BY <1>9, <1>10

LEMMA BatchStep == BInv /\ [BatchNext]_batchVars => BInv'
<1>1. ASSUME BInv, UNCHANGED batchVars PROVE BInv'
  <2>1. /\ request' = request /\ rep' = rep /\ bins' = bins
    BY <1>1 DEF batchVars
  <2>2. Live' = Live /\ Size' = Size /\ Components' = Components /\ \A S : Undivided(S)' = Undivided(S)
    BY <2>1, SameRequest DEF Components, Component
  <2> QED BY <1>1, <2>1, <2>2 DEF BInv, BatchTypeOK, InOrder, GroupsApart, GroupsUndivided, BinsOfGroups
<1> QED BY <1>1, UniteKeeps, PlaceKeeps DEF BatchNext

LEMMA BatchInvariance == BatchSpec => []BInv
BY BatchInitInv, BatchStep, PTL DEF BatchSpec

\* The types of representatives and batches (plan in batch.rs).
THEOREM BatchTypeCorrect == BatchSpec => []BatchTypeOK
<1>1. BInv => BatchTypeOK
  BY DEF BInv
<1> QED BY <1>1, BatchInvariance, PTL

\* Batches build nothing twice, and only an undivided group makes one larger
\* than it was asked to be.
THEOREM BatchesTheorem == BatchSpec => []BatchesBuildApart
<1>1. ASSUME BInv PROVE BatchesBuildApart
  <2> USE <1>1 DEF BInv
  <2>1. /\ \A n \in DOMAIN bins : bins[n] \subseteq Live
        /\ DOMAIN bins # {} => DOMAIN rep = Live
    BY DEF BatchTypeOK, BinsOfGroups
  <2>2. ASSUME NEW n \in DOMAIN bins, NEW k \in DOMAIN bins, n # k
        PROVE  Built(bins[n]) \cap Built(bins[k]) = {}
    <3> SUFFICES ASSUME NEW m \in Built(bins[n]) \cap Built(bins[k]) PROVE FALSE
      OBVIOUS
    <3>1. PICK x \in bins[n], y \in bins[k] :
            m \in request.builds[x] /\ m \in request.builds[y]
      BY DEF Built
    <3>2. x \in Live /\ y \in Live /\ rep[x] = rep[y]
      BY <2>1, <3>1 DEF GroupsApart
    <3> QED BY <2>2, <3>2 DEF BinsOfGroups
  <2>3. ASSUME NEW n \in DOMAIN bins, NEW o \in request.open
        PROVE  Built(bins[n]) \cap o = {}
    BY <2>1 DEF Built, Live
  <2>4. ASSUME NEW n \in DOMAIN bins, Cardinality(bins[n]) > Size
        PROVE  Undivided(bins[n])
    BY <2>4 DEF BinsOfGroups, GroupsUndivided
  <2> QED BY <2>2, <2>3, <2>4 DEF BatchesBuildApart, Undivided
<1> QED BY <1>1, BatchInvariance, PTL

-----------------------------------------------------------------------------
(* The merge order                                                         *)

\* Reaching is reflexive and transitive, and who binds reaches.
LEMMA BindsReaches ==
  ASSUME NEW f \in Active, NEW t \in Active, Binds(f, t)
  PROVE  Reaches(f, t)
BY DEF Reaches

LEMMA ReachesItself == \A t : Reaches(t, t)
BY DEF Reaches

LEMMA ReachesOn ==
  ASSUME NEW a, NEW b, NEW c, Reaches(a, b), Reaches(b, c)
  PROVE  Reaches(a, c)
<1>1. ASSUME NEW S \in SUBSET Active, a \in S,
             \A x \in S, y \in Active : Binds(x, y) => y \in S
      PROVE  c \in S
  <2>1. b \in S
    BY <1>1 DEF Reaches
  <2> QED BY <1>1, <2>1 DEF Reaches
<1> QED BY <1>1 DEF Reaches

\* Of what is left, the one that is reached by the fewest waits for none: what
\* it waits for would be reached by fewer still.
LEMMA NoneIsStuck == OrderTypeOK => SomeIsReady
<1> SUFFICES ASSUME OrderTypeOK, remaining # {}
             PROVE  \E t \in remaining : After(t) \cap remaining = {}
  BY DEF SomeIsReady, Ready
<1> DEFINE From(t) == {f \in remaining : Reaches(f, t)}
           Counts == {Cardinality(From(t)) : t \in remaining}
<1>1. IsFiniteSet(remaining) /\ remaining \subseteq Active
  <2>1. IsFiniteSet(DOMAIN queue.pulls)
    BY QueuesAssumption DEF OrderTypeOK
  <2>2. remaining \subseteq Active /\ Active \subseteq DOMAIN queue.pulls
    BY DEF OrderTypeOK, Active
  <2> QED BY <2>1, <2>2, FS_Subset
<1>2. \A t \in remaining : IsFiniteSet(From(t)) /\ Cardinality(From(t)) \in Nat
  BY <1>1, FS_Subset, FS_CardinalityType
<1>3. PICK t \in remaining : \A u \in remaining : Cardinality(From(t)) <= Cardinality(From(u))
  <2>1. Counts \in SUBSET Nat /\ Counts # {}
    BY <1>2
  <2>2. PICK r \in Counts : \A x \in Counts : r <= x
    <3> HIDE DEF Counts
    <3> QED BY <2>1, LeastNumber
  <2> QED BY <2>2
<1>4. ASSUME NEW f \in After(t) \cap remaining PROVE FALSE
  <2>1. Binds(f, t) /\ ~OneCycle(f, t) /\ f \in Active /\ t \in Active
    BY <1>1 DEF After
  <2>2. Reaches(f, t) /\ ~Reaches(t, f)
    BY <2>1, BindsReaches DEF OneCycle
  <2>3. From(f) \subseteq From(t)
    BY <2>2, ReachesOn
  <2>4. t \in From(t) /\ t \notin From(f)
    BY <2>2, ReachesItself
  <2>5. Cardinality(From(f)) < Cardinality(From(t))
    <3>1. IsFiniteSet(From(t)) /\ From(f) \in SUBSET From(t) /\ From(f) # From(t)
      BY <1>2, <2>3, <2>4
    <3> HIDE DEF From
    <3>2. Cardinality(From(f)) <= Cardinality(From(t)) /\ Cardinality(From(f)) # Cardinality(From(t))
      BY <3>1, FS_Subset
    <3> QED BY <1>2, <3>2
  <2> QED BY <1>2, <1>3, <2>5
<1> QED BY <1>4

\* Who is not left is one of the steps, and what it builds is installed.
Merged ==
  \A t \in Active \ remaining :
    (\E k \in DOMAIN steps : steps[k].pr = t) /\ Builds(t) \subseteq installed

OInv == OrderTypeOK /\ Merged /\ MergesInOrder

\* What waits for what depends on the queue only.
LEMMA SameQueue ==
  ASSUME queue' = queue
  PROVE  /\ Active' = Active /\ Step' = Step
         /\ \A t : Builds(t)' = Builds(t) /\ Asks(t)' = Asks(t)
         /\ \A f, t : Binds(f, t)' = Binds(f, t)
         /\ \A f, t : OneCycle(f, t)' = OneCycle(f, t)
<1>1. Active' = Active /\ \A t : Builds(t)' = Builds(t) /\ Asks(t)' = Asks(t)
  BY DEF Active, Builds, Asks
<1>2. \A f, t : Binds(f, t)' = Binds(f, t)
  BY <1>1 DEF Binds
<1>3. \A f, t : Reaches(f, t)' = Reaches(f, t)
  BY <1>1, <1>2 DEF Reaches
<1>4. \A f, t : OneCycle(f, t)' = OneCycle(f, t)
  BY <1>3 DEF OneCycle
<1>5. Step' = Step
  BY <1>1 DEF Step
<1> QED BY <1>1, <1>2, <1>4, <1>5

LEMMA OrderInitInv == OrderInit => OInv
BY DEF OrderInit, OInv, OrderTypeOK, Merged, MergesInOrder

LEMMA MergeOneKeeps == ASSUME OInv, MergeOne PROVE OInv'
<1> USE DEF OInv
<1>1. PICK t \in Candidates :
        /\ remaining' = remaining \ {t}
        /\ installed' = installed \cup Residual(t)
        /\ steps' = Append(steps, [pr |-> t, builds |-> Residual(t)])
        /\ queue' = queue
  BY DEF MergeOne
<1>2. t \in remaining /\ After(t) \cap remaining = {}
  BY NoneIsStuck DEF SomeIsReady, Candidates, Ready
<1>3. /\ Active' = Active /\ Step' = Step
      /\ \A n : Builds(n)' = Builds(n) /\ Asks(n)' = Asks(n)
      /\ \A f, n : Binds(f, n)' = Binds(f, n)
      /\ \A f, n : OneCycle(f, n)' = OneCycle(f, n)
  BY <1>1, SameQueue
<1>4. t \in Active /\ remaining \subseteq Active /\ steps \in Seq(Step)
  BY <1>2 DEF OrderTypeOK
<1> DEFINE new == [pr |-> t, builds |-> Residual(t)]
<1>5. new \in Step
  BY <1>4 DEF Step, Residual
<1>6. OrderTypeOK'
  BY <1>1, <1>3, <1>4, <1>5 DEF OrderTypeOK
<1>7. /\ Len(steps) \in Nat /\ DOMAIN steps = 1..Len(steps)
      /\ DOMAIN steps' = 1..(Len(steps) + 1)
      /\ \A k \in DOMAIN steps : steps'[k] = steps[k]
      /\ steps'[Len(steps) + 1] = new
  BY <1>1, <1>4, <1>5
<1>8. Merged'
  <2>1. ASSUME NEW n \in Active \ remaining', n # t
        PROVE  (\E k \in DOMAIN steps' : steps'[k].pr = n) /\ Builds(n) \subseteq installed'
    <3>1. (\E k \in DOMAIN steps : steps[k].pr = n) /\ Builds(n) \subseteq installed
      BY <1>1, <2>1 DEF Merged
    <3> QED BY <1>1, <1>7, <3>1
  <2>2. (\E k \in DOMAIN steps' : steps'[k].pr = t) /\ Builds(t) \subseteq installed'
    <3>1. Len(steps) + 1 \in DOMAIN steps' /\ steps'[Len(steps) + 1].pr = t
      BY <1>7
    <3>2. Builds(t) \subseteq installed'
      BY <1>1 DEF Residual
    <3> QED BY <3>1, <3>2
  <2> QED BY <1>3, <2>1, <2>2 DEF Merged
<1>9. MergesInOrder'
  <2> SUFFICES ASSUME NEW k \in DOMAIN steps', NEW f \in Active
               PROVE  LET n == steps'[k].pr
                      IN  /\ Binds(f, n) /\ ~OneCycle(f, n) =>
                               \E j \in 1..(k - 1) : steps'[j].pr = f
                          /\ (steps'[k].builds \cap Asks(f) \cap Builds(f)) \ Asks(n) # {} =>
                               OneCycle(f, n)
    BY <1>3 DEF MergesInOrder
  <2>1. CASE k \in DOMAIN steps
    <3>1. steps'[k] = steps[k] /\ \A j \in 1..(k - 1) : steps'[j] = steps[j]
      BY <1>7, <2>1
    <3> QED BY <2>1, <3>1 DEF MergesInOrder
  <2>2. CASE k = Len(steps) + 1
    <3>1. steps'[k].pr = t /\ steps'[k].builds = Residual(t)
      BY <1>7, <2>2
    <3>2. ASSUME Binds(f, t), ~OneCycle(f, t)
          PROVE  (\E j \in 1..(k - 1) : steps'[j].pr = f) /\ Builds(f) \subseteq installed
      <4>1. f \in Active \ remaining
        BY <1>2, <3>2 DEF After
      <4>2. (\E j \in DOMAIN steps : steps[j].pr = f) /\ Builds(f) \subseteq installed
        BY <4>1 DEF Merged
      <4> QED BY <1>7, <2>2, <4>2
    <3>3. ASSUME (Residual(t) \cap Asks(f) \cap Builds(f)) \ Asks(t) # {}, ~OneCycle(f, t)
          PROVE  FALSE
      <4>1. PICK m \in Residual(t) : m \in Asks(f) /\ m \in Builds(f) /\ m \notin Asks(t)
        BY <3>3
      <4>2. m \in Builds(t) /\ m \notin installed
        BY <4>1 DEF Residual
      <4>3. Binds(f, t)
        BY <4>1, <4>2 DEF Binds
      <4> QED BY <3>2, <3>3, <4>1, <4>2, <4>3
    <3> QED BY <3>1, <3>2, <3>3
  <2> QED BY <1>7, <2>1, <2>2
<1> QED BY <1>6, <1>8, <1>9

LEMMA OrderStep == OInv /\ [MergeOne]_orderVars => OInv'
<1>1. ASSUME OInv, UNCHANGED orderVars PROVE OInv'
  <2>1. /\ Active' = Active /\ Step' = Step
        /\ \A n : Builds(n)' = Builds(n) /\ Asks(n)' = Asks(n)
        /\ \A f, n : Binds(f, n)' = Binds(f, n)
        /\ \A f, n : OneCycle(f, n)' = OneCycle(f, n)
    BY <1>1, SameQueue DEF orderVars
  <2> QED BY <1>1, <2>1 DEF orderVars, OInv, OrderTypeOK, Merged, MergesInOrder
<1> QED BY <1>1, MergeOneKeeps

LEMMA OrderInvariance == OrderSpec => []OInv
BY OrderInitInv, OrderStep, PTL DEF OrderSpec

\* The types of what is left and of the steps (plan in merge_order.rs).
THEOREM OrderTypeCorrect == OrderSpec => []OrderTypeOK
<1>1. OInv => OrderTypeOK
  BY DEF OInv
<1> QED BY <1>1, OrderInvariance, PTL

\* No pull request is merged before one that it has to wait for, but for
\* cycles, and so a module is built by one that asks for it.
THEOREM OrderTheorem == OrderSpec => []MergesInOrder
<1>1. OInv => MergesInOrder
  BY DEF OInv
<1> QED BY <1>1, OrderInvariance, PTL

\* The loop of plan always finds a pull request that waits for none.
THEOREM ReadyTheorem == OrderSpec => []SomeIsReady
<1>1. OInv => SomeIsReady
  BY NoneIsStuck DEF OInv
<1> QED BY <1>1, OrderInvariance, PTL
=============================================================================
