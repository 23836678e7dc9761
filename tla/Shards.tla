------------------------------- MODULE Shards -------------------------------
(***************************************************************************)
(* A build list split into shards that build at the same time, with a      *)
(* prelude that builds before them (src/shard.rs, and run_stack_shard_with *)
(* in src/site_commands.rs), and the builds that Jenkins then makes of it. *)
(*                                                                         *)
(* A line of the list builds the module of its easyconfig, its root, with  *)
(* the line's own options, and with the robot everything below that is not *)
(* installed.  It finds easyconfigs in a tree: the robot path, or that of  *)
(* the commit or pull request that the line names.  Lines whose closure is *)
(* not known (opaque ones) are planned apart and left out here.            *)
(***************************************************************************)
EXTENDS Integers, FiniteSetsExt

CONSTANTS
  Modules, \* the modules
  NLines,  \* how many lines the list has
  Trees,   \* where easyconfigs are found
  Weight,  \* the weight of each module, in the code a u64
  Problems \* lists to be split, as records of the fields below

Lines == 1..NLines

\* What the code is given.  deps[t][m] is what module m needs in tree t.
Problem == [
  root : [Lines -> Modules],
  tree : [Lines -> Trees],
  forced : SUBSET Lines, \* lines with --rebuild or --force
  deps : [Trees -> [Modules -> SUBSET Modules]],
  installed : SUBSET Modules,
  shards : Nat]

None == 0
Prelude == -1

ASSUME ConstantsAssumption ==
  /\ NLines \in Nat \ {0}
  /\ Modules \subseteq Nat \ {0}
  /\ Weight \in [Modules -> Nat]
  /\ Problems \subseteq Problem

VARIABLES
  p,       \* the problem
  toBuild, \* LineClosure::to_build of each line, as a set
  pc,      \* which part of the work is going on
  group,   \* the group of each line, named after its first line
  shared,  \* the modules of the prelude that are still to be placed
  loads,   \* per shard, the weight and the number of its groups
  shardOf, \* the shard of each group
  have,    \* the modules installed now
  builder, \* who built each module: a line or the prelude
  line,    \* the line that each shard is building
  done,    \* the lines that have been built
  todo,    \* what this line has still to build
  busy     \* the module that is being built
plan == <<p, toBuild, pc, group, shared, loads, shardOf>>
builds == <<have, builder, line, done, todo, busy>>
vars == <<plan, builds>>

-----------------------------------------------------------------------------
(* Closures                                                                *)

\* S holds what its members need in tree t, except what is in stop.
ClosedIn(S, t, stop) == \A m \in S : p.deps[t][m] \ stop \subseteq S

\* All that m and what it needs in tree t consist of, an installed module
\* being a leaf: the least closed set that has m.
Walk(t, m, stop) ==
  {x \in Modules \ stop :
     \A S \in SUBSET Modules :
       ClosedIn(S, t, stop) /\ ({m} \ stop) \subseteq S => x \in S}

\* Mutant of NotRebuilt: a rebuilt module is installed for the other lines.
InstalledNow == p.installed

\* What counts as installed: a line that rebuilds a module takes it away from
\* all of them.
NotRebuilt == p.installed \ {p.root[i] : i \in p.forced}

Closure(i) == Walk(p.tree[i], p.root[i], NotRebuilt)

-----------------------------------------------------------------------------
(* The plan                                                                *)

Init ==
  /\ p \in Problems
  /\ toBuild = [i \in Lines |-> Closure(i)]
  /\ pc = "group"
  /\ group = [i \in Lines |-> i]
  /\ shared = {}
  /\ loads = <<>>
  /\ shardOf = [g \in Lines |-> None]
  /\ have = p.installed
  /\ builder = [m \in Modules |-> None]
  /\ line = <<>> /\ done = {} /\ todo = <<>> /\ busy = <<>>

\* Mutant of Conflict: only lines of one easyconfig are kept together.
SameRoot(i, j) == p.root[i] = p.root[j]

Conflict(i, j) == p.root[i] = p.root[j] \/ p.root[i] \in toBuild[j]

Groups == {group[i] : i \in Lines}
Members(g) == {i \in Lines : group[i] = g}
Needs(g) == UNION {toBuild[i] : i \in Members(g)}

\* union: the smaller of two representatives stands for both groups.
Merge ==
  /\ pc = "group"
  /\ \E i, j \in Lines :
       LET lo == IF group[i] < group[j] THEN group[i] ELSE group[j]
       IN  /\ Conflict(i, j) /\ group[i] # group[j]
           /\ group' = [k \in Lines |->
                          IF group[k] \in {group[i], group[j]} THEN lo ELSE group[k]]
  /\ UNCHANGED <<p, toBuild, pc, shared, loads, shardOf, builds>>

\* Mutant of SharedModules: a module may be in two groups.
SharedByThree ==
  {m \in Modules : Cardinality({g \in Groups : m \in Needs(g)}) > 2}

SharedModules ==
  {m \in Modules : \E g, h \in Groups : g # h /\ m \in Needs(g) \cap Needs(h)}

NShards ==
  LET n == Cardinality(Groups)
      k == IF p.shards = 0 THEN 1 ELSE p.shards
  IN  IF k < n THEN k ELSE n

Split ==
  /\ pc = "group"
  /\ \A i, j \in Lines : Conflict(i, j) => group[i] = group[j]
  /\ shared' = SharedModules
  /\ loads' = [s \in 1..NShards |-> [weight |-> 0, groups |-> 0]]
  /\ pc' = "pack"
  /\ UNCHANGED <<p, toBuild, group, shardOf, builds>>

GroupWeight(g) == MapThenSumSet(LAMBDA m : Weight[m], Needs(g) \ shared)

\* Heaviest group first, the earlier of two that weigh the same.
Before(g, h) ==
  GroupWeight(g) > GroupWeight(h) \/ (GroupWeight(g) = GroupWeight(h) /\ g <= h)

\* Lightest shard first, then the one with fewer groups, then the first.
Lighter(s, u) ==
  \/ loads[s].weight < loads[u].weight
  \/ loads[s].weight = loads[u].weight /\ loads[s].groups < loads[u].groups
  \/ loads[s] = loads[u] /\ s <= u

Unpacked == {g \in Groups : shardOf[g] = None}

Pack ==
  /\ pc = "pack"
  /\ \E g \in Unpacked, s \in DOMAIN loads :
       /\ \A h \in Unpacked : Before(g, h)
       /\ \A u \in DOMAIN loads : Lighter(s, u)
       /\ shardOf' = [shardOf EXCEPT ![g] = s]
       /\ loads' = [loads EXCEPT ![s] = [weight |-> @.weight + GroupWeight(g),
                                         groups |-> @.groups + 1]]
  /\ UNCHANGED <<p, toBuild, pc, group, shared, builds>>

Packed ==
  /\ pc = "pack" /\ Unpacked = {}
  /\ pc' = "prelude"
  /\ UNCHANGED <<p, toBuild, group, shared, loads, shardOf, builds>>

-----------------------------------------------------------------------------
(* The builds of the prelude, then of the shards                           *)

\* The prelude is in an order that agrees with the dependencies in every tree;
\* where the trees of two lines do not allow one, it is any.
Free(m) ==
  \A t \in Trees : Walk(t, m, NotRebuilt) \cap shared \subseteq {m}

\* The next line of the prelude: it is built with the robot and, as it names
\* the source of some line that needs the module, in some tree.
BuildPrelude ==
  /\ pc = "prelude"
  /\ \E m \in shared, t \in Trees :
       LET built == Walk(t, m, have)
       IN  /\ Free(m) \/ \A n \in shared : ~Free(n)
           /\ shared' = shared \ {m}
           /\ have' = have \cup built
           /\ builder' = [x \in Modules |-> IF x \in built THEN Prelude ELSE builder[x]]
  /\ UNCHANGED <<p, toBuild, pc, group, loads, shardOf, line, done, todo, busy>>

PreludeBuilt ==
  /\ pc = "prelude" /\ shared = {}
  /\ pc' = "shards"
  /\ line' = [s \in DOMAIN loads |-> None]
  /\ todo' = [s \in DOMAIN loads |-> {}]
  /\ busy' = [s \in DOMAIN loads |-> None]
  /\ UNCHANGED <<p, toBuild, group, shared, loads, shardOf, have, builder, done>>

Remaining(s) == {i \in Lines \ done : shardOf[group[i]] = s}

\* line_order: b has to wait for a, whose root it needs.
WaitsFor(b, a) == a # b /\ p.root[a] # p.root[b] /\ p.root[a] \in toBuild[b]

MayGoNext(s, b) == \A a \in Remaining(s) : ~WaitsFor(b, a)

\* The first line that waits for none, or the first if each waits for one.
NextLine(s, i) ==
  /\ i \in Remaining(s)
  /\ LET next == {j \in Remaining(s) : MayGoNext(s, j)}
     IN  IF next = {} THEN \A j \in Remaining(s) : i <= j
                      ELSE i \in next /\ \A j \in next : i <= j

\* `eb` looks for what is missing; with --rebuild its own module is.
StartLine(s) ==
  /\ pc = "shards" /\ line[s] = None
  /\ \E i \in Lines :
       /\ NextLine(s, i)
       /\ line' = [line EXCEPT ![s] = i]
       /\ todo' = [todo EXCEPT ![s] =
                     Walk(p.tree[i], p.root[i],
                          IF i \in p.forced THEN have \ {p.root[i]} ELSE have)]
  /\ UNCHANGED <<plan, have, builder, done, busy>>

BuildModule(s) ==
  /\ pc = "shards" /\ line[s] # None /\ busy[s] = None
  /\ \E m \in todo[s] :
       /\ p.deps[p.tree[line[s]]][m] \cap todo[s] \subseteq {m}
       /\ busy' = [busy EXCEPT ![s] = m]
  /\ UNCHANGED <<plan, have, builder, line, done, todo>>

FinishModule(s) ==
  /\ pc = "shards" /\ busy[s] # None
  /\ have' = have \cup {busy[s]}
  /\ builder' = [builder EXCEPT ![busy[s]] = line[s]]
  /\ todo' = [todo EXCEPT ![s] = @ \ {busy[s]}]
  /\ busy' = [busy EXCEPT ![s] = None]
  /\ UNCHANGED <<plan, line, done>>

FinishLine(s) ==
  /\ pc = "shards" /\ line[s] # None /\ todo[s] = {}
  /\ done' = done \cup {line[s]}
  /\ line' = [line EXCEPT ![s] = None]
  /\ UNCHANGED <<plan, have, builder, todo, busy>>

Next ==
  \/ Merge \/ Split \/ Pack \/ Packed \/ BuildPrelude \/ PreludeBuilt
  \/ \E s \in DOMAIN loads :
       StartLine(s) \/ BuildModule(s) \/ FinishModule(s) \/ FinishLine(s)

Spec == Init /\ [][Next]_vars

-----------------------------------------------------------------------------
(* Properties                                                              *)

\* What a shard builds no other shard has built or is building.
BuiltInOneShard ==
  pc = "shards" =>
    \A s, u \in DOMAIN loads :
      s # u /\ busy[s] # None =>
        /\ busy[u] # busy[s]
        /\ builder[busy[s]] \in Lines => shardOf[group[builder[busy[s]]]] = s

\* Every tree resolves everything alike, and without a cycle: the modules can
\* be numbered so that each only needs smaller ones.
TreesAgree ==
  /\ \A t, u \in Trees : p.deps[t] = p.deps[u]
  /\ \A t \in Trees, m \in Modules : \A n \in p.deps[t][m] : n < m

\* The module of a line is built by a line for it, with the options that the
\* line has for it: neither the prelude nor the robot of another line gets
\* there first.  It is so when the trees agree; a module of the prelude that
\* needs something else in another tree can bring a root along.
RootsBuiltByTheirLines ==
  TreesAgree =>
    \A i \in Lines :
      \/ builder[p.root[i]] = None
      \/ builder[p.root[i]] \in Lines /\ p.root[builder[p.root[i]]] = p.root[i]

\* What the build of a module loads: what it needs, whoever installed it.
Loads(t, m) == Walk(t, m, {})

StaysInstalled == p.installed \ {p.root[i] : i \in p.forced}

\* A build never loads a module that another shard is building or rebuilding,
\* unless it does so through a module that is installed and stays.
LoadsAreQuiet ==
  pc = "shards" =>
    \A s, u \in DOMAIN loads :
      s # u /\ busy[s] # None /\ busy[u] # None =>
        LET loaded == Loads(p.tree[line[s]], busy[s])
        IN  busy[u] \in loaded =>
              \E m \in StaysInstalled \cap loaded :
                busy[u] \in Loads(p.tree[line[s]], m)
=============================================================================
