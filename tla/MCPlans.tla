------------------------------ MODULE MCPlans -------------------------------
(***************************************************************************)
(* The three planners, one at a time: a behaviour makes one plan.          *)
(*                                                                         *)
(* Shards: lists of three lines over four modules, in every graph where a  *)
(* module needs modules with smaller numbers only, with                    *)
(*   - nothing installed, and one shard asked for, two, three or none,     *)
(*   - modules installed, rebuilt or not by some of the lines, and         *)
(*   - the second line from a tree of its own, where module 3 needs what   *)
(*     it does not need in the first, or needs module 4.                   *)
(* Batches: four roots, each of which builds up to two of four modules, in *)
(* batches of one, two or three, with and without an open pull request     *)
(* that builds a module, and a root that lacks a requirement.              *)
(* MergeOrder: three pull requests, each of which asks for some of the up  *)
(* to three modules that it builds, with rows between them that make       *)
(* chains and cycles, and with one that is merged already.                 *)
(***************************************************************************)
EXTENDS Shards, Batches, MergeOrder

Mods == 1..4
Weights == [m \in Mods |-> IF m = 2 THEN 2 ELSE 1]

Graphs == {d \in [Mods -> SUBSET Mods] : \A m \in Mods : d[m] \subseteq 1..(m - 1)}

Case(forced, there, shards, own) ==
  [forced |-> forced, installed |-> there, shards |-> shards, own |-> own]

Cases ==
  {Case({}, {}, k, "no") : k \in {0, 2, 3}} \cup
  {Case({}, {1, 2}, 2, "no"), Case({1}, {1, 2}, 2, "no"),
   Case({2, 3}, {1, 3}, 2, "no"),
   Case({}, {}, 2, "differs"), Case({}, {}, 2, "reversed")}

\* The graph of the second line's tree.
Second(d, own) ==
  CASE own = "no" -> d
    [] own = "differs" -> [d EXCEPT ![3] = {1, 2} \ @]
    [] own = "reversed" -> [d EXCEPT ![3] = {4}, ![4] = {}]

Input(root, d, c) ==
  [root |-> root,
   tree |-> [i \in 1..3 |-> IF i = 2 THEN 2 ELSE 1],
   forced |-> c.forced, installed |-> c.installed, shards |-> c.shards,
   deps |-> [t \in 1..2 |-> IF t = 1 THEN d ELSE Second(d, c.own)]]

MCProblems ==
  {Input(root, d, c) : root \in [1..3 -> Mods], d \in Graphs, c \in Cases}

Sets == {s \in SUBSET (1..4) : Cardinality(s) <= 2}
NoRoots == [builds |-> <<>>, unresolved |-> {}, open |-> {}, size |-> 0]

MCRequests ==
  {NoRoots} \cup
  [builds : [1..4 -> Sets], unresolved : {{}, {1}}, open : {{}, {{2}}}, size : {0, 2, 3}]

Pulls == {r \in [asks : SUBSET (1..3), builds : SUBSET (1..3)] : r.asks \subseteq r.builds}
NoPulls == [pulls |-> <<>>, merged |-> {}, rows |-> {}]

MCQueues ==
  {NoPulls} \cup
  [pulls : [1..3 -> Pulls], merged : {{}, {2}},
   rows : {{}, {<<3, 1>>}, {<<3, 1>>, <<2, 3>>}}]

-----------------------------------------------------------------------------
(* A list, or roots, or pull requests                                      *)

SomeList == Input([i \in 1..3 |-> 1], [m \in Mods |-> {}], Case({}, {}, 0, "no"))

PlansInit ==
  \/ Init /\ request = NoRoots /\ BatchInit /\ queue = NoPulls /\ OrderInit
  \/ p = SomeList /\ Init /\ BatchInit /\ queue = NoPulls /\ OrderInit
  \/ p = SomeList /\ Init /\ request = NoRoots /\ BatchInit /\ OrderInit

PlansNext ==
  \/ request = NoRoots /\ queue = NoPulls /\ Next /\ UNCHANGED <<batchVars, orderVars>>
  \/ BatchNext /\ UNCHANGED <<vars, orderVars>>
  \/ MergeOne /\ UNCHANGED <<vars, batchVars>>

PlansSpec == PlansInit /\ [][PlansNext]_<<vars, batchVars, orderVars>>
=============================================================================
