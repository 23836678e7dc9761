---------------------------- MODULE MergeOrder -----------------------------
(***************************************************************************)
(* The order in which open pull requests are merged (plan in               *)
(* src/merge_order.rs), so that a module they share is built by the one    *)
(* that asks for it.  What a pull request asks for by name and what it     *)
(* builds are sets of modules; rows are the dependencies that were found   *)
(* by other means.  One step is one turn of the loop of plan.              *)
(***************************************************************************)
EXTENDS Integers, Sequences, FiniteSets

CONSTANT
  Queues \* pull requests to order: pulls (asks and builds of each), rows,
         \* and which of them are merged already

ASSUME QueuesAssumption ==
  \A q \in Queues :
    /\ DOMAIN q.pulls \subseteq Nat /\ IsFiniteSet(DOMAIN q.pulls)
    /\ \A n \in DOMAIN q.pulls : IsFiniteSet(q.pulls[n].builds)

VARIABLES
  queue,
  remaining, \* the pull requests that are left
  installed, \* the modules that are there after the merges so far
  steps      \* the order so far, and what each merge builds
orderVars == <<queue, remaining, installed, steps>>

Asks(n) == queue.pulls[n].asks
Builds(n) == queue.pulls[n].builds
Active == DOMAIN queue.pulls \ queue.merged

OrderInit ==
  /\ queue \in Queues
  /\ remaining = Active
  /\ installed = UNION {Builds(n) : n \in DOMAIN queue.pulls \cap queue.merged}
  /\ steps = <<>>

-----------------------------------------------------------------------------
(* What waits for what                                                     *)

\* f has to be merged first: it asks for what t only reaches, or a row says so.
Binds(f, t) ==
  /\ f # t
  /\ (Asks(f) \cap Builds(t)) \ Asks(t) # {} \/ <<f, t>> \in queue.rows

Reaches(f, t) ==
  \A S \in SUBSET Active :
    f \in S /\ (\A a \in S, b \in Active : Binds(a, b) => b \in S) => t \in S

\* A cycle of the code: a strongly connected component.
OneCycle(f, t) == Reaches(f, t) /\ Reaches(t, f)

\* Mutant of After: what is on one cycle waits for each other.
AfterAll(t) == {f \in Active : Binds(f, t)}

\* open: what t waits for.  Edges inside a cycle are dropped.
After(t) == {f \in Active : Binds(f, t) /\ ~OneCycle(f, t)}

-----------------------------------------------------------------------------
(* The order                                                               *)

Residual(t) == Builds(t) \ installed

\* The least left to build first, then the smallest number.
Sooner(t, u) ==
  \/ Cardinality(Residual(t)) < Cardinality(Residual(u))
  \/ Cardinality(Residual(t)) = Cardinality(Residual(u)) /\ t <= u

Ready == {t \in remaining : After(t) \cap remaining = {}}

\* If each waits for another, all are ready.
Candidates == IF Ready = {} THEN remaining ELSE Ready

MergeOne ==
  \E t \in Candidates :
    /\ \A u \in Candidates : Sooner(t, u)
    /\ remaining' = remaining \ {t}
    /\ installed' = installed \cup Residual(t)
    /\ steps' = Append(steps, [pr |-> t, builds |-> Residual(t)])
    /\ UNCHANGED queue

OrderSpec == OrderInit /\ [][MergeOne]_orderVars

-----------------------------------------------------------------------------
(* Properties                                                              *)

Step == [pr : Active, builds : SUBSET UNION {Builds(n) : n \in Active}]

OrderTypeOK ==
  /\ queue \in Queues
  /\ remaining \subseteq Active
  /\ steps \in Seq(Step)

\* What a pull request has to wait for is merged before it, unless the two are
\* on one cycle; so a module that some pull request asks for, and builds, is
\* not built by another that only reaches it, unless the two are on one cycle
\* (rules 1 and 4 in the head of merge_order.rs).
MergesInOrder ==
  \A k \in DOMAIN steps, f \in Active :
    LET t == steps[k].pr
    IN  /\ Binds(f, t) /\ ~OneCycle(f, t) => \E j \in 1..(k - 1) : steps[j].pr = f
        /\ (steps[k].builds \cap Asks(f) \cap Builds(f)) \ Asks(t) # {} => OneCycle(f, t)

\* The code's way out, to take one that still waits for another, is never taken:
\* without the edges inside cycles, some pull request waits for none that is left.
SomeIsReady == remaining # {} => Ready # {}
=============================================================================
