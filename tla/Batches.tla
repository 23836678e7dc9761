------------------------------ MODULE Batches ------------------------------
(***************************************************************************)
(* New roots of a stack put into pull requests that build nothing twice    *)
(* (plan in src/batch.rs).  It reads build sets only: what a root would    *)
(* build of what is not installed, and what open pull requests build.      *)
(* Roots are numbers, in the order in which the code sorts their names.    *)
(* One step is one turn of a loop of plan.                                 *)
(***************************************************************************)
EXTENDS Integers, Sequences, FiniteSetsExt

CONSTANT
  Requests \* what is asked for: builds (per root), unresolved (roots that
           \* lack a requirement), open (the sets of open pull requests), size

ASSUME RequestsAssumption ==
  \A q \in Requests :
    /\ DOMAIN q.builds \subseteq Nat /\ IsFiniteSet(DOMAIN q.builds)
    /\ q.size \in Nat

VARIABLES
  request,
  rep,  \* parent: for each root looked at, the one that stands for its group
  bins  \* the batches
batchVars == <<request, rep, bins>>

\* A root whose set meets that of an open pull request waits for it; one that
\* lacks a requirement, or has nothing to build, is only reported.
Live ==
  {r \in DOMAIN request.builds \ request.unresolved :
     /\ request.builds[r] # {}
     /\ \A o \in request.open : request.builds[r] \cap o = {}}

Size == IF request.size = 0 THEN 1 ELSE request.size

BatchInit ==
  /\ request \in Requests
  /\ rep = <<>>
  /\ bins = <<>>

-----------------------------------------------------------------------------
(* Roots that share a module are united                                    *)

\* owner: the first root that builds m.
Owner(m) == Min({r \in Live : m \in request.builds[r]})

\* The groups that r belongs to: its own, and those of the owners.
Met(r) == {rep[Owner(m)] : m \in {n \in request.builds[r] : Owner(n) # r}} \cup {r}

\* Mutant of United: the groups that r is in are not made one.
OnlyJoined(r) ==
  [x \in DOMAIN rep \cup {r} |-> IF x = r THEN Min(Met(r)) ELSE rep[x]]

\* The smallest representative stands for all of them.
United(r) ==
  [x \in DOMAIN rep \cup {r} |->
     IF x = r \/ rep[x] \in Met(r) THEN Min(Met(r)) ELSE rep[x]]

Unite ==
  /\ \E r \in Live \ DOMAIN rep :
       /\ \A x \in Live \ DOMAIN rep : r <= x
       /\ rep' = United(r)
  /\ UNCHANGED <<request, bins>>

-----------------------------------------------------------------------------
(* The groups are packed                                                   *)

Component(c) == {r \in DOMAIN rep : rep[r] = c}
Components == {Component(rep[r]) : r \in DOMAIN rep}

\* The larger component first, then the one with the first root.
Ahead(c, d) ==
  \/ Cardinality(c) > Cardinality(d)
  \/ Cardinality(c) = Cardinality(d) /\ Min(c) <= Min(d)

Unplaced == {c \in Components : \A n \in DOMAIN bins : ~(c \subseteq bins[n])}

\* First fit; what fills a batch gets one of its own.
Placed(c) ==
  LET fitting == {n \in DOMAIN bins : Cardinality(bins[n]) + Cardinality(c) <= Size}
  IN  IF Cardinality(c) >= Size \/ fitting = {}
        THEN Append(bins, c)
        ELSE [bins EXCEPT ![Min(fitting)] = @ \cup c]

Place ==
  /\ DOMAIN rep = Live
  /\ \E c \in Unplaced :
       /\ \A d \in Unplaced : Ahead(c, d)
       /\ bins' = Placed(c)
  /\ UNCHANGED <<request, rep>>

BatchNext == Unite \/ Place

BatchSpec == BatchInit /\ [][BatchNext]_batchVars

-----------------------------------------------------------------------------
(* Properties                                                              *)

Built(roots) == UNION {request.builds[r] : r \in roots}

BatchTypeOK ==
  /\ request \in Requests
  /\ DOMAIN rep \subseteq Live /\ rep \in [DOMAIN rep -> DOMAIN rep]
  /\ bins \in Seq(SUBSET Live)

\* No module is built by two batches, nor by a batch and an open pull request;
\* and a batch is larger than was asked for only where it cannot be divided:
\* whatever part of it were taken out would build a module of the rest (the
\* head of batch.rs).
BatchesBuildApart ==
  /\ \A n, k \in DOMAIN bins : n # k => Built(bins[n]) \cap Built(bins[k]) = {}
  /\ \A n \in DOMAIN bins, o \in request.open : Built(bins[n]) \cap o = {}
  /\ \A n \in DOMAIN bins : Cardinality(bins[n]) > Size =>
       \A part \in (SUBSET bins[n]) \ {{}, bins[n]} :
         Built(part) \cap Built(bins[n] \ part) # {}
=============================================================================
