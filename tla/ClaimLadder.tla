---------------------------- MODULE ClaimLadder ----------------------------
(***************************************************************************)
(* What the persisted state of a campaign promises a reader, with nothing  *)
(* of how run_campaign works: attempts are counted one by one, an attempt  *)
(* proves its jobs in the declared order, each rung of ClaimLadder         *)
(* (src/campaign.rs) is claimed only when its jobs are proved in the same  *)
(* attempt, and a new attempt starts from the bottom.                      *)
(***************************************************************************)
EXTENDS Naturals, Sequences

CONSTANTS Bundles, recipes, checks, None

VARIABLES
  attempt,   \* number of the latest attempt
  bundle,    \* what it works on
  status,    \* absent, running, failed or completed
  built,     \* how many recipes it has proved to build
  checked,   \* how many verification commands it has proved to succeed
  builds,    \* the claim that every recipe built
  verified   \* the claim that the binaries were run and behaved
ladder == <<attempt, bundle, status, built, checked, builds, verified>>

Init ==
  /\ attempt = 0 /\ bundle = None /\ status = "absent"
  /\ built = 0 /\ checked = 0
  /\ builds = FALSE /\ verified = FALSE

\* A new attempt owes all of its evidence, whatever became of the last one.
Begin ==
  /\ attempt' = attempt + 1
  /\ bundle' \in Bundles
  /\ status' = "running"
  /\ built' = 0 /\ checked' = 0
  /\ builds' = FALSE /\ verified' = FALSE

\* Evidence only grows, and nothing is verified before everything is built.
Evidence ==
  /\ status = "running"
  /\ built' \in built..Len(recipes[bundle])
  /\ checked' \in checked..Len(checks[bundle])
  /\ checked' > 0 => builds
  /\ UNCHANGED <<attempt, bundle>>

Prove == Evidence /\ UNCHANGED <<status, builds, verified>>

\* A failed attempt keeps its evidence and the rung it had reached.
Fail == Evidence /\ status' = "failed" /\ UNCHANGED <<builds, verified>>

ClaimBuilds ==
  /\ Evidence
  /\ built' = Len(recipes[bundle])
  /\ builds' = TRUE
  /\ UNCHANGED <<status, verified>>

\* Everything is proved; a bundle without commands completes unverified.
Complete ==
  /\ status = "running" /\ builds
  /\ checked = Len(checks[bundle])
  /\ status' = "completed"
  /\ verified' = (checks[bundle] # <<>>)
  /\ UNCHANGED <<attempt, bundle, built, checked, builds>>

Next == Begin \/ Prove \/ Fail \/ ClaimBuilds \/ Complete

Spec == Init /\ [][Next]_ladder
=============================================================================
