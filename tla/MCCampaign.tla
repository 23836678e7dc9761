----------------------------- MODULE MCCampaign -----------------------------
(* A TLC instance of Campaign.                                             *)
EXTENDS Campaign

CONSTANTS r1, r2, p1, large, bare, broken, empty

\* Four bundles of one package: two recipes and a profile with a command;
\* one recipe and no command; one whose manifest cannot be used; one of nothing.
MCRecipes == [b \in Bundles |->
               IF b = large THEN <<r1, r2>> ELSE IF b = empty THEN <<>> ELSE <<r2>>]
MCChecks == [b \in Bundles |-> IF b = large THEN <<p1>> ELSE <<>>]
=============================================================================
