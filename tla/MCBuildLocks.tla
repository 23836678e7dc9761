---------------------------- MODULE MCBuildLocks ----------------------------
(* Three runs over two modules. *)
EXTENDS BuildLocks, TLC

Symmetry == Permutations(Runs) \cup Permutations(Modules)
=============================================================================
