------------------------------ MODULE MCLedger ------------------------------
(* TLC instance of Ledger.                                                 *)
EXTENDS Ledger

CONSTANTS a, b, n, e

\* Two records with different content under one event, and one without event.
MCEventOf == [r \in Records |-> IF r \in {a, b} THEN e ELSE None]

Symmetry == Permutations(Writers) \union Permutations(Signers)
=============================================================================
