---------------------------- MODULE MCTreeCache -----------------------------
EXTENDS TreeCache, TLC

CONSTANTS p1, p2, c1, h1, h2, h3, a, b, c

\* The head h1 adds a and b; h2 takes a back, and h3 changes more files than
\* GitHub lists.
MCPages == h1 :> <<{a}, {b}>> @@ h2 :> <<{b}>> @@ h3 :> <<{a}, {b}, {c}>>
MCRemoved == h1 :> {} @@ h2 :> {} @@ h3 :> {a}
MCText == c1 :> {a, b} @@ h1 :> {a, b} @@ h2 :> {b} @@ h3 :> {b, c}

Symmetry == Permutations({p1, p2})
=============================================================================
