---------------------------- MODULE MCWorkspace -----------------------------
EXTENDS Workspace

Text(parses, template, paths, names) ==
  [parses |-> parses, template |-> template, paths |-> paths, names |-> names,
   large |-> FALSE]

Recipe == Text(TRUE, TRUE, {"lib", "bin"}, {})

\* The recipe, with an entry less, without the parameter, not parsing and with
\* an entry less, without its template, with a name more that is valid, with one
\* that is not, and over the limit.
MCTexts == {
  Recipe,
  Text(TRUE, TRUE, {"lib"}, {}),
  Text(TRUE, TRUE, NoPaths, {}),
  Text(FALSE, TRUE, {"lib"}, {}),
  Text(TRUE, FALSE, {"lib", "bin"}, {}),
  Text(TRUE, TRUE, {"lib", "bin"}, {"valid"}),
  Text(TRUE, TRUE, {"lib", "bin"}, {"unknown"}),
  [Recipe EXCEPT !.large = TRUE]}
=============================================================================
