CONSTANTS
  p1 = p1 p2 = p2 c1 = c1 h1 = h1 h2 = h2 h3 = h3 a = a b = b c = c
  Planners = {p1, p2}
  Commits = {c1}
  Heads = {h1, h2, h3}
  Files = {a, b, c}
  Pages <- MCPages
  Removed <- MCRemoved
  Text <- MCText
  PageSize = 1
  Limit = 2
SYMMETRY Symmetry
SPECIFICATION Spec
INVARIANT EntryIsItsCommit
