CONSTANTS
  r1 = r1
  r2 = r2
  p1 = p1
  large = large
  bare = bare
  broken = broken
  empty = empty
  Names = {r1, r2, p1}
  Bundles = {large, bare, broken, empty}
  Malformed = {broken}
  recipes <- MCRecipes
  checks <- MCChecks
  Owners = {w1, w2}
  None = None
  MaxAttempts = 3
SPECIFICATION FairSpec
INVARIANT AttemptsAccounted
INVARIANT FailuresHaveFindings
INVARIANT SupersededBacked
INVARIANT CompletedClosesFindings
INVARIANT FreshInstallPath
INVARIANT InFlightIsNamed
PROPERTY FindingsOnlyClose
PROPERTY ImplementsLadder
PROPERTY AttemptsConclude
CHECK_DEADLOCK FALSE
