CONSTANTS
  Runs = {r1, r2, r3}
  Modules = {m1, m2}
  None = None
  Old = Old
SPECIFICATION Spec
SYMMETRY Symmetry
INVARIANT ExclusiveUntilStolen
INVARIANT OwnLocksGone
PROPERTY OldLocksStay
CHECK_DEADLOCK FALSE
