CONSTANTS
  Runs = {r1, r2}
  Modules = {m1}
  None = None
  Old = Old
SPECIFICATION Spec
PROPERTY LiveLockStays
CHECK_DEADLOCK FALSE
