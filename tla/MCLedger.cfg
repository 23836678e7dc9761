CONSTANTS
  a = a
  b = b
  n = n
  e = e
  None = None
  Records = {a, b, n}
  Events = {e}
  eventOf <- MCEventOf
  Writers = {w1, w2}
  Signers = {s1, s2}
  MaxLines = 2
  MaxLosses = 1
SPECIFICATION Spec
SYMMETRY Symmetry
INVARIANT AckedDurable
INVARIANT EventRecordedOnce
INVARIANT AppendsToItsHead
INVARIANT HeadsHold
PROPERTY HeadAdvances
PROPERTY TailsKept
PROPERTY KeepsPromise
CHECK_DEADLOCK FALSE
