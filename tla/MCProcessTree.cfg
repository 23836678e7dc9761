CONSTANTS
  NoParent = NoParent
  Pids = {c, p1, p2, p3, p4}
  child = c
  Rounds = 2
SPECIFICATION PTFairSpec
INVARIANT StoppedRunIsGone
INVARIANT NoneLeftStopped
PROPERTY StopReturns
CHECK_DEADLOCK FALSE
