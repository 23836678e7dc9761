CONSTANTS
  t1 = t1
  t2 = t2
  t3 = t3
  t4 = t4
  p1 = p1
  p2 = p2
  p3 = p3
  None = None
  Threads = {t1, t2, t3, t4}
  Processes = {p1, p2, p3}
  proc <- MCProc
  ReadOnly = {p3}
  MaxCalls = 1
SPECIFICATION FairSpec
INVARIANT LockIsNotLost
INVARIANT NeverHoldsAndWaits
PROPERTY ImplementsSharedLock
PROPERTY EveryCallReturns
CHECK_DEADLOCK FALSE
