SPECIFICATION LocksFairSpec
CONSTANTS
  t1 = t1  t2 = t2
  k1 = k1  k2 = k2
  Threads = {t1, t2}
  Keys = {k1, k2}
  MaxBatch = 2
  MaxDepth = 2
  MaxCalls = 4
INVARIANTS Exclusive NoWaitCycle
PROPERTIES BuiltOnce CallsReturn
CHECK_DEADLOCK FALSE
