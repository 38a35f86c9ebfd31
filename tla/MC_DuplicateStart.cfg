\* The runner calls start() twice on a one-thread stressor.
CONSTANTS
  NumThreads = 1
  NumOps = 1
  OpRate = 0
  Starts = 2
  DbMayFail = FALSE
  MaxTime = 0
  k1 = k1
  k2 = k2
  Keys <- MCKeysOne
SPECIFICATION Spec
INVARIANT StatsMatchHistory
CHECK_DEADLOCK FALSE
