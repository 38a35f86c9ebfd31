\* One thread, one operation; the clock may advance between the runner's
\* finish() and the destructor's.
CONSTANTS
  NumThreads = 1
  NumOps = 1
  OpRate = 0
  Starts = 1
  DbMayFail = FALSE
  MaxTime = 2
  k1 = k1
  k2 = k2
  Keys <- MCKeysOne
SPECIFICATION Spec
PROPERTY FinishIdempotent
CHECK_DEADLOCK FALSE
