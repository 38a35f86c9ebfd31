\* Two threads, two operations each, the limiter at one token per time
\* unit with a burst of one; RocksDB calls succeed.
CONSTANTS
  NumThreads = 2
  NumOps = 2
  OpRate = 1
  Starts = 1
  DbMayFail = FALSE
  MaxTime = 2
  k1 = k1
  k2 = k2
  Keys <- MCKeysOne
SPECIFICATION Spec
INVARIANTS
  
  RateLimitRespected

  
\* The process exits once the stressor is destroyed.
CHECK_DEADLOCK FALSE
