\* Two threads, one operation each, no limiter, RocksDB calls succeed.
CONSTANTS
  NumThreads = 2
  NumOps = 1
  OpRate = 0
  Starts = 1
  DbMayFail = FALSE
  MaxTime = 0
  k1 = k1
  k2 = k2
  Keys <- MCKeysOne
SPECIFICATION Spec
INVARIANT CacheStatsExact
CHECK_DEADLOCK FALSE
