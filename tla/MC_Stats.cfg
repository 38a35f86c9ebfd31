\* Two threads, two operations each, no limiter, RocksDB calls that may
\* fail: the statistics, lifecycle and timing questions.
CONSTANTS
  NumThreads = 2
  NumOps = 2
  OpRate = 0
  Starts = 1
  DbMayFail = TRUE
  MaxTime = 2
  k1 = k1
  k2 = k2
  Keys <- MCKeysOne
SPECIFICATION Spec
INVARIANTS
  TypeOK
  StatsMatchHistory
  FinishAfterWorkers
PROPERTIES
  
  Termination
\* The process exits once the stressor is destroyed.
CHECK_DEADLOCK FALSE
