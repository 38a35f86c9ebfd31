\* Two Java threads, one key, two values, up to two wrappers.
CONSTANTS
  t1 = t1
  t2 = t2
  k1 = k1
  v1 = v1
  v2 = v2
  Nil = Nil
  NoThread = NoThread
  NoCache = NoCache
  Threads <- MCThreads
  Keys <- MCKeys
  Vals <- MCVals
  Cfgs <- MCCfgs
  MaxPools = 1
  MaxInits = 2
SPECIFICATION Spec
INVARIANTS TypeOK NoUseAfterFree
 
