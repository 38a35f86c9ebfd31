--------------------------- MODULE RocksDbStressor ---------------------------
(***************************************************************************)
(* The RocksDB stress harness of cachebench (runner/RocksDbStressor.cpp)   *)
(* together with the RocksDbCache it drives (cache/RocksDbCache.cpp).      *)
(*                                                                         *)
(* One main thread (the runner) calls start(), finish() and, through the   *)
(* destructor, finish() again.  start() spawns numThreads worker threads;  *)
(* each runs worker(tid): the loop head, the token-bucket borrow and wait, *)
(* getReq, the RocksDB call and the statistics updates.                    *)
(*                                                                         *)
(* Every "++counter" on memory shared between threads (the cache's stats_  *)
(* and the per-thread slot thrStats_[tid]) is a load followed by a store:  *)
(* a worker loads a counter in one step and stores the incremented value   *)
(* in a later one.  The store of one counter and the load of the next are  *)
(* taken in one step: they touch different locations, so no outcome is     *)
(* lost by it.  The workload generator is an external collaborator: its    *)
(* answer to getReq is a nondeterministic request or EndOfTrace.           *)
(***************************************************************************)
EXTENDS Integers, Sequences, FiniteSets

CONSTANTS
  NumThreads,  \* sCfg_.numThreads
  NumOps,      \* sCfg_.numOps, the per-thread quota
  OpRate,      \* sCfg_.opRatePerSec; 0 disables the limiter
  Starts,      \* how many times the runner calls start()
  Keys,        \* the keys requests name
  DbMayFail,   \* whether a RocksDB Put/Get/Delete may return a non-ok status
  MaxTime      \* clock ticks beyond which time advances only for a sleeper

ASSUME NumThreadsAssumption == NumThreads \in Nat \ {0}
ASSUME NumOpsAssumption == NumOps \in Nat
ASSUME OpRateAssumption == OpRate \in Nat
ASSUME StartsAssumption == Starts \in Nat \ {0}
ASSUME KeysAssumption == Keys # {}
ASSUME DbMayFailAssumption == DbMayFail \in BOOLEAN
ASSUME MaxTimeAssumption == MaxTime \in Nat

(***************************************************************************)
(* Thread t of the s-th call of start() is worker <<s, t>>; its stats slot *)
(* is thrStats_[t].  Time is counted in units of 1/OpRate seconds, so the  *)
(* token bucket refills one token per unit and its burst, equal to the    *)
(* rate, is OpRate tokens.                                                 *)
(***************************************************************************)
Tids == 0 .. NumThreads - 1
Workers == (1 .. Starts) \X Tids
Slot(w) == w[2]
Burst == OpRate

\* OpType cases of the switch: kSet and kLoneSet share a case, kGet and
\* kLoneGet share a case; "other" is every kind that hits the default.
Ops == {"set", "get", "del", "other"}

ThreadFields == {"ops", "set", "get", "getMiss", "del"}
CacheFields == {"allocAttempts", "numCacheGetMiss", "numCacheGets"}

\* stop_ is initialised false and nothing in the code stores to it.
stop == FALSE

VARIABLES
  mpc,         \* main thread: "constructed", "started", "finished", "destroyed"
  starts,      \* calls of start() so far
  threads,     \* the workers in threads_ (spawned and not yet cleared)
  now,         \* steady_clock
  startTime,   \* startTime_
  endTime,     \* endTime_
  pc,          \* worker control point
  i,           \* worker loop counter i
  tmp,         \* value a worker loaded for its pending increment
  todo,        \* the increments of the current iteration still to store
  wakeAt,      \* when a worker's borrowed token is paid for
  zero,        \* the token bucket's zeroTime
  db,          \* keys present in the RocksDB instance
  cstats,      \* RocksDbCache::stats_
  thrStats,    \* thrStats_
  finishCalls, \* wg_->markFinish() calls per worker
  shutdowns,   \* wg_->markShutdown() calls
  granted,     \* history: borrows whose wait has elapsed
  hist,        \* history: per worker, the counts the spec says it made
  cHist,       \* history: RocksDB results each cache counter stands for
  lastOp       \* history: when the latest counted operation completed

mainVars == <<mpc, starts, threads, startTime, endTime>>
workerVars == <<pc, i, tmp, todo, wakeAt>>
envVars == <<zero, db, cstats, thrStats, finishCalls, shutdowns>>
ghostVars == <<granted, hist, cHist, lastOp>>
vars == <<mainVars, now, workerVars, envVars, ghostVars>>

ZeroThread == [f \in ThreadFields |-> 0]
ZeroCache == [f \in CacheFields |-> 0]

\* One racy increment: counter f of object obj is raised by amt.
Incr == [obj : {"cache"}, f : CacheFields, amt : {0, 1}]
          \cup [obj : {"thread"}, f : ThreadFields, amt : {0, 1}]
C(f) == [obj |-> "cache", f |-> f, amt |-> 1]
T(f, a) == [obj |-> "thread", f |-> f, amt |-> a]

Load(w, e) == IF e.obj = "cache" THEN cstats[e.f] ELSE thrStats[Slot(w)][e.f]

Write(w, e, v) ==
  IF e.obj = "cache"
    THEN /\ cstats' = [cstats EXCEPT ![e.f] = v]
         /\ UNCHANGED thrStats
    ELSE /\ thrStats' = [thrStats EXCEPT ![Slot(w)][e.f] = v]
         /\ UNCHANGED cstats

-----------------------------------------------------------------------------
(***************************************************************************)
(* RocksDbCache: the status a call can return and its effect on the DB.    *)
(***************************************************************************)
Fail == IF DbMayFail THEN {"error"} ELSE {}

DbStatus(op, k) ==
  CASE op = "get" -> {IF k \in db THEN "ok" ELSE "notfound"} \cup Fail
    [] op \in {"set", "del"} -> {"ok"} \cup Fail
    [] OTHER -> {"none"}

DbNext(op, k, st) ==
  CASE op = "set" /\ st = "ok" -> db \cup {k}
    [] op = "del" /\ st = "ok" -> db \ {k}
    [] OTHER -> db

\* The counters RocksDbCache::set/get raise for a result.
CacheIncrs(op, st) ==
  CASE op = "set" /\ st = "ok" -> <<C("allocAttempts")>>
    [] op = "get" /\ st = "notfound" -> <<C("numCacheGetMiss")>>
    [] op = "get" /\ st = "ok" -> <<C("numCacheGets")>>
    [] OTHER -> <<>>

\* Mutation: the miss counter raised on a hit.
ThreadIncrsMissOnHit(op, st) ==
  CASE op = "set" -> <<T("set", 1), T("ops", 1)>>
    [] op = "get" -> <<T("get", 1), T("getMiss", IF st = "ok" THEN 1 ELSE 0),
                       T("ops", 1)>>
    [] op = "del" -> <<T("del", 1), T("ops", 1)>>
    [] OTHER -> <<T("ops", 1)>>

\* The switch of worker() and the ++ops after it.
ThreadIncrs(op, st) ==
  CASE op = "set" -> <<T("set", 1), T("ops", 1)>>
    [] op = "get" -> <<T("get", 1), T("getMiss", IF st = "ok" THEN 0 ELSE 1),
                       T("ops", 1)>>
    [] op = "del" -> <<T("del", 1), T("ops", 1)>>
    [] OTHER -> <<T("ops", 1)>>

\* What spec section 4.2 says an iteration adds to the thread's counters.
SpecDelta(op, st) ==
  [f \in ThreadFields |->
     CASE f = "ops" -> 1
       [] f = "getMiss" -> IF op = "get" /\ st # "ok" THEN 1 ELSE 0
       [] OTHER -> IF f = op THEN 1 ELSE 0]

CacheDelta(op, st) ==
  [f \in CacheFields |->
     IF \E j \in DOMAIN CacheIncrs(op, st) : CacheIncrs(op, st)[j].f = f
       THEN 1 ELSE 0]

\* Mutation: the wait ends at the zeroTime before this token is taken.
BorrowEarly(z, t) == IF z > t - Burst THEN z ELSE t - Burst

\* folly::BasicTokenBucket::consumeWithBorrowNonBlocking(1): the new
\* zeroTime, which is also the time the borrowed token is paid for.
Borrow(z, t) == (IF z > t - Burst THEN z ELSE t - Burst) + 1

-----------------------------------------------------------------------------
Init ==
  /\ mpc = "constructed"
  /\ starts = 0
  /\ threads = {}
  /\ now = 0
  /\ startTime = 0
  /\ endTime = 0
  /\ pc = [w \in Workers |-> "idle"]
  /\ i = [w \in Workers |-> 0]
  /\ tmp = [w \in Workers |-> 0]
  /\ todo = [w \in Workers |-> <<>>]
  /\ wakeAt = [w \in Workers |-> 0]
  /\ zero = -Burst
  \* /tmp/cachebench_rocks is opened with create_if_missing: it may hold
  \* the keys of an earlier run.
  /\ db \in SUBSET Keys
  /\ cstats = ZeroCache
  /\ thrStats = [t \in Tids |-> ZeroThread]
  /\ finishCalls = [w \in Workers |-> 0]
  /\ shutdowns = 0
  /\ granted = 0
  /\ hist = [w \in Workers |-> ZeroThread]
  /\ cHist = ZeroCache
  /\ lastOp = 0

-----------------------------------------------------------------------------
(***************************************************************************)
(* Main thread.                                                            *)
(***************************************************************************)

\* start(): record startTime_, then spawn numThreads threads into threads_.
Start ==
  /\ mpc \in {"constructed", "started"}
  /\ starts < Starts
  /\ LET new == {<<starts + 1, t>> : t \in Tids}
     IN /\ startTime' = now
        /\ threads' = threads \cup new
        /\ pc' = [w \in Workers |-> IF w \in new THEN "head" ELSE pc[w]]
  /\ starts' = starts + 1
  /\ mpc' = "started"
  /\ UNCHANGED <<endTime, now, i, tmp, todo, wakeAt, envVars, ghostVars>>

\* Mutation: endTime_ and markShutdown() without joining the threads.
FinishBodyNoJoin ==
  /\ threads' = {}
  /\ endTime' = now
  /\ shutdowns' = shutdowns + 1
  /\ UNCHANGED <<starts, startTime, now, workerVars, zero, db, cstats,
                 thrStats, finishCalls, ghostVars>>

\* finish(): join every joinable thread, clear threads_, record endTime_,
\* then markShutdown().
FinishBody ==
  /\ \A w \in threads : pc[w] = "done"
  /\ threads' = {}
  /\ endTime' = now
  /\ shutdowns' = shutdowns + 1
  /\ UNCHANGED <<starts, startTime, now, workerVars, zero, db, cstats,
                 thrStats, finishCalls, ghostVars>>

\* The runner's own call of finish().
Finish ==
  /\ mpc = "started"
  /\ mpc' = "finished"
  /\ FinishBody

\* ~RocksDbStressor() calls finish() once more.
Destroy ==
  /\ mpc # "destroyed"
  /\ mpc' = "destroyed"
  /\ FinishBody

-----------------------------------------------------------------------------
(***************************************************************************)
(* Worker threads: worker(tid).                                            *)
(***************************************************************************)

\* Mutation: the loop condition without the quota i < numOps.
LoopContinueNoQuota(w) ==
  /\ pc[w] = "head"
  /\ ~stop
  /\ IF OpRate > 0
       THEN LET z == Borrow(zero, now)
            IN /\ zero' = z
               /\ wakeAt' = [wakeAt EXCEPT ![w] = z]
               /\ pc' = [pc EXCEPT ![w] = "wait"]
       ELSE /\ pc' = [pc EXCEPT ![w] = "fetch"]
            /\ UNCHANGED <<zero, wakeAt>>
  /\ UNCHANGED <<mainVars, now, i, tmp, todo, db, cstats, thrStats,
                 finishCalls, shutdowns, ghostVars>>

\* Loop head with i < numOps and !stop_: with a limiter, borrow a token.
LoopContinue(w) ==
  /\ pc[w] = "head"
  /\ i[w] < NumOps /\ ~stop
  /\ IF OpRate > 0
       THEN LET z == Borrow(zero, now)
            IN /\ zero' = z
               /\ wakeAt' = [wakeAt EXCEPT ![w] = z]
               /\ pc' = [pc EXCEPT ![w] = "wait"]
       ELSE /\ pc' = [pc EXCEPT ![w] = "fetch"]
            /\ UNCHANGED <<zero, wakeAt>>
  /\ UNCHANGED <<mainVars, now, i, tmp, todo, db, cstats, thrStats,
                 finishCalls, shutdowns, ghostVars>>

\* The loop condition fails: leave the loop and call markFinish().
LoopExit(w) ==
  /\ pc[w] = "head"
  /\ ~(i[w] < NumOps /\ ~stop)
  /\ pc' = [pc EXCEPT ![w] = "done"]
  /\ finishCalls' = [finishCalls EXCEPT ![w] = @ + 1]
  /\ UNCHANGED <<mainVars, now, i, tmp, todo, wakeAt, zero, db, cstats,
                 thrStats, shutdowns, ghostVars>>

\* Mutation: the sleeper wakes one unit after its token is paid for.
WakeLate(w) ==
  /\ pc[w] = "wait"
  /\ now > wakeAt[w]
  /\ pc' = [pc EXCEPT ![w] = "fetch"]
  /\ granted' = granted + 1
  /\ UNCHANGED <<mainVars, now, i, tmp, todo, wakeAt, envVars, hist,
                 cHist, lastOp>>

\* consumeWithBorrowAndWait returns once the borrowed token is paid for.
Wake(w) ==
  /\ pc[w] = "wait"
  /\ now >= wakeAt[w]
  /\ pc' = [pc EXCEPT ![w] = "fetch"]
  /\ granted' = granted + 1
  /\ UNCHANGED <<mainVars, now, i, tmp, todo, wakeAt, envVars, hist,
                 cHist, lastOp>>

\* Mutation: the catch block continues the loop instead of breaking.
ExhaustedContinue(w) ==
  /\ pc[w] = "fetch"
  /\ pc' = [pc EXCEPT ![w] = "head"]
  /\ UNCHANGED <<mainVars, now, i, tmp, todo, wakeAt, envVars, ghostVars>>

\* getReq throws EndOfTrace: break out of the loop, then markFinish().
Exhausted(w) ==
  /\ pc[w] = "fetch"
  /\ pc' = [pc EXCEPT ![w] = "done"]
  /\ finishCalls' = [finishCalls EXCEPT ![w] = @ + 1]
  /\ UNCHANGED <<mainVars, now, i, tmp, todo, wakeAt, zero, db, cstats,
                 thrStats, shutdowns, ghostVars>>

\* getReq returns a request; the RocksDB call runs and the first counter
\* to raise is loaded.
Fetch(w) ==
  /\ pc[w] = "fetch"
  /\ \E op \in Ops, k \in Keys :
       \E st \in DbStatus(op, k) :
         LET incs == CacheIncrs(op, st) \o ThreadIncrs(op, st)
         IN /\ db' = DbNext(op, k, st)
            /\ todo' = [todo EXCEPT ![w] = incs]
            /\ tmp' = [tmp EXCEPT ![w] = Load(w, Head(incs))]
            /\ hist' = [hist EXCEPT ![w] =
                          [f \in ThreadFields |-> @[f] + SpecDelta(op, st)[f]]]
            /\ cHist' = [f \in CacheFields |-> cHist[f] + CacheDelta(op, st)[f]]
  /\ pc' = [pc EXCEPT ![w] = "inc"]
  /\ UNCHANGED <<mainVars, now, i, wakeAt, zero, cstats, thrStats,
                 finishCalls, shutdowns, granted, lastOp>>

\* Mutation: the next counter is not reloaded; its store uses the value
\* loaded for the previous one.
StoreNextStaleTmp(w) ==
  /\ pc[w] = "inc"
  /\ Len(todo[w]) > 1
  /\ Write(w, Head(todo[w]), tmp[w] + Head(todo[w]).amt)
  /\ todo' = [todo EXCEPT ![w] = Tail(@)]
  /\ UNCHANGED <<mainVars, now, pc, i, tmp, wakeAt, zero, db, finishCalls,
                 shutdowns, ghostVars>>

\* Store a counter and load the next one.
StoreNext(w) ==
  /\ pc[w] = "inc"
  /\ Len(todo[w]) > 1
  /\ Write(w, Head(todo[w]), tmp[w] + Head(todo[w]).amt)
  /\ tmp' = [tmp EXCEPT ![w] = Load(w, todo[w][2])]
  /\ todo' = [todo EXCEPT ![w] = Tail(@)]
  /\ UNCHANGED <<mainVars, now, pc, i, wakeAt, zero, db, finishCalls,
                 shutdowns, ghostVars>>

\* Store ++ops, then ++i (notifyResult is a call on the generator, whose
\* result bookkeeping no property reads).
StoreLast(w) ==
  /\ pc[w] = "inc"
  /\ Len(todo[w]) = 1
  /\ Write(w, Head(todo[w]), tmp[w] + Head(todo[w]).amt)
  /\ todo' = [todo EXCEPT ![w] = <<>>]
  /\ i' = [i EXCEPT ![w] = @ + 1]
  /\ pc' = [pc EXCEPT ![w] = "head"]
  /\ lastOp' = now
  /\ UNCHANGED <<mainVars, now, tmp, wakeAt, zero, db, finishCalls,
                 shutdowns, granted, hist, cHist>>

\* steady_clock advances; past MaxTime only while a sleeper needs it.
Tick ==
  /\ \/ now < MaxTime
     \/ \E w \in Workers : pc[w] = "wait" /\ now < wakeAt[w]
  /\ now' = now + 1
  /\ UNCHANGED <<mainVars, workerVars, envVars, ghostVars>>

Worker(w) ==
  \/ LoopContinue(w) \/ LoopExit(w) \/ Wake(w)
  \/ Exhausted(w) \/ Fetch(w) \/ StoreNext(w) \/ StoreLast(w)

Main == Start \/ Finish \/ Destroy

Next == Main \/ Tick \/ \E w \in Workers : Worker(w)

\* Threads are scheduled by the OS and the runner runs to completion.
Fairness ==
  /\ WF_vars(Main)
  /\ WF_vars(Tick)
  /\ \A w \in Workers : WF_vars(Worker(w))

Spec == Init /\ [][Next]_vars /\ Fairness

-----------------------------------------------------------------------------
(***************************************************************************)
(* Properties.                                                             *)
(***************************************************************************)

TypeOK ==
  /\ mpc \in {"constructed", "started", "finished", "destroyed"}
  /\ starts \in 0 .. Starts
  /\ threads \subseteq Workers
  /\ now \in Nat /\ startTime \in Nat /\ endTime \in Nat
  /\ pc \in [Workers -> {"idle", "head", "wait", "fetch", "inc", "done"}]
  /\ i \in [Workers -> 0 .. NumOps]
  /\ tmp \in [Workers -> Nat]
  /\ todo \in [Workers -> Seq(Incr)]
  /\ wakeAt \in [Workers -> Int]
  /\ zero \in Int
  /\ db \subseteq Keys
  /\ cstats \in [CacheFields -> Nat]
  /\ thrStats \in [Tids -> [ThreadFields -> Nat]]
  /\ finishCalls \in [Workers -> Nat]
  /\ shutdowns \in Nat /\ granted \in Nat
  /\ hist \in [Workers -> [ThreadFields -> Nat]]
  /\ cHist \in [CacheFields -> Nat]
  /\ lastOp \in Nat

\* Sum over the workers that share slot t (one per call of start()).
SlotHist(t, f) ==
  LET S[n \in 0 .. Starts] == IF n = 0 THEN 0 ELSE S[n - 1] + hist[<<n, t>>][f]
  IN S[Starts]

\* Spec 3 and 4.4: every slot of thrStats_ that no thread is updating holds
\* exactly what the spec says its iterations counted (ops = set + get + del
\* + unsupported, getMiss = gets that missed), so aggregateThroughputStats()
\* after finish() is exact whatever the interleaving.
StatsMatchHistory ==
  \A t \in Tids :
    (\A s \in 1 .. Starts : pc[<<s, t>>] # "inc")
      => \A f \in ThreadFields : thrStats[t][f] = SlotHist(t, f)

\* The counters of thrStats_ are only ever raised: no step of any worker
\* stores into a slot a value below the one it holds (a lost update, a
\* stale load or a store into the wrong counter would).
SlotsOnlyGrow ==
  [][\A t \in Tids, f \in ThreadFields : thrStats'[t][f] >= thrStats[t][f]]_thrStats

\* Spec 8: with opRatePerSec > 0 the harness issues no more operations than
\* rate * elapsed + burst (the limiter passes at most now + Burst tokens).
RateLimitRespected ==
  OpRate > 0 => granted <= now + Burst

\* Some counted operation has completed.
opsDone == \E w \in Workers : i[w] > 0

\* finish() waits for the workers: every worker calls markFinish() at most
\* once; once markShutdown() has been called every spawned worker has called
\* markFinish(); and once finish() has returned, [startTime_, endTime_]
\* covers every counted operation, so getTestDurationNs() measures the
\* whole run.
FinishAfterWorkers ==
  /\ \A w \in Workers : finishCalls[w] <= 1
  /\ shutdowns > 0 =>
       \A w \in Workers : pc[w] # "idle" => finishCalls[w] = 1
  /\ mpc \in {"finished", "destroyed"} /\ opsDone =>
       startTime <= lastOp /\ lastOp <= endTime

\* Spec 5: the cache handle is shared by all workers and must be safe for
\* concurrent use; so whenever no worker is between loading and storing a
\* counter, RocksDbCache::getStats() counts every Put, hit and miss that
\* RocksDB returned.
CacheStatsExact ==
  (\A w \in Workers : pc[w] # "inc") => cstats = cHist

\* Spec 8: calling finish() twice gives the same duration both times, so
\* once finish() has returned endTime_ never changes.
FinishIdempotent ==
  [][(mpc \in {"finished", "destroyed"}) => (endTime' = endTime)]_vars

\* Spec 8 (scenario C and E): every worker's loop ends, markFinish() is
\* called, and the stressor is destroyed.
Termination ==
  <>(mpc = "destroyed" /\ \A w \in Workers : pc[w] \in {"idle", "done"})

=============================================================================
