------------------------ MODULE RocksDbStressorProofs ------------------------
(***************************************************************************)
(* Proofs about RocksDbStressor.                                           *)
(***************************************************************************)
EXTENDS RocksDbStressor, SequenceTheorems, TLAPS

(***************************************************************************)
(* TypeOK is not inductive: StoreLast raises i, which stays within         *)
(* 0..NumOps only because a worker past the loop head is in an iteration   *)
(* the quota allowed, and StoreNext/StoreLast take Head(todo), which exists *)
(* only because a worker in "inc" has an increment left to store.          *)
(***************************************************************************)
InIteration(w) == pc[w] \in {"wait", "fetch", "inc"}

TypeInv ==
  /\ TypeOK
  /\ \A w \in Workers : InIteration(w) => i[w] < NumOps
  /\ \A w \in Workers : pc[w] = "inc" => todo[w] # <<>>

(***************************************************************************)
(* FinishAfterWorkers is not inductive either.  With start() called once:  *)
(* a worker has called markFinish() exactly when it is done; every running *)
(* worker is still in threads_, which finish() joins; before start() no    *)
(* worker has run; once finish() has returned no worker is running; and    *)
(* the clock bounds both timestamps and the latest operation.              *)
(***************************************************************************)
Running(w) == pc[w] \notin {"idle", "done"}

FinishInv ==
  /\ TypeInv
  /\ \A w \in Workers : finishCalls[w] = IF pc[w] = "done" THEN 1 ELSE 0
  /\ \A w \in Workers : Running(w) => w \in threads
  /\ starts = 0 => \A w \in Workers : pc[w] = "idle" /\ i[w] = 0
  /\ mpc = "constructed" => starts = 0
  /\ shutdowns > 0 => mpc \in {"finished", "destroyed"}
  /\ mpc \in {"finished", "destroyed"} =>
       /\ \A w \in Workers : ~Running(w)
       /\ lastOp <= endTime
  /\ startTime <= now /\ lastOp <= now
  /\ opsDone => startTime <= lastOp

-----------------------------------------------------------------------------
(***************************************************************************)
(* Lemmas about the helpers the actions are built from.                    *)
(***************************************************************************)

\* Every iteration has at least one increment (the ++ops), and each names a
\* counter of the object it belongs to.
LEMMA IncrsTyped ==
  ASSUME NEW op \in Ops, NEW st \in {"ok", "notfound", "error", "none"}
  PROVE  /\ CacheIncrs(op, st) \o ThreadIncrs(op, st) \in Seq(Incr)
         /\ CacheIncrs(op, st) \o ThreadIncrs(op, st) # <<>>
<1>1. CacheIncrs(op, st) \in Seq(Incr)
  <2>1. {<<C("allocAttempts")>>, <<C("numCacheGetMiss")>>, <<C("numCacheGets")>>,
         <<>>} \subseteq Seq(Incr)
    BY DEF C, Incr, CacheFields
  <2>2. CacheIncrs(op, st) \in {<<C("allocAttempts")>>, <<C("numCacheGetMiss")>>,
                                <<C("numCacheGets")>>, <<>>}
    BY Zenon DEF CacheIncrs
  <2>3. QED
    BY <2>1, <2>2
<1>2. ThreadIncrs(op, st) \in Seq(Incr) /\ Len(ThreadIncrs(op, st)) >= 1
  <2>1. \A f \in ThreadFields, a \in {0, 1} : T(f, a) \in Incr
    BY DEF T, Incr
  <2>2. CASE op = "set"
    BY <2>1, <2>2 DEF ThreadIncrs, ThreadFields
  <2>3. CASE op = "get"
    BY <2>1, <2>3 DEF ThreadIncrs, ThreadFields
  <2>4. CASE op = "del"
    BY <2>1, <2>4 DEF ThreadIncrs, ThreadFields
  <2>5. CASE op = "other"
    BY <2>1, <2>5 DEF ThreadIncrs, ThreadFields
  <2>6. QED
    BY <2>2, <2>3, <2>4, <2>5 DEF Ops
<1>3. QED
  BY <1>1, <1>2

\* A natural number above one has a positive predecessor.
LEMMA PredecessorPositive == \A n \in Nat : \A m : n > 1 /\ m = n - 1 => m # 0
OBVIOUS

\* A loaded counter is a natural number.
LEMMA LoadNat ==
  ASSUME TypeOK, NEW w \in Workers, NEW e \in Incr
  PROVE  Load(w, e) \in Nat
BY DEF TypeOK, Load, Incr, Slot, Workers

\* Storing a natural number into a counter keeps both stats records typed.
LEMMA WriteTyped ==
  ASSUME TypeOK, NEW w \in Workers, NEW e \in Incr, NEW v \in Nat,
         Write(w, e, v)
  PROVE  /\ cstats' \in [CacheFields -> Nat]
         /\ thrStats' \in [Tids -> [ThreadFields -> Nat]]
<1>1. Slot(w) \in Tids
  BY DEF Slot, Workers
<1>2. CASE e.obj = "cache"
  <2>1. e.f \in CacheFields
    BY <1>2 DEF Incr
  <2>2. cstats' = [cstats EXCEPT ![e.f] = v] /\ thrStats' = thrStats
    BY <1>2 DEF Write
  <2>3. QED
    BY <2>1, <2>2 DEF TypeOK
<1>3. CASE e.obj = "thread"
  <2>1. e.f \in ThreadFields
    BY <1>3 DEF Incr
  <2>2. thrStats' = [thrStats EXCEPT ![Slot(w)][e.f] = v] /\ cstats' = cstats
    BY <1>3 DEF Write
  <2>3. QED
    BY <1>1, <2>1, <2>2 DEF TypeOK
<1>4. QED
  BY <1>2, <1>3 DEF Incr

-----------------------------------------------------------------------------
LEMMA InitTypeInv == Init => TypeInv
BY NumOpsAssumption, StartsAssumption, OpRateAssumption
   DEF Init, TypeInv, TypeOK, InIteration, ZeroCache, ZeroThread, Burst

LEMMA NextTypeInv == TypeInv /\ [Next]_vars => TypeInv'
<1> SUFFICES ASSUME TypeInv, [Next]_vars PROVE TypeInv'
  OBVIOUS
<1> USE NumOpsAssumption, StartsAssumption, OpRateAssumption,
        MaxTimeAssumption
<1>1. CASE Start
  <2> DEFINE new == {<<starts + 1, t>> : t \in Tids}
  <2>1. new \subseteq Workers
    BY <1>1 DEF TypeInv, TypeOK, Workers, Start
  <2>2. \A w \in Workers : pc'[w] = IF w \in new THEN "head" ELSE pc[w]
    BY <1>1 DEF Start
  <2>3. QED
    BY <1>1, <2>1, <2>2 DEF Start, TypeInv, TypeOK, InIteration, workerVars,
       envVars, ghostVars
<1>2. CASE Finish \/ Destroy
  BY <1>2 DEF Finish, Destroy, FinishBody, TypeInv, TypeOK, InIteration,
     workerVars, ghostVars
<1>3. CASE Tick
  BY <1>3 DEF Tick, TypeInv, TypeOK, InIteration, mainVars, workerVars,
     envVars, ghostVars
<1>4. ASSUME NEW w \in Workers, LoopContinue(w) PROVE TypeInv'
  <2>1. Borrow(zero, now) \in Int
    BY DEF Borrow, Burst, TypeInv, TypeOK
  <2>2. CASE OpRate > 0
    <3>1. /\ zero' = Borrow(zero, now)
          /\ wakeAt' = [wakeAt EXCEPT ![w] = Borrow(zero, now)]
          /\ pc' = [pc EXCEPT ![w] = "wait"]
      BY <1>4, <2>2 DEF LoopContinue
    <3>2. QED
      BY <1>4, <2>1, <3>1 DEF LoopContinue, TypeInv, TypeOK, InIteration,
         mainVars, ghostVars
  <2>3. CASE ~(OpRate > 0)
    <3>1. pc' = [pc EXCEPT ![w] = "fetch"] /\ UNCHANGED <<zero, wakeAt>>
      BY <1>4, <2>3 DEF LoopContinue
    <3>2. QED
      BY <1>4, <3>1 DEF LoopContinue, TypeInv, TypeOK, InIteration,
         mainVars, ghostVars
  <2>4. QED
    BY <2>2, <2>3
<1>5. ASSUME NEW w \in Workers, LoopExit(w) PROVE TypeInv'
  BY <1>5 DEF LoopExit, TypeInv, TypeOK, InIteration, mainVars, ghostVars
<1>6. ASSUME NEW w \in Workers, Wake(w) PROVE TypeInv'
  BY <1>6 DEF Wake, TypeInv, TypeOK, InIteration, mainVars, envVars
<1>7. ASSUME NEW w \in Workers, Exhausted(w) PROVE TypeInv'
  BY <1>7 DEF Exhausted, TypeInv, TypeOK, InIteration, mainVars, ghostVars
<1>8. ASSUME NEW w \in Workers, Fetch(w) PROVE TypeInv'
  <2>1. PICK op \in Ops, k \in Keys :
          \E st \in DbStatus(op, k) :
            LET incs == CacheIncrs(op, st) \o ThreadIncrs(op, st)
            IN /\ db' = DbNext(op, k, st)
               /\ todo' = [todo EXCEPT ![w] = incs]
               /\ tmp' = [tmp EXCEPT ![w] = Load(w, Head(incs))]
               /\ hist' = [hist EXCEPT ![w] =
                             [f \in ThreadFields |-> @[f] + SpecDelta(op, st)[f]]]
               /\ cHist' = [f \in CacheFields |->
                              cHist[f] + CacheDelta(op, st)[f]]
    BY <1>8 DEF Fetch
  <2>2. PICK st \in DbStatus(op, k) :
          LET incs == CacheIncrs(op, st) \o ThreadIncrs(op, st)
          IN /\ db' = DbNext(op, k, st)
             /\ todo' = [todo EXCEPT ![w] = incs]
             /\ tmp' = [tmp EXCEPT ![w] = Load(w, Head(incs))]
             /\ hist' = [hist EXCEPT ![w] =
                           [f \in ThreadFields |-> @[f] + SpecDelta(op, st)[f]]]
             /\ cHist' = [f \in CacheFields |->
                            cHist[f] + CacheDelta(op, st)[f]]
    BY <2>1
  <2> DEFINE incs == CacheIncrs(op, st) \o ThreadIncrs(op, st)
  <2>3. st \in {"ok", "notfound", "error", "none"}
    BY DEF DbStatus, Fail
  <2>4. incs \in Seq(Incr) /\ incs # <<>>
    BY <2>3, IncrsTyped
  <2>5. Head(incs) \in Incr
    BY <2>4
  <2>6. Load(w, Head(incs)) \in Nat
    BY <2>5, LoadNat DEF TypeInv
  <2>7. DbNext(op, k, st) \subseteq Keys
    BY DEF DbNext, TypeInv, TypeOK
  <2>8. \A f \in ThreadFields : SpecDelta(op, st)[f] \in Nat
    BY DEF SpecDelta
  <2>9. \A f \in CacheFields : CacheDelta(op, st)[f] \in Nat
    BY DEF CacheDelta
  <2>10. todo' \in [Workers -> Seq(Incr)] /\ tmp' \in [Workers -> Nat]
    BY <2>2, <2>4, <2>6 DEF TypeInv, TypeOK
  <2>11. hist' \in [Workers -> [ThreadFields -> Nat]]
         /\ cHist' \in [CacheFields -> Nat]
    BY <2>2, <2>8, <2>9 DEF TypeInv, TypeOK
  <2>12. pc' = [pc EXCEPT ![w] = "inc"] /\ todo'[w] = incs
    BY <1>8, <2>2 DEF Fetch, TypeInv, TypeOK
  <2>13. QED
    BY <1>8, <2>2, <2>4, <2>7, <2>10, <2>11, <2>12
       DEF Fetch, TypeInv, TypeOK, InIteration, mainVars
<1>9. ASSUME NEW w \in Workers, StoreNext(w) PROVE TypeInv'
  <2>1. Head(todo[w]) \in Incr /\ todo[w][2] \in Incr
    BY <1>9 DEF StoreNext, TypeInv, TypeOK
  <2>2. tmp[w] + Head(todo[w]).amt \in Nat
    BY <2>1 DEF TypeInv, TypeOK, Incr
  <2>3. cstats' \in [CacheFields -> Nat]
        /\ thrStats' \in [Tids -> [ThreadFields -> Nat]]
    BY <1>9, <2>1, <2>2, WriteTyped DEF StoreNext, TypeInv
  <2>4. Load(w, todo[w][2]) \in Nat
    BY <2>1, LoadNat DEF TypeInv
  <2>5. Tail(todo[w]) \in Seq(Incr) /\ Tail(todo[w]) # <<>>
    <3>1. todo[w] \in Seq(Incr) /\ Len(todo[w]) > 1
      BY <1>9 DEF StoreNext, TypeInv, TypeOK
    <3>2. Tail(todo[w]) \in Seq(Incr) /\ Len(Tail(todo[w])) = Len(todo[w]) - 1
      BY <3>1, HeadTailProperties
    <3>3. Len(Tail(todo[w])) # 0
      <4>1. Len(todo[w]) \in Nat
        BY <3>1, LenProperties
      <4>2. QED
        BY <3>1, <3>2, <4>1, PredecessorPositive, Zenon
    <3>4. Len(<<>>) = 0
      OBVIOUS
    <3>5. QED
      BY <3>2, <3>3, <3>4
  <2>6. todo' = [todo EXCEPT ![w] = Tail(todo[w])]
         /\ tmp' = [tmp EXCEPT ![w] = Load(w, todo[w][2])]
    BY <1>9 DEF StoreNext
  <2>7. QED
    BY <1>9, <2>3, <2>4, <2>5, <2>6 DEF StoreNext, TypeInv, TypeOK,
       InIteration, mainVars, ghostVars
<1>10. ASSUME NEW w \in Workers, StoreLast(w) PROVE TypeInv'
  <2>1. Head(todo[w]) \in Incr
    BY <1>10 DEF StoreLast, TypeInv, TypeOK
  <2>2. tmp[w] + Head(todo[w]).amt \in Nat
    BY <2>1 DEF TypeInv, TypeOK, Incr
  <2>3. cstats' \in [CacheFields -> Nat]
        /\ thrStats' \in [Tids -> [ThreadFields -> Nat]]
    BY <1>10, <2>1, <2>2, WriteTyped DEF StoreLast, TypeInv
  <2>4. QED
    BY <1>10, <2>3 DEF StoreLast, TypeInv, TypeOK, InIteration, mainVars
<1>11. CASE UNCHANGED vars
  BY <1>11 DEF vars, mainVars, workerVars, envVars, ghostVars, TypeInv,
     TypeOK, InIteration
<1>12. QED
  BY <1>1, <1>2, <1>3, <1>4, <1>5, <1>6, <1>7, <1>8, <1>9, <1>10, <1>11
     DEF Next, Main, Worker

\* The type invariant of the harness holds in every reachable state, for
\* every number of threads, quota, rate, key set and clock bound: the
\* counters the workers load and store, the loop counter i within the
\* quota numOps, and the token bucket's zeroTime.
THEOREM TypeCorrect == Spec => []TypeOK
<1>1. Init => TypeInv
  BY InitTypeInv
<1>2. TypeInv /\ [Next]_vars => TypeInv'
  BY NextTypeInv
<1>3. TypeInv => TypeOK
  BY DEF TypeInv
<1>4. QED
  BY <1>1, <1>2, <1>3, PTL DEF Spec

-----------------------------------------------------------------------------
LEMMA InitFinishInv == Init => FinishInv
<1> SUFFICES ASSUME Init PROVE FinishInv
  OBVIOUS
<1>1. TypeInv
  BY InitTypeInv
<1>2. QED
  BY <1>1 DEF Init, FinishInv, Running, opsDone

LEMMA NextFinishInv ==
  ASSUME Starts = 1
  PROVE  FinishInv /\ [Next]_vars => FinishInv'
<1> SUFFICES ASSUME FinishInv, [Next]_vars PROVE FinishInv'
  OBVIOUS
<1>0. TypeInv'
  BY NextTypeInv DEF FinishInv
<1> USE DEF FinishInv, Running, opsDone
<1>1. CASE Start
  <2>1. starts = 0
    BY <1>1 DEF Start, TypeInv, TypeOK
  <2>2. \A w \in Workers : w = <<starts + 1, w[2]>> /\ w[2] \in Tids
    BY <2>1 DEF Workers
  <2>3. threads' = Workers /\ \A w \in Workers : pc'[w] = "head"
    <3>1. {<<starts + 1, t>> : t \in Tids} = Workers
      BY <2>1 DEF Workers
    <3>2. threads' = threads \cup {<<starts + 1, t>> : t \in Tids}
          /\ pc' = [w \in Workers |->
                     IF w \in {<<starts + 1, t>> : t \in Tids}
                       THEN "head" ELSE pc[w]]
      BY <1>1 DEF Start
    <3>3. QED
      BY <3>1, <3>2 DEF TypeInv, TypeOK
  <2>4. QED
    BY <1>0, <1>1, <2>1, <2>3 DEF Start, TypeInv, TypeOK, workerVars,
       envVars, ghostVars
<1>2. CASE Finish \/ Destroy
  <2>1. \A w \in Workers : ~Running(w)
    BY <1>2 DEF Finish, Destroy, FinishBody
  <2>2. QED
    BY <1>0, <1>2, <2>1 DEF Finish, Destroy, FinishBody, workerVars,
       ghostVars
<1>3. CASE Tick
  BY <1>0, <1>3 DEF Tick, TypeInv, TypeOK, mainVars, workerVars, envVars,
     ghostVars
\* A worker past start() that is not done: start() has been called and
\* finish() has not returned.
<1>4. ASSUME NEW w \in Workers, Running(w)
      PROVE  starts # 0 /\ mpc \notin {"finished", "destroyed", "constructed"}
  BY <1>4
<1>5. ASSUME NEW w \in Workers, LoopContinue(w) PROVE FinishInv'
  <2>1. Running(w) /\ pc'[w] \in {"wait", "fetch"}
    BY <1>5 DEF LoopContinue, TypeInv, TypeOK
  <2>2. QED
    BY <1>0, <1>4, <1>5, <2>1 DEF LoopContinue, TypeInv, TypeOK, mainVars,
       ghostVars
<1>6. ASSUME NEW w \in Workers, LoopExit(w) PROVE FinishInv'
  BY <1>0, <1>6 DEF LoopExit, TypeInv, TypeOK, mainVars, ghostVars
<1>7. ASSUME NEW w \in Workers, Wake(w) PROVE FinishInv'
  BY <1>0, <1>7 DEF Wake, TypeInv, TypeOK, mainVars, envVars
<1>8. ASSUME NEW w \in Workers, Exhausted(w) PROVE FinishInv'
  BY <1>0, <1>8 DEF Exhausted, TypeInv, TypeOK, mainVars, ghostVars
<1>9. ASSUME NEW w \in Workers, Fetch(w) PROVE FinishInv'
  BY <1>0, <1>9 DEF Fetch, TypeInv, TypeOK, mainVars
<1>10. ASSUME NEW w \in Workers, StoreNext(w) PROVE FinishInv'
  BY <1>0, <1>10 DEF StoreNext, TypeInv, TypeOK, mainVars, ghostVars
<1>11. ASSUME NEW w \in Workers, StoreLast(w) PROVE FinishInv'
  <2>1. Running(w) /\ pc'[w] = "head"
    BY <1>11 DEF StoreLast, TypeInv, TypeOK
  <2>2. QED
    BY <1>0, <1>4, <1>11, <2>1 DEF StoreLast, TypeInv, TypeOK, mainVars
<1>12. CASE UNCHANGED vars
  BY <1>0, <1>12 DEF vars, mainVars, workerVars, envVars, ghostVars
<1>13. QED
  BY <1>1, <1>2, <1>3, <1>5, <1>6, <1>7, <1>8, <1>9, <1>10, <1>11, <1>12
     DEF Next, Main, Worker

\* With start() called once, as the runner does: every worker calls
\* markFinish() at most once, markShutdown() comes after every worker's
\* markFinish(), and after finish() returns [startTime_, endTime_] covers
\* every counted operation, for every number of threads, quota and rate.
THEOREM FinishWaitsForWorkers ==
  ASSUME Starts = 1
  PROVE  Spec => []FinishAfterWorkers
<1>1. Init => FinishInv
  BY InitFinishInv
<1>2. FinishInv /\ [Next]_vars => FinishInv'
  BY NextFinishInv
<1>3. FinishInv => FinishAfterWorkers
  <2> SUFFICES ASSUME FinishInv PROVE FinishAfterWorkers
    OBVIOUS
  <2>1. \A w \in Workers : finishCalls[w] \in {0, 1}
    BY DEF FinishInv
  <2>2. \A w \in Workers : finishCalls[w] <= 1
    BY <2>1
  <2>3. shutdowns > 0 =>
          \A w \in Workers : pc[w] # "idle" => finishCalls[w] = 1
    BY DEF FinishInv, Running
  <2>4. mpc \in {"finished", "destroyed"} /\ opsDone =>
          startTime <= lastOp /\ lastOp <= endTime
    BY DEF FinishInv
  <2>5. QED
    BY <2>2, <2>3, <2>4 DEF FinishAfterWorkers
<1>4. QED
  BY <1>1, <1>2, <1>3, PTL DEF Spec

=============================================================================
