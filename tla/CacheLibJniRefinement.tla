------------------------- MODULE CacheLibJniRefinement -------------------------
(***************************************************************************)
(* Proof that the JNI binding implements CacheLibAbstract under the        *)
(* refinement mapping CacheView: every native call, split at its locks,   *)
(* takes effect at one step, and every other step leaves the Java-visible  *)
(* cache and results unchanged.                                           *)
(***************************************************************************)
EXTENDS CacheLibJniProofs

\* A thread inside CacheLibWrapper's constructor sees g_cache null: the
\* delete in nativeInit ran first, and it still holds g_cache_mutex.
CtorNull ==
  \A t \in Threads : pc[t] \in {"ctor1", "ctor2"} => gcache = NullPtr

\* The invariant the step simulation rests on.
RefInv == SafeInv /\ CtorNull

-----------------------------------------------------------------------------
\* CtorNull survives a step that leaves g_cache alone and moves no thread
\* into the constructor.
LEMMA CtorNullFrame ==
  ASSUME CtorNull, gcache' = gcache,
         \A u \in Threads : pc'[u] \in {"ctor1", "ctor2"} => pc[u] \in {"ctor1", "ctor2"}
  PROVE  CtorNull'
BY DEF CtorNull

\* A thread in the constructor holds g_cache_mutex, so no other thread is
\* there with it.
LEMMA CtorAlone ==
  ASSUME SafeInv, NEW t \in Threads, pc[t] \in {"ctor1", "ctor2"}
  PROVE  \A u \in Threads \ {t} : pc[u] \notin {"ctor1", "ctor2"}
BY DEF SafeInv, TypeInv, Locked

\* Every step keeps CtorNull.
LEMMA NextCtorNull == RefInv /\ [Next]_vars => CtorNull'
<1> SUFFICES ASSUME RefInv, [Next]_vars PROVE CtorNull'
  OBVIOUS
<1>0. TypeOK /\ CtorNull /\ SafeInv
  BY DEF RefInv, SafeInv, TypeInv
<1>1. CASE Evict
  BY <1>0, <1>1, CtorNullFrame DEF Evict
<1>2. CASE UNCHANGED vars
  BY <1>0, <1>2, CtorNullFrame DEF vars, cacheVars
<1>3. ASSUME NEW t \in Threads, Thread(t) PROVE CtorNull'
  <2>. DEFINE Ctor == {"ctor1", "ctor2"}
  <2>. DEFINE Frame == \A u \in Threads : pc'[u] \in Ctor => pc[u] \in Ctor
  <2>1. CASE CallInit(t) \/ CallCleanup(t) \/ CallWrite(t) \/ CallKey(t)
    <3>1. gcache' = gcache /\ Frame
      BY <1>0, <2>1 DEF TypeOK, CallInit, CallCleanup, CallWrite, CallKey, cacheVars
    <3>. QED BY <3>1, <1>0, CtorNullFrame
  <2>2. CASE Acquire(t)
    <3>1. gcache' = gcache /\ Frame
      BY <1>0, <2>2 DEF TypeOK, Acquire, AfterLock, cacheVars
    <3>. QED BY <3>1, <1>0, CtorNullFrame
  <2>3. CASE Free(t)
    BY <2>3 DEF Free, CtorNull
  <2>4. CASE CtorConfigError(t)
    <3>1. gcache' = gcache /\ Frame
      BY <1>0, <2>4 DEF TypeOK, CtorConfigError, Throw
    <3>. QED BY <3>1, <1>0, CtorNullFrame
  <2>5. CASE CtorAttach(t)
    <3>1. gcache' = gcache /\ Frame
      BY <1>0, <2>5 DEF TypeOK, CtorAttach, cacheVars
    <3>. QED BY <3>1, <1>0, CtorNullFrame
  <2>6. CASE CtorNew(t) \/ CtorAttached(t)
    <3>1. pc[t] = "ctor2" /\ pc' = [pc EXCEPT ![t] = "unlock"]
      BY <2>6 DEF CtorNew, CtorAttached, Throw, Install
    <3>2. \A u \in Threads : pc'[u] \notin Ctor
      BY <1>0, <3>1, CtorAlone DEF TypeOK
    <3>. QED BY <3>2 DEF CtorNull
  <2>7. CASE Check(t) \/ MLock(t) \/ Unlock(t)
    <3>1. gcache' = gcache /\ Frame
      BY <1>0, <2>7 DEF TypeOK, Check, MLock, Unlock, cacheVars
    <3>. QED BY <3>1, <1>0, CtorNullFrame
  <2>8. CASE OpWrite(t) \/ OpRead(t) \/ OpRemove(t)
    <3>1. gcache' = gcache /\ Frame
      BY <1>0, <2>8 DEF TypeOK, OpWrite, OpRead, OpRemove, OpDone
    <3>. QED BY <3>1, <1>0, CtorNullFrame
  <2>. QED BY <1>3, <2>1, <2>2, <2>3, <2>4, <2>5, <2>6, <2>7, <2>8 DEF Thread
<1>. QED BY <1>1, <1>2, <1>3 DEF Next

\* RefInv is an invariant of the binding.
LEMMA NextRefInv == RefInv /\ [Next]_vars => RefInv'
BY NextSafe, NextCtorNull DEF RefInv

\* The initial states satisfy RefInv.
LEMMA InitRefInv == Init => RefInv
BY InitSafeInv DEF Init, RefInv, CtorNull

-----------------------------------------------------------------------------
\* The Java-visible cache while g_cache is set: its items, never NoCache.
LEMMA ViewLive ==
  ASSUME TypeOK, gcache # NullPtr
  PROVE  CacheView = store[gcache] /\ CacheView # NoCache /\ gcache \in Ids
BY ConstantsAssumption DEF TypeOK, CacheView, Store, NullPtr

\* A step that leaves g_cache, the items and the results alone is a stutter
\* of CacheLibAbstract.
LEMMA ViewFrame ==
  ASSUME gcache' = gcache, store' = store, res' = res
  PROVE  [Abs!ANext]_Abs!avars
BY DEF Abs!avars, CacheView

\* The initial state maps to CacheLibAbstract's initial state.
LEMMA InitRef == Init => Abs!AInit
BY DEF Init, Abs!AInit, CacheView

\* Free: deleting a live g_cache is Drop; deleting nullptr changes nothing.
LEMMA FreeRef ==
  ASSUME RefInv, NEW t \in Threads, Free(t)
  PROVE  [Abs!ANext]_Abs!avars
<1>0. TypeOK
  BY DEF RefInv, SafeInv, TypeInv
<1>1. CASE gcache # NullPtr
  <2>1. CacheView # NoCache /\ CacheView' = NoCache /\ res' = res
    BY <1>0, <1>1, ViewLive DEF Free, CacheView
  <2>. QED BY <2>1 DEF Abs!ANext, Abs!Drop
<1>2. CASE gcache = NullPtr
  BY <1>2 DEF Free, Abs!avars, CacheView
<1>. QED BY <1>1, <1>2

\* A throwing constructor is InitFails: no cache, a Java exception.
LEMMA ThrowRef ==
  ASSUME RefInv, NEW t \in Threads, pc[t] \in {"ctor1", "ctor2"}, Throw(t)
  PROVE  Abs!InitFails(t)
BY DEF RefInv, CtorNull, Throw, Abs!InitFails, CacheView

\* CtorConfigError is InitFails.
LEMMA CtorConfigErrorRef ==
  ASSUME RefInv, NEW t \in Threads, CtorConfigError(t)
  PROVE  [Abs!ANext]_Abs!avars
BY ThrowRef DEF CtorConfigError, Abs!ANext

\* CtorNew is InitFails when it throws and Create with an empty store when
\* it installs the new wrapper.
LEMMA CtorNewRef ==
  ASSUME RefInv, NEW t \in Threads, CtorNew(t)
  PROVE  [Abs!ANext]_Abs!avars
<1>0. TypeOK /\ gcache = NullPtr /\ pc[t] = "ctor2"
  BY DEF RefInv, SafeInv, TypeInv, CtorNull, CtorNew
<1>1. CASE cfg[t].fit < cfg[t].numPools \/ cfg[t].numPools = 0
  BY <1>0, <1>1, ThrowRef DEF CtorNew, Abs!ANext
<1>2. CASE ~(cfg[t].fit < cfg[t].numPools \/ cfg[t].numPools = 0)
  <2>0. TypeOK'
    BY CtorNewSafe DEF RefInv, SafeInv, TypeInv
  <2>1. gcache' = nextId + 1 /\ nextId + 1 # NullPtr
    BY <1>0, <1>2, ConstantsAssumption DEF TypeOK, NullPtr, CtorNew, Install
  <2>1b. nextId + 1 \in Ids
    BY <2>0, <2>1 DEF TypeOK
  <2>1c. store'[nextId + 1] = Empty
    BY <1>0, <1>2, <2>1b DEF TypeOK, CtorNew, Install
  <2>2. CacheView = NoCache /\ CacheView' = Empty /\ Empty \in Store
    BY <1>0, <2>1, <2>1c DEF CacheView, Empty, Store
  <2>3. res' = [res EXCEPT ![t] = "ok"]
    BY <1>2 DEF CtorNew, Install
  <2>4. Abs!Create(t)
    BY <2>2, <2>3 DEF Abs!Create, Abs!Store, Store
  <2>. QED BY <2>4 DEF Abs!ANext
<1>. QED BY <1>1, <1>2

\* CtorAttached always throws (pool_0's id is PoolId{}): InitFails.
LEMMA CtorAttachedRef ==
  ASSUME RefInv, NEW t \in Threads, CtorAttached(t)
  PROVE  [Abs!ANext]_Abs!avars
<1>1. Throw(t) /\ pc[t] = "ctor2"
  BY DEF CtorAttached, Pool0Id, InvalidPoolId
<1>. QED BY <1>1, ThrowRef DEF Abs!ANext

\* Check on nullptr returns false or null at once: the abstract call on no
\* cache.  Otherwise it only records g_cache.
LEMMA CheckRef ==
  ASSUME RefInv, NEW t \in Threads, Check(t)
  PROVE  [Abs!ANext]_Abs!avars
<1>0. TypeOK /\ LocOK(t) /\ pc[t] = "check"
  BY DEF RefInv, SafeInv, TypeInv, Check
<1>1. call[t] \in OpCalls /\ key[t] \in Keys
  BY <1>0 DEF LocOK
<1>2. CASE gcache = NullPtr
  <2>1. CacheView = NoCache /\ CacheView' = NoCache
    BY <1>2 DEF Check, CacheView, cacheVars
  <2>2. res' = [res EXCEPT ![t] = IF call[t] = "read" THEN "null" ELSE "false"]
    BY <1>2 DEF Check
  <2>3. CASE call[t] = "read"
    <3>1. Abs!Read(t, key[t])
      BY <2>1, <2>2, <2>3 DEF Abs!Read
    <3>. QED BY <3>1, <1>1 DEF Abs!ANext
  <2>4. CASE call[t] = "delete"
    <3>1. Abs!Remove(t, key[t])
      BY <2>1, <2>2, <2>4 DEF Abs!Remove
    <3>. QED BY <3>1, <1>1 DEF Abs!ANext
  <2>5. CASE call[t] \in {"insert", "update"}
    <3>1. val[t] \in Vals
      BY <1>0, <2>5 DEF LocOK
    <3>2. Abs!Write(t, key[t], val[t])
      BY <2>1, <2>2, <2>5 DEF Abs!Write
    <3>. QED BY <3>1, <3>2, <1>1 DEF Abs!ANext
  <2>. QED BY <1>1, <2>3, <2>4, <2>5 DEF OpCalls
<1>3. CASE gcache # NullPtr
  BY <1>3, ViewFrame DEF Check, cacheVars
<1>. QED BY <1>2, <1>3

\* Facts about a thread inside the wrapper: it acts on the current g_cache.
LEMMA InWrapper ==
  ASSUME RefInv, NEW t \in Threads, pc[t] = "op"
  PROVE  /\ TypeOK /\ LocOK(t)
         /\ ptr[t] = gcache /\ gcache \in Ids
         /\ CacheView = store[gcache] /\ CacheView # NoCache
<1>1. TypeOK /\ LocOK(t) /\ ptr[t] = gcache /\ gcache # NullPtr
  BY DEF RefInv, SafeInv, TypeInv
<1>. QED BY <1>1, ViewLive

\* insert/update under mutex_: Write, stored or refused.
LEMMA OpWriteRef ==
  ASSUME RefInv, NEW t \in Threads, OpWrite(t)
  PROVE  [Abs!ANext]_Abs!avars
<1>0. /\ TypeOK /\ ptr[t] = gcache /\ gcache \in Ids
      /\ CacheView = store[gcache] /\ CacheView # NoCache
      /\ key[t] \in Keys /\ val[t] \in Vals
  BY InWrapper DEF OpWrite, LocOK, OpCalls
<1>1. CASE OpDone(t, "false", store[ptr[t]])
  <2>1. CacheView' = CacheView /\ res' = [res EXCEPT ![t] = "false"]
    BY <1>0, <1>1 DEF TypeOK, OpDone, CacheView
  <2>2. Abs!Write(t, key[t], val[t])
    BY <2>1 DEF Abs!Write
  <2>. QED BY <1>0, <2>2 DEF Abs!ANext
<1>2. CASE OpDone(t, "true", [store[ptr[t]] EXCEPT ![key[t]] = val[t]])
  <2>1. /\ CacheView' = [CacheView EXCEPT ![key[t]] = val[t]]
        /\ res' = [res EXCEPT ![t] = "true"]
    BY <1>0, <1>2 DEF TypeOK, OpDone, CacheView
  <2>2. Abs!Write(t, key[t], val[t])
    BY <1>0, <2>1 DEF Abs!Write
  <2>. QED BY <1>0, <2>2 DEF Abs!ANext
<1>. QED BY <1>1, <1>2 DEF OpWrite

\* read under mutex_: Read, the value held or null for a miss.
LEMMA OpReadRef ==
  ASSUME RefInv, NEW t \in Threads, OpRead(t)
  PROVE  [Abs!ANext]_Abs!avars
<1>0. /\ TypeOK /\ ptr[t] = gcache /\ gcache \in Ids
      /\ CacheView = store[gcache] /\ CacheView # NoCache
      /\ key[t] \in Keys
  BY InWrapper DEF OpRead, LocOK, OpCalls
<1>1. CacheView' = CacheView
  BY <1>0 DEF TypeOK, OpRead, OpDone, CacheView
<1>2. res' = [res EXCEPT ![t] = IF CacheView = NoCache \/ CacheView[key[t]] = Nil
                                THEN "null" ELSE CacheView[key[t]]]
  BY <1>0 DEF OpRead, OpDone
<1>3. Abs!Read(t, key[t])
  BY <1>1, <1>2 DEF Abs!Read
<1>. QED BY <1>0, <1>3 DEF Abs!ANext

\* remove under mutex_: Remove, true exactly when the key was present.
LEMMA OpRemoveRef ==
  ASSUME RefInv, NEW t \in Threads, OpRemove(t)
  PROVE  [Abs!ANext]_Abs!avars
<1>0. /\ TypeOK /\ ptr[t] = gcache /\ gcache \in Ids
      /\ CacheView = store[gcache] /\ CacheView # NoCache
      /\ key[t] \in Keys
  BY InWrapper DEF OpRemove, LocOK, OpCalls
<1>1. CacheView' = [CacheView EXCEPT ![key[t]] = Nil]
  BY <1>0 DEF TypeOK, OpRemove, OpDone, CacheView
<1>2. res' = [res EXCEPT ![t] = IF CacheView[key[t]] # Nil THEN "true" ELSE "false"]
  BY <1>0 DEF OpRemove, OpDone
<1>3. Abs!Remove(t, key[t])
  BY <1>0, <1>1, <1>2 DEF Abs!Remove
<1>. QED BY <1>0, <1>3 DEF Abs!ANext

\* CacheLib evicting from the current cache is AEvict; from a cache that
\* g_cache no longer points to, it is invisible.
LEMMA EvictRef ==
  ASSUME RefInv, Evict
  PROVE  [Abs!ANext]_Abs!avars
<1>0. TypeOK
  BY DEF RefInv, SafeInv, TypeInv
<1>1. PICK p \in live, k \in Keys :
        /\ store[p][k] # Nil
        /\ store' = [store EXCEPT ![p][k] = Nil]
        /\ UNCHANGED <<gcache, res>>
  BY DEF Evict
<1>2. p \in Ids
  BY <1>0, <1>1 DEF TypeOK
<1>3. CASE p = gcache
  <2>0. gcache # NullPtr
    BY <1>2, <1>3 DEF Ids, NullPtr
  <2>1. CacheView = store[p] /\ CacheView # NoCache
    BY <1>0, <1>3, <2>0, ViewLive
  <2>2. CacheView' = [CacheView EXCEPT ![k] = Nil]
    BY <1>0, <1>1, <1>2, <1>3, <2>1 DEF TypeOK, CacheView, NullPtr
  <2>3. Abs!AEvict(k)
    BY <1>1, <2>1, <2>2 DEF Abs!AEvict
  <2>. QED BY <1>1, <2>3 DEF Abs!ANext
<1>4. CASE p # gcache
  <2>1. CacheView' = CacheView
    BY <1>0, <1>1, <1>2, <1>4 DEF TypeOK, CacheView
  <2>. QED BY <1>1, <2>1 DEF Abs!avars
<1>. QED BY <1>3, <1>4

\* Entering a native method, taking a lock, attaching, and returning
\* change neither the cache nor the results.
LEMMA StutterRef ==
  ASSUME NEW t \in Threads,
         \/ CallInit(t) \/ CallCleanup(t) \/ CallWrite(t) \/ CallKey(t)
         \/ Acquire(t) \/ CtorAttach(t) \/ MLock(t) \/ Unlock(t)
  PROVE  [Abs!ANext]_Abs!avars
<1>1. gcache' = gcache /\ store' = store /\ res' = res
  BY DEF CallInit, CallCleanup, CallWrite, CallKey, Acquire, CtorAttach, MLock, Unlock, cacheVars
<1>. QED BY <1>1, ViewFrame

\* Every step of the binding is a step of CacheLibAbstract or a stutter.
LEMMA NextRef == RefInv /\ [Next]_vars => [Abs!ANext]_Abs!avars
<1> SUFFICES ASSUME RefInv, [Next]_vars PROVE [Abs!ANext]_Abs!avars
  OBVIOUS
<1>1. CASE Evict
  BY <1>1, EvictRef
<1>2. CASE UNCHANGED vars
  BY <1>2, ViewFrame DEF vars, cacheVars
<1>3. ASSUME NEW t \in Threads, Thread(t) PROVE [Abs!ANext]_Abs!avars
  BY <1>3, StutterRef, FreeRef, CtorConfigErrorRef, CtorNewRef, CtorAttachedRef,
     CheckRef, OpWriteRef, OpReadRef, OpRemoveRef DEF Thread
<1>. QED BY <1>1, <1>2, <1>3 DEF Next

\* ImplementsAbstract (checked by run jni) for every number of threads,
\* keys, values and configurations: with g_cache_mutex held around every
\* native method and mutex_ around every wrapper call, each call of
\* cachelib_jni.cpp takes effect atomically on the one current cache.
THEOREM ImplementsAbstractHolds == Spec => ImplementsAbstract
<1>1. Spec => []RefInv
  BY InitRefInv, NextRefInv, PTL DEF Spec
<1>. QED BY <1>1, InitRef, NextRef, PTL DEF Spec, ImplementsAbstract, Abs!ASpec
=============================================================================
