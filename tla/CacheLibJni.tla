----------------------------- MODULE CacheLibJni -----------------------------
(***************************************************************************)
(* The JNI binding of the YCSB CacheLib client (cachelib_jni.cpp) and the  *)
(* CacheLibWrapper it drives (CacheLibWrapper.cpp).  Java threads call the *)
(* native entry points concurrently; all of them share the global pointer  *)
(* g_cache under g_cache_mutex, and each wrapper has its own mutex_.  A    *)
(* wrapper is a pointer id; a deleted one keeps its store entry, so a call *)
(* on it after the free (undefined) acts on stale contents and can be      *)
(* seen.  The shared-memory segment of a persistent cache outlasts the     *)
(* wrapper that created it.                                                *)
(***************************************************************************)
EXTENDS Naturals, FiniteSets

CONSTANTS
  Threads,     \* Java threads calling the native methods
  Keys, Vals,  \* keys and values of requests
  Nil,         \* no value (a miss), no argument
  NoThread,    \* owner of a free mutex
  MaxPools,    \* largest numPools a configuration asks for
  Cfgs,        \* the configuration files the Java side may pass
  MaxInits,    \* bound: wrappers constructed in one behaviour
  NoCache      \* the abstract cache's value while g_cache is nullptr

NullPtr == 0
Ids == 1 .. MaxInits
Store == [Keys -> Vals \cup {Nil}]
Empty == [k \in Keys |-> Nil]
\* What the constructor reads from the JSON file: whether it opens, numPools,
\* the length of poolSizes, whether persistencePath is set, and how many of
\* the pools addPool can fit before the usable size runs out.
CfgRec == [open : BOOLEAN, numPools : 0 .. MaxPools, sizes : 0 .. MaxPools,
           persist : BOOLEAN, fit : 0 .. MaxPools]
Segment == [pools : 0 .. MaxPools, store : Store]
Calls == {"init", "cleanup", "insert", "update", "read", "delete"}
Results == {"none", "ok", "exception", "true", "false", "null"} \cup Vals
Pcs == {"idle", "lock", "free", "ctor1", "ctor2", "check", "mlock", "op", "unlock"}

\* PoolId is int8_t and PoolId{} is 0; CacheLib numbers pools from 0, so the
\* first pool added, "pool_0", has id 0.
InvalidPoolId == 0
Pool0Id == 0

ASSUME ConstantsAssumption ==
  /\ Cfgs \subseteq CfgRec
  /\ MaxPools \in Nat /\ MaxInits \in Nat /\ IsFiniteSet(Threads)
  /\ Nil \notin Vals /\ NoThread \notin Threads
  /\ NoCache \notin [Keys -> Vals \cup {Nil}]

VARIABLES
  gcache,    \* g_cache: NullPtr or the id of a wrapper
  nextId,    \* wrappers constructed so far (the last id handed out)
  live,      \* ids of wrappers not yet deleted
  store,     \* per id: the contents of its cache
  persist,   \* per id: whether its cache lives in a shared-memory segment
  shm,       \* the persisted shared-memory segment, or Nil
  gOwner,    \* holder of g_cache_mutex
  mOwner,    \* per id: holder of the wrapper's mutex_
  pc,        \* per thread: control point
  call,      \* per thread: the native method it is in
  key, val,  \* per thread: the key and value arguments
  cfg,       \* per thread: the configuration nativeInit was given
  ptr,       \* per thread: the g_cache value it called into
  attached,  \* per thread: the constructor's local bool attached
  res        \* per thread: the result of its latest call

cacheVars == <<gcache, nextId, live, store, persist, shm>>
lockVars == <<gOwner, mOwner>>
argVars == <<call, key, val, cfg>>
vars == <<cacheVars, lockVars, pc, argVars, ptr, attached, res>>

Init ==
  /\ gcache = NullPtr
  /\ nextId = 0
  /\ live = {}
  /\ store = [p \in Ids |-> Empty]
  /\ persist = [p \in Ids |-> FALSE]
  /\ shm \in {Nil} \cup Segment
  /\ gOwner = NoThread
  /\ mOwner = [p \in Ids |-> NoThread]
  /\ pc = [t \in Threads |-> "idle"]
  /\ call = [t \in Threads |-> "none"]
  /\ key = [t \in Threads |-> Nil]
  /\ val = [t \in Threads |-> Nil]
  /\ cfg = [t \in Threads |-> Nil]
  /\ ptr = [t \in Threads |-> NullPtr]
  /\ attached = [t \in Threads |-> FALSE]
  /\ res = [t \in Threads |-> "none"]

\* A Java thread enters nativeInit with a config path (only while the
\* MaxInits bound leaves room for it and the inits in progress).
CallInit(t) ==
  /\ pc[t] = "idle"
  /\ nextId + Cardinality({u \in Threads : call[u] = "init"}) < MaxInits
  /\ pc' = [pc EXCEPT ![t] = "lock"]
  /\ call' = [call EXCEPT ![t] = "init"]
  /\ \E f \in Cfgs : cfg' = [cfg EXCEPT ![t] = f]
  /\ UNCHANGED <<cacheVars, lockVars, key, val, ptr, attached, res>>

\* A Java thread enters nativeCleanup.
CallCleanup(t) ==
  /\ pc[t] = "idle"
  /\ pc' = [pc EXCEPT ![t] = "lock"]
  /\ call' = [call EXCEPT ![t] = "cleanup"]
  /\ UNCHANGED <<cacheVars, lockVars, key, val, cfg, ptr, attached, res>>

\* A Java thread enters nativeInsert or nativeUpdate with a key and a value.
CallWrite(t) ==
  /\ pc[t] = "idle"
  /\ pc' = [pc EXCEPT ![t] = "lock"]
  /\ \E c \in {"insert", "update"}, k \in Keys, v \in Vals :
       /\ call' = [call EXCEPT ![t] = c]
       /\ key' = [key EXCEPT ![t] = k]
       /\ val' = [val EXCEPT ![t] = v]
  /\ UNCHANGED <<cacheVars, lockVars, cfg, ptr, attached, res>>

\* A Java thread enters nativeRead or nativeDelete with a key.
CallKey(t) ==
  /\ pc[t] = "idle"
  /\ pc' = [pc EXCEPT ![t] = "lock"]
  /\ \E c \in {"read", "delete"}, k \in Keys :
       /\ call' = [call EXCEPT ![t] = c]
       /\ key' = [key EXCEPT ![t] = k]
  /\ UNCHANGED <<cacheVars, lockVars, val, cfg, ptr, attached, res>>

\* Where a thread goes once it holds g_cache_mutex.
AfterLock(t) == IF call[t] \in {"init", "cleanup"} THEN "free" ELSE "check"

\* std::lock_guard<std::mutex> lock(g_cache_mutex) (a read that skips it).
AcquireReadUnlocked(t) ==
  /\ pc[t] = "lock"
  /\ gOwner = NoThread \/ call[t] = "read"
  /\ gOwner' = IF call[t] = "read" THEN gOwner ELSE t
  /\ pc' = [pc EXCEPT ![t] = AfterLock(t)]
  /\ UNCHANGED <<cacheVars, mOwner, argVars, ptr, attached, res>>

\* std::lock_guard<std::mutex> lock(g_cache_mutex), first line of every entry.
Acquire(t) ==
  /\ pc[t] = "lock"
  /\ gOwner = NoThread
  /\ gOwner' = t
  /\ pc' = [pc EXCEPT ![t] = AfterLock(t)]
  /\ UNCHANGED <<cacheVars, mOwner, argVars, ptr, attached, res>>

\* if (g_cache) { delete g_cache; g_cache = nullptr; }  in nativeInit and
\* nativeCleanup.  A persistent cache's contents stay in its segment.
Free(t) ==
  /\ pc[t] = "free"
  /\ gcache' = NullPtr
  /\ live' = live \ {gcache}
  /\ shm' = IF gcache # NullPtr /\ persist[gcache] /\ shm # Nil
              THEN [pools |-> shm.pools, store |-> store[gcache]] ELSE shm
  /\ pc' = [pc EXCEPT ![t] = IF call[t] = "init" THEN "ctor1" ELSE "unlock"]
  /\ UNCHANGED <<nextId, store, persist, lockVars, argVars, ptr, attached, res>>

\* A constructor that throws: the catch in nativeInit leaves g_cache null
\* and raises a Java RuntimeException.
Throw(t) ==
  /\ res' = [res EXCEPT ![t] = "exception"]
  /\ pc' = [pc EXCEPT ![t] = "unlock"]
  /\ UNCHANGED <<gcache, nextId, live, store, persist>>

\* g_cache = new CacheLibWrapper(configPath) returns.
Install(t, s) ==
  /\ nextId' = nextId + 1
  /\ gcache' = nextId + 1
  /\ live' = live \cup {nextId + 1}
  /\ store' = [store EXCEPT ![nextId + 1] = s]
  /\ persist' = [persist EXCEPT ![nextId + 1] = cfg[t].persist]
  /\ res' = [res EXCEPT ![t] = "ok"]
  /\ pc' = [pc EXCEPT ![t] = "unlock"]

\* The file does not open, or poolSizes does not match numPools.
CtorConfigError(t) ==
  /\ pc[t] = "ctor1"
  /\ ~cfg[t].open \/ cfg[t].sizes # cfg[t].numPools
  /\ Throw(t)
  /\ UNCHANGED <<shm, lockVars, argVars, ptr, attached>>

\* With a persistencePath, try SharedMemAttach; it fails without a segment
\* and may fail with one (a different size, an unclean shutdown).
CtorAttach(t) ==
  /\ pc[t] = "ctor1"
  /\ cfg[t].open /\ cfg[t].sizes = cfg[t].numPools
  /\ pc' = [pc EXCEPT ![t] = "ctor2"]
  /\ \E ok \in BOOLEAN :
       attached' = [attached EXCEPT ![t] = cfg[t].persist /\ shm # Nil /\ ok]
  /\ UNCHANGED <<cacheVars, lockVars, argVars, ptr, res>>

\* Not attached: a new cache (a new segment when persistent), addPool for
\* pool_0 .. pool_{numPools-1} (throws once the usable size is used up),
\* then "No pools created" when numPools is 0.
CtorNew(t) ==
  LET c == cfg[t]
      added == IF c.fit < c.numPools THEN c.fit ELSE c.numPools
  IN /\ pc[t] = "ctor2"
     /\ ~attached[t]
     /\ shm' = IF c.persist THEN [pools |-> added, store |-> Empty] ELSE shm
     /\ IF c.fit < c.numPools \/ c.numPools = 0 THEN Throw(t) ELSE Install(t, Empty)
     /\ UNCHANGED <<lockVars, argVars, ptr, attached>>

\* Attached: pool_ = getPoolId("pool_0") (throws if there is none), then
\* throw if pool_ == PoolId{}.
CtorAttached(t) ==
  /\ pc[t] = "ctor2"
  /\ attached[t]
  /\ IF shm.pools = 0 \/ Pool0Id = InvalidPoolId THEN Throw(t) ELSE Install(t, shm.store)
  /\ UNCHANGED <<shm, lockVars, argVars, ptr, attached>>

\* if (!g_cache) return JNI_FALSE / nullptr;  otherwise call the wrapper.
Check(t) ==
  /\ pc[t] = "check"
  /\ \/ /\ gcache = NullPtr
        /\ res' = [res EXCEPT ![t] = IF call[t] = "read" THEN "null" ELSE "false"]
        /\ pc' = [pc EXCEPT ![t] = "unlock"]
        /\ UNCHANGED ptr
     \/ /\ gcache # NullPtr
        /\ pc' = [pc EXCEPT ![t] = "mlock"]
        /\ ptr' = [ptr EXCEPT ![t] = gcache]
        /\ UNCHANGED res
  /\ UNCHANGED <<cacheVars, lockVars, argVars, attached>>

\* std::lock_guard<std::mutex> lock(mutex_) in insert/read/remove (update
\* delegates to insert and takes it there).
MLock(t) ==
  /\ pc[t] = "mlock"
  /\ mOwner[ptr[t]] = NoThread
  /\ mOwner' = [mOwner EXCEPT ![ptr[t]] = t]
  /\ pc' = [pc EXCEPT ![t] = "op"]
  /\ UNCHANGED <<cacheVars, gOwner, argVars, ptr, attached, res>>

\* The body of a wrapper operation, then mutex_ is released.
OpDone(t, r, s) ==
  /\ res' = [res EXCEPT ![t] = r]
  /\ store' = [store EXCEPT ![ptr[t]] = s]
  /\ mOwner' = [mOwner EXCEPT ![ptr[t]] = NoThread]
  /\ pc' = [pc EXCEPT ![t] = "unlock"]
  /\ UNCHANGED <<gcache, nextId, live, persist, shm, gOwner, argVars, ptr, attached>>

\* insert: allocate fails (null handle) -> false; else insertOrReplace.
OpWrite(t) ==
  /\ pc[t] = "op"
  /\ call[t] \in {"insert", "update"}
  /\ \/ OpDone(t, "false", store[ptr[t]])
     \/ OpDone(t, "true", [store[ptr[t]] EXCEPT ![key[t]] = val[t]])

\* read without nativeRead's if (!found) return nullptr: a miss leaks out.
OpReadNoMissCheck(t) ==
  /\ pc[t] = "op"
  /\ call[t] = "read"
  /\ OpDone(t, store[ptr[t]][key[t]], store[ptr[t]])

\* read: find; a miss is false, which nativeRead returns as null.
OpRead(t) ==
  /\ pc[t] = "op"
  /\ call[t] = "read"
  /\ OpDone(t, IF store[ptr[t]][key[t]] = Nil THEN "null" ELSE store[ptr[t]][key[t]],
            store[ptr[t]])

\* remove that reports success whatever RemoveRes says.
OpRemoveAlwaysTrue(t) ==
  /\ pc[t] = "op"
  /\ call[t] = "delete"
  /\ OpDone(t, "true", [store[ptr[t]] EXCEPT ![key[t]] = Nil])

\* remove: allocator_->remove(key) == RemoveRes::kSuccess.
OpRemove(t) ==
  /\ pc[t] = "op"
  /\ call[t] = "delete"
  /\ OpDone(t, IF store[ptr[t]][key[t]] # Nil THEN "true" ELSE "false",
            [store[ptr[t]] EXCEPT ![key[t]] = Nil])

\* The native method returns; the lock_guard releases g_cache_mutex.
Unlock(t) ==
  /\ pc[t] = "unlock"
  /\ gOwner' = NoThread
  /\ pc' = [pc EXCEPT ![t] = "idle"]
  /\ call' = [call EXCEPT ![t] = "none"]
  /\ key' = [key EXCEPT ![t] = Nil]
  /\ val' = [val EXCEPT ![t] = Nil]
  /\ cfg' = [cfg EXCEPT ![t] = Nil]
  /\ ptr' = [ptr EXCEPT ![t] = NullPtr]
  /\ attached' = [attached EXCEPT ![t] = FALSE]
  /\ UNCHANGED <<cacheVars, mOwner, res>>

\* CacheLib evicts an item of a live cache.
Evict ==
  \E p \in live, k \in Keys :
    /\ store[p][k] # Nil
    /\ store' = [store EXCEPT ![p][k] = Nil]
    /\ UNCHANGED <<gcache, nextId, live, persist, shm, lockVars, pc, argVars, ptr, attached, res>>

Thread(t) ==
  \/ CallInit(t) \/ CallCleanup(t) \/ CallWrite(t) \/ CallKey(t) \/ Acquire(t) \/ Free(t) \/ CtorConfigError(t) \/ CtorAttach(t)
  \/ CtorNew(t) \/ CtorAttached(t) \/ Check(t) \/ MLock(t)
  \/ OpWrite(t) \/ OpRead(t) \/ OpRemove(t) \/ Unlock(t)

Next == Evict \/ \E t \in Threads : Thread(t)

Spec == Init /\ [][Next]_vars

-----------------------------------------------------------------------------
TypeOK ==
  /\ gcache \in {NullPtr} \cup Ids
  /\ nextId \in 0 .. MaxInits
  /\ live \subseteq Ids
  /\ store \in [Ids -> Store]
  /\ persist \in [Ids -> BOOLEAN]
  /\ shm \in {Nil} \cup Segment
  /\ gOwner \in Threads \cup {NoThread}
  /\ mOwner \in [Ids -> Threads \cup {NoThread}]
  /\ pc \in [Threads -> Pcs]
  /\ call \in [Threads -> Calls \cup {"none"}]
  /\ key \in [Threads -> Keys \cup {Nil}]
  /\ val \in [Threads -> Vals \cup {Nil}]
  /\ cfg \in [Threads -> Cfgs \cup {Nil}]
  /\ ptr \in [Threads -> {NullPtr} \cup Ids]
  /\ attached \in [Threads -> BOOLEAN]
  /\ res \in [Threads -> Results]

\* g_cache_mutex keeps nativeInit and nativeCleanup from deleting the wrapper
\* another Java thread has checked non-null and is calling into: a thread
\* inside CacheLibWrapper (waiting for or holding mutex_) always uses a
\* wrapper that has not been deleted.
NoUseAfterFree ==
  \A t \in Threads : pc[t] \in {"mlock", "op"} => ptr[t] \in live

\* The comment of the attach branch: when SharedMemAttach succeeds the
\* constructor takes pool_0 from the attached cache, so nativeInit ends
\* with a usable cache in g_cache.
AttachedCacheInstalled ==
  [][\A t \in Threads :
       (pc[t] = "ctor2" /\ attached[t] /\ pc'[t] # "ctor2")
         => gcache' # NullPtr]_vars

\* The contents of the cache g_cache points to, as the Java side sees them.
CacheView == IF gcache = NullPtr THEN NoCache ELSE store[gcache]

Abs == INSTANCE CacheLibAbstract WITH kv <- CacheView, res <- res

\* Every native call is atomic: the binding with its two mutexes implements
\* CacheLibAbstract, in which each call takes effect at one instant on the
\* current cache (a read returns what that cache holds, a delete reports
\* whether the key was there, a failed nativeInit leaves no cache).
ImplementsAbstract == Abs!ASpec
=============================================================================
