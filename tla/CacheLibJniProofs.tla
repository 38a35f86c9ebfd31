-------------------------- MODULE CacheLibJniProofs --------------------------
(***************************************************************************)
(* Proofs, for every instance of the constants, that the JNI binding's     *)
(* state stays well typed and that no Java thread ever calls into a        *)
(* CacheLibWrapper that nativeInit or nativeCleanup has deleted.           *)
(***************************************************************************)
EXTENDS CacheLibJni, FiniteSetTheorems, TLAPS

OpCalls == {"insert", "update", "read", "delete"}
Locked == {"free", "ctor1", "ctor2", "check", "mlock", "op", "unlock"}

\* The native calls that will still hand out a wrapper id.
Pending == {u \in Threads : call[u] = "init" /\ pc[u] \in {"lock", "free", "ctor1", "ctor2"}}

\* A thread's control point agrees with the call it is in and its arguments.
LocOK(t) ==
  /\ pc[t] = "idle" <=> call[t] = "none"
  /\ call[t] = "init" => cfg[t] \in Cfgs
  /\ call[t] \in OpCalls => key[t] \in Keys
  /\ call[t] \in {"insert", "update"} => val[t] \in Vals
  /\ pc[t] = "free" => call[t] \in {"init", "cleanup"}
  /\ pc[t] \in {"ctor1", "ctor2"} => call[t] = "init"
  /\ pc[t] \in {"check", "mlock", "op"} => call[t] \in OpCalls

\* TypeOK strengthened so that it is inductive.
TypeInv ==
  /\ TypeOK
  /\ \A t \in Threads : LocOK(t)
  /\ \A t \in Threads : pc[t] \in Locked => gOwner = t
  /\ \A t \in Threads : pc[t] = "ctor2" /\ attached[t] => shm \in Segment
  /\ \A t \in Threads : pc[t] \in {"mlock", "op"} => ptr[t] = gcache /\ gcache # NullPtr
  /\ nextId + Cardinality(Pending) <= MaxInits

\* The inductive invariant behind NoUseAfterFree.
SafeInv ==
  /\ TypeInv
  /\ gcache # NullPtr => gcache \in live

-----------------------------------------------------------------------------
\* How the size of a finite set moves when only one element x may come or go.
LEMMA CardinalityStep ==
  ASSUME NEW S, NEW T, NEW x, IsFiniteSet(S), T \ {x} = S \ {x}
  PROVE  /\ IsFiniteSet(T)
         /\ (x \in S <=> x \in T) => Cardinality(T) = Cardinality(S)
         /\ x \notin S /\ x \in T => Cardinality(T) = Cardinality(S) + 1
         /\ x \in S /\ x \notin T => Cardinality(T) = Cardinality(S) - 1
<1>1. CASE x \in S /\ x \in T
  <2>1. T = S BY <1>1
  <2>. QED BY <2>1, <1>1
<1>2. CASE x \notin S /\ x \notin T
  <2>1. T = S BY <1>2
  <2>. QED BY <2>1, <1>2
<1>3. CASE x \notin S /\ x \in T
  <2>1. T = S \cup {x} BY <1>3
  <2>. QED BY <2>1, <1>3, FS_AddElement
<1>4. CASE x \in S /\ x \notin T
  <2>1. T = S \ {x} BY <1>4
  <2>. QED BY <2>1, <1>4, FS_RemoveElement
<1>. QED BY <1>1, <1>2, <1>3, <1>4

\* Pending is a finite set of threads.
LEMMA PendingFinite ==
  IsFiniteSet(Pending) /\ Cardinality(Pending) \in Nat
BY ConstantsAssumption, FS_Subset, FS_CardinalityType DEF Pending

LEMMA InitSafeInv == Init => SafeInv
<1> SUFFICES ASSUME Init PROVE SafeInv
  OBVIOUS
<1>1. Pending = {}
  BY DEF Init, Pending
<1>2. TypeOK
  BY ConstantsAssumption DEF Init, TypeOK, Ids, NullPtr, Store, Empty, Results, Pcs, Calls
<1>3. \A t \in Threads : LocOK(t)
  BY DEF Init, LocOK, OpCalls
<1>. QED
  BY <1>1, <1>2, <1>3, FS_EmptySet, ConstantsAssumption
  DEF SafeInv, TypeInv, Init, Locked

\* CallInit keeps the invariant.
LEMMA CallInitSafe ==
  ASSUME SafeInv, NEW t \in Threads, CallInit(t)
  PROVE  SafeInv'
<1>. USE DEF SafeInv, TypeInv, cacheVars, lockVars, argVars
<1>1. TypeOK'
  BY ConstantsAssumption DEF TypeOK, Ids, NullPtr, Pcs, Calls, Results, Store, Segment, CallInit
<1>2. \A u \in Threads : LocOK(u)'
  BY DEF TypeOK, LocOK, OpCalls, CallInit
<1>3. \A u \in Threads : pc'[u] \in Locked => gOwner' = u
  BY DEF TypeOK, Locked, CallInit
<1>4. \A u \in Threads : pc'[u] = "ctor2" /\ attached'[u] => shm' \in Segment
  BY DEF TypeOK, Locked, Segment, CallInit
<1>5. \A u \in Threads : pc'[u] \in {"mlock", "op"} => ptr'[u] = gcache' /\ gcache' # NullPtr
  BY DEF TypeOK, Locked, CallInit
<1>6. nextId' + Cardinality(Pending') <= MaxInits
  <2>1. Pending' \ {t} = Pending \ {t}
    BY DEF TypeOK, Pending, CallInit
  <2>2. t \notin Pending
    BY DEF Pending, CallInit
  <2>3. t \in Pending'
    <3>1. pc'[t] = "lock" /\ call'[t] = "init"
      BY DEF TypeOK, CallInit
    <3>. QED BY <3>1 DEF Pending
  <2>4. DEFINE Inits == {u \in Threads : call[u] = "init"}
  <2>5. IsFiniteSet(Inits) /\ Cardinality(Pending) <= Cardinality(Inits)
    BY ConstantsAssumption, FS_Subset DEF Pending
  <2>6. nextId + Cardinality(Inits) < MaxInits /\ nextId' = nextId
    BY DEF CallInit
  <2>7. Cardinality(Pending') = Cardinality(Pending) + 1
    BY <2>1, <2>2, <2>3, PendingFinite, CardinalityStep
  <2>. QED BY <2>5, <2>6, <2>7, PendingFinite, ConstantsAssumption, FS_CardinalityType DEF TypeOK
<1>7. gcache' # NullPtr => gcache' \in live'
  BY DEF TypeOK, NullPtr, CallInit
<1>. QED BY <1>1, <1>2, <1>3, <1>4, <1>5, <1>6, <1>7

\* CallCleanup keeps the invariant.
LEMMA CallCleanupSafe ==
  ASSUME SafeInv, NEW t \in Threads, CallCleanup(t)
  PROVE  SafeInv'
<1>. USE DEF SafeInv, TypeInv, cacheVars, lockVars, argVars
<1>1. TypeOK'
  BY ConstantsAssumption DEF TypeOK, Ids, NullPtr, Pcs, Calls, Results, Store, Segment, CallCleanup
<1>2. \A u \in Threads : LocOK(u)'
  BY DEF TypeOK, LocOK, OpCalls, CallCleanup
<1>3. \A u \in Threads : pc'[u] \in Locked => gOwner' = u
  BY DEF TypeOK, Locked, CallCleanup
<1>4. \A u \in Threads : pc'[u] = "ctor2" /\ attached'[u] => shm' \in Segment
  BY DEF TypeOK, Locked, Segment, CallCleanup
<1>5. \A u \in Threads : pc'[u] \in {"mlock", "op"} => ptr'[u] = gcache' /\ gcache' # NullPtr
  BY DEF TypeOK, Locked, CallCleanup
<1>6. nextId' + Cardinality(Pending') <= MaxInits
  <2>1. Pending' \ {t} = Pending \ {t}
    BY DEF TypeOK, Pending, CallCleanup
  <2>2. t \notin Pending /\ t \notin Pending'
    BY DEF TypeOK, Pending, CallCleanup
  <2>3. nextId' = nextId
    BY DEF CallCleanup
  <2>. QED BY <2>1, <2>2, <2>3, PendingFinite, CardinalityStep
<1>7. gcache' # NullPtr => gcache' \in live'
  BY DEF TypeOK, NullPtr, CallCleanup
<1>. QED BY <1>1, <1>2, <1>3, <1>4, <1>5, <1>6, <1>7

\* CallWrite keeps the invariant.
LEMMA CallWriteSafe ==
  ASSUME SafeInv, NEW t \in Threads, CallWrite(t)
  PROVE  SafeInv'
<1>. USE DEF SafeInv, TypeInv, cacheVars, lockVars, argVars
<1>1. TypeOK'
  BY ConstantsAssumption DEF TypeOK, Ids, NullPtr, Pcs, Calls, Results, Store, Segment, CallWrite
<1>2. \A u \in Threads : LocOK(u)'
  BY DEF TypeOK, LocOK, OpCalls, CallWrite
<1>3. \A u \in Threads : pc'[u] \in Locked => gOwner' = u
  BY DEF TypeOK, Locked, CallWrite
<1>4. \A u \in Threads : pc'[u] = "ctor2" /\ attached'[u] => shm' \in Segment
  BY DEF TypeOK, Locked, Segment, CallWrite
<1>5. \A u \in Threads : pc'[u] \in {"mlock", "op"} => ptr'[u] = gcache' /\ gcache' # NullPtr
  BY DEF TypeOK, Locked, CallWrite
<1>6. nextId' + Cardinality(Pending') <= MaxInits
  <2>1. Pending' \ {t} = Pending \ {t}
    BY DEF TypeOK, Pending, CallWrite
  <2>2. t \notin Pending /\ t \notin Pending'
    BY DEF TypeOK, Pending, CallWrite
  <2>3. nextId' = nextId
    BY DEF CallWrite
  <2>. QED BY <2>1, <2>2, <2>3, PendingFinite, CardinalityStep
<1>7. gcache' # NullPtr => gcache' \in live'
  BY DEF TypeOK, NullPtr, CallWrite
<1>. QED BY <1>1, <1>2, <1>3, <1>4, <1>5, <1>6, <1>7

\* CallKey keeps the invariant.
LEMMA CallKeySafe ==
  ASSUME SafeInv, NEW t \in Threads, CallKey(t)
  PROVE  SafeInv'
<1>. USE DEF SafeInv, TypeInv, cacheVars, lockVars, argVars
<1>1. TypeOK'
  BY ConstantsAssumption DEF TypeOK, Ids, NullPtr, Pcs, Calls, Results, Store, Segment, CallKey
<1>2. \A u \in Threads : LocOK(u)'
  BY DEF TypeOK, LocOK, OpCalls, CallKey
<1>3. \A u \in Threads : pc'[u] \in Locked => gOwner' = u
  BY DEF TypeOK, Locked, CallKey
<1>4. \A u \in Threads : pc'[u] = "ctor2" /\ attached'[u] => shm' \in Segment
  BY DEF TypeOK, Locked, Segment, CallKey
<1>5. \A u \in Threads : pc'[u] \in {"mlock", "op"} => ptr'[u] = gcache' /\ gcache' # NullPtr
  BY DEF TypeOK, Locked, CallKey
<1>6. nextId' + Cardinality(Pending') <= MaxInits
  <2>1. Pending' \ {t} = Pending \ {t}
    BY DEF TypeOK, Pending, CallKey
  <2>2. t \notin Pending /\ t \notin Pending'
    BY DEF TypeOK, Pending, CallKey
  <2>3. nextId' = nextId
    BY DEF CallKey
  <2>. QED BY <2>1, <2>2, <2>3, PendingFinite, CardinalityStep
<1>7. gcache' # NullPtr => gcache' \in live'
  BY DEF TypeOK, NullPtr, CallKey
<1>. QED BY <1>1, <1>2, <1>3, <1>4, <1>5, <1>6, <1>7

\* Acquire keeps the invariant.
LEMMA AcquireSafe ==
  ASSUME SafeInv, NEW t \in Threads, Acquire(t)
  PROVE  SafeInv'
<1>. USE DEF SafeInv, TypeInv, cacheVars, lockVars, argVars
<1>1. TypeOK'
  BY ConstantsAssumption DEF TypeOK, Ids, NullPtr, Pcs, Calls, Results, Store, Segment, Acquire, AfterLock
<1>2. \A u \in Threads : LocOK(u)'
  <2>1. call[t] \in Calls
    BY DEF TypeOK, LocOK, Acquire
  <2>2. CASE call[t] \in {"init", "cleanup"}
    <3>1. pc'[t] = "free"
      BY <2>2 DEF TypeOK, Acquire, AfterLock
    <3>. QED BY <3>1, <2>2 DEF TypeOK, LocOK, OpCalls, Acquire
  <2>3. CASE call[t] \notin {"init", "cleanup"}
    <3>1. pc'[t] = "check" /\ call[t] \in OpCalls
      BY <2>1, <2>3 DEF TypeOK, Acquire, AfterLock, Calls, OpCalls
    <3>. QED BY <3>1, <2>3 DEF TypeOK, LocOK, OpCalls, Acquire
  <2>. QED BY <2>2, <2>3
<1>3. \A u \in Threads : pc'[u] \in Locked => gOwner' = u
  <2>1. pc'[t] \in Locked /\ gOwner' = t
    BY DEF TypeOK, Locked, Acquire, AfterLock
  <2>2. \A u \in Threads \ {t} : pc'[u] = pc[u] /\ pc[u] \notin Locked
    BY ConstantsAssumption DEF TypeOK, Acquire
  <2>. QED BY <2>1, <2>2
<1>4. \A u \in Threads : pc'[u] = "ctor2" /\ attached'[u] => shm' \in Segment
  BY DEF TypeOK, Locked, Segment, Acquire, AfterLock
<1>5. \A u \in Threads : pc'[u] \in {"mlock", "op"} => ptr'[u] = gcache' /\ gcache' # NullPtr
  BY DEF TypeOK, Locked, Acquire, AfterLock
<1>6. nextId' + Cardinality(Pending') <= MaxInits
  <2>1. Pending' \ {t} = Pending \ {t}
    BY DEF TypeOK, Pending, Acquire, AfterLock
  <2>2. t \in Pending <=> t \in Pending'
    BY DEF TypeOK, LocOK, Pending, Acquire, AfterLock
  <2>3. nextId' = nextId
    BY DEF Acquire, AfterLock
  <2>. QED BY <2>1, <2>2, <2>3, PendingFinite, CardinalityStep
<1>7. gcache' # NullPtr => gcache' \in live'
  BY DEF TypeOK, NullPtr, Acquire, AfterLock
<1>. QED BY <1>1, <1>2, <1>3, <1>4, <1>5, <1>6, <1>7

\* Free keeps the invariant.
LEMMA FreeSafe ==
  ASSUME SafeInv, NEW t \in Threads, Free(t)
  PROVE  SafeInv'
<1>. USE DEF SafeInv, TypeInv, cacheVars, lockVars, argVars
<1>1. TypeOK'
  BY ConstantsAssumption DEF TypeOK, Ids, NullPtr, Pcs, Calls, Results, Store, Segment, Free
<1>2. \A u \in Threads : LocOK(u)'
  BY DEF TypeOK, LocOK, OpCalls, Free
<1>3. \A u \in Threads : pc'[u] \in Locked => gOwner' = u
  BY DEF TypeOK, Locked, Free
<1>4. \A u \in Threads : pc'[u] = "ctor2" /\ attached'[u] => shm' \in Segment
  BY DEF TypeOK, Locked, Segment, Free
<1>5. \A u \in Threads : pc'[u] \in {"mlock", "op"} => ptr'[u] = gcache' /\ gcache' # NullPtr
  BY DEF TypeOK, Locked, Free
<1>6. nextId' + Cardinality(Pending') <= MaxInits
  <2>1. Pending' \ {t} = Pending \ {t}
    BY DEF TypeOK, Pending, Free
  <2>2. t \in Pending <=> t \in Pending'
    BY DEF TypeOK, LocOK, Pending, Free
  <2>3. nextId' = nextId
    BY DEF Free
  <2>. QED BY <2>1, <2>2, <2>3, PendingFinite, CardinalityStep
<1>7. gcache' # NullPtr => gcache' \in live'
  BY DEF TypeOK, NullPtr, Free
<1>. QED BY <1>1, <1>2, <1>3, <1>4, <1>5, <1>6, <1>7

\* CtorConfigError keeps the invariant.
LEMMA CtorConfigErrorSafe ==
  ASSUME SafeInv, NEW t \in Threads, CtorConfigError(t)
  PROVE  SafeInv'
<1>. USE DEF SafeInv, TypeInv, cacheVars, lockVars, argVars
<1>0. t \in Pending /\ nextId + 1 <= MaxInits
  <2>1. t \in Pending
    BY DEF TypeOK, LocOK, Pending, CtorConfigError, Throw
  <2>2. Cardinality(Pending) # 0
    BY <2>1, PendingFinite, FS_EmptySet
  <2>. QED BY <2>1, <2>2, PendingFinite, ConstantsAssumption DEF TypeOK
<1>1. TypeOK'
  BY <1>0, ConstantsAssumption DEF TypeOK, Ids, NullPtr, Pcs, Calls, Results, Store, Segment, CtorConfigError, Throw
<1>2. \A u \in Threads : LocOK(u)'
  BY DEF TypeOK, LocOK, OpCalls, CtorConfigError, Throw
<1>3. \A u \in Threads : pc'[u] \in Locked => gOwner' = u
  BY DEF TypeOK, Locked, CtorConfigError, Throw
<1>4. \A u \in Threads : pc'[u] = "ctor2" /\ attached'[u] => shm' \in Segment
  BY DEF TypeOK, Locked, Segment, CtorConfigError, Throw
<1>5. \A u \in Threads : pc'[u] \in {"mlock", "op"} => ptr'[u] = gcache' /\ gcache' # NullPtr
  BY DEF TypeOK, Locked, CtorConfigError, Throw
<1>6. nextId' + Cardinality(Pending') <= MaxInits
  <2>1. Pending' \ {t} = Pending \ {t}
    BY DEF TypeOK, Pending, CtorConfigError, Throw
  <2>2. t \notin Pending'
    BY DEF TypeOK, Pending, CtorConfigError, Throw
  <2>3. nextId' <= nextId + 1
    BY DEF TypeOK, CtorConfigError, Throw
  <2>4. Cardinality(Pending') = Cardinality(Pending) - 1
    BY <1>0, <2>1, <2>2, PendingFinite, CardinalityStep
  <2>. QED BY <1>0, <1>1, <2>3, <2>4, PendingFinite, ConstantsAssumption DEF TypeOK
<1>7. gcache' # NullPtr => gcache' \in live'
  BY DEF TypeOK, NullPtr, CtorConfigError, Throw
<1>. QED BY <1>1, <1>2, <1>3, <1>4, <1>5, <1>6, <1>7

\* CtorAttach keeps the invariant.
LEMMA CtorAttachSafe ==
  ASSUME SafeInv, NEW t \in Threads, CtorAttach(t)
  PROVE  SafeInv'
<1>. USE DEF SafeInv, TypeInv, cacheVars, lockVars, argVars
<1>1. TypeOK'
  BY ConstantsAssumption DEF TypeOK, Ids, NullPtr, Pcs, Calls, Results, Store, Segment, CtorAttach
<1>2. \A u \in Threads : LocOK(u)'
  BY DEF TypeOK, LocOK, OpCalls, CtorAttach
<1>3. \A u \in Threads : pc'[u] \in Locked => gOwner' = u
  BY DEF TypeOK, Locked, CtorAttach
<1>4. \A u \in Threads : pc'[u] = "ctor2" /\ attached'[u] => shm' \in Segment
  BY DEF TypeOK, Locked, Segment, CtorAttach
<1>5. \A u \in Threads : pc'[u] \in {"mlock", "op"} => ptr'[u] = gcache' /\ gcache' # NullPtr
  BY DEF TypeOK, Locked, CtorAttach
<1>6. nextId' + Cardinality(Pending') <= MaxInits
  <2>1. Pending' \ {t} = Pending \ {t}
    BY DEF TypeOK, Pending, CtorAttach
  <2>2. t \in Pending <=> t \in Pending'
    BY DEF TypeOK, LocOK, Pending, CtorAttach
  <2>3. nextId' = nextId
    BY DEF CtorAttach
  <2>. QED BY <2>1, <2>2, <2>3, PendingFinite, CardinalityStep
<1>7. gcache' # NullPtr => gcache' \in live'
  BY DEF TypeOK, NullPtr, CtorAttach
<1>. QED BY <1>1, <1>2, <1>3, <1>4, <1>5, <1>6, <1>7

\* CtorNew keeps the invariant.
LEMMA CtorNewSafe ==
  ASSUME SafeInv, NEW t \in Threads, CtorNew(t)
  PROVE  SafeInv'
<1>. USE DEF SafeInv, TypeInv, cacheVars, lockVars, argVars
<1>0. t \in Pending /\ nextId + 1 <= MaxInits
  <2>1. t \in Pending
    BY DEF TypeOK, LocOK, Pending, CtorNew, Throw, Install
  <2>2. Cardinality(Pending) # 0
    BY <2>1, PendingFinite, FS_EmptySet
  <2>. QED BY <2>1, <2>2, PendingFinite, ConstantsAssumption DEF TypeOK
<1>1. TypeOK'
  <2>0. cfg[t] \in CfgRec /\ shm' \in {Nil} \cup Segment /\ Empty \in Store
    BY ConstantsAssumption DEF TypeOK, LocOK, CtorNew, CfgRec, Segment, Empty, Store
  <2>1. CASE cfg[t].fit < cfg[t].numPools \/ cfg[t].numPools = 0
    BY <2>0, <2>1 DEF TypeOK, Pcs, Results, CtorNew, Throw
  <2>2. CASE ~(cfg[t].fit < cfg[t].numPools \/ cfg[t].numPools = 0)
    <3>1. nextId + 1 \in Ids
      BY <1>0, ConstantsAssumption DEF TypeOK, Ids
    <3>2. /\ nextId' \in 0 .. MaxInits
          /\ gcache' \in {NullPtr} \cup Ids
          /\ live' \subseteq Ids
      BY <2>2, <3>1, ConstantsAssumption DEF TypeOK, Ids, CtorNew, Install
    <3>3. store' \in [Ids -> Store]
      BY <2>0, <2>2, <3>1 DEF TypeOK, CtorNew, Install
    <3>4. persist' \in [Ids -> BOOLEAN]
      BY <2>0, <2>2, <3>1 DEF TypeOK, CfgRec, CtorNew, Install
    <3>5. res' \in [Threads -> Results] /\ pc' \in [Threads -> Pcs]
      BY <2>2 DEF TypeOK, Pcs, Results, CtorNew, Install
    <3>. QED BY <2>0, <2>2, <3>2, <3>3, <3>4, <3>5 DEF TypeOK, CtorNew, Install
  <2>. QED BY <2>1, <2>2
<1>2. \A u \in Threads : LocOK(u)'
  BY DEF TypeOK, LocOK, OpCalls, CtorNew, Throw, Install
<1>3. \A u \in Threads : pc'[u] \in Locked => gOwner' = u
  BY DEF TypeOK, Locked, CtorNew, Throw, Install
<1>4. \A u \in Threads : pc'[u] = "ctor2" /\ attached'[u] => shm' \in Segment
  BY DEF TypeOK, Locked, Segment, CtorNew, Throw, Install
<1>5. \A u \in Threads : pc'[u] \in {"mlock", "op"} => ptr'[u] = gcache' /\ gcache' # NullPtr
  BY DEF TypeOK, Locked, CtorNew, Throw, Install
<1>6. nextId' + Cardinality(Pending') <= MaxInits
  <2>1. Pending' \ {t} = Pending \ {t}
    BY DEF TypeOK, Pending, CtorNew, Throw, Install
  <2>2. t \notin Pending'
    BY DEF TypeOK, Pending, CtorNew, Throw, Install
  <2>3. nextId' <= nextId + 1
    BY DEF TypeOK, CtorNew, Throw, Install
  <2>4. Cardinality(Pending') = Cardinality(Pending) - 1
    BY <1>0, <2>1, <2>2, PendingFinite, CardinalityStep
  <2>. QED BY <1>0, <1>1, <2>3, <2>4, PendingFinite, ConstantsAssumption DEF TypeOK
<1>7. gcache' # NullPtr => gcache' \in live'
  BY DEF TypeOK, NullPtr, CtorNew, Throw, Install
<1>. QED BY <1>1, <1>2, <1>3, <1>4, <1>5, <1>6, <1>7

\* CtorAttached keeps the invariant.
LEMMA CtorAttachedSafe ==
  ASSUME SafeInv, NEW t \in Threads, CtorAttached(t)
  PROVE  SafeInv'
<1>. USE DEF SafeInv, TypeInv, cacheVars, lockVars, argVars
<1>0. t \in Pending /\ nextId + 1 <= MaxInits
  <2>1. t \in Pending
    BY DEF TypeOK, LocOK, Pending, CtorAttached, Throw, Install
  <2>2. Cardinality(Pending) # 0
    BY <2>1, PendingFinite, FS_EmptySet
  <2>. QED BY <2>1, <2>2, PendingFinite, ConstantsAssumption DEF TypeOK
<1>1. TypeOK'
  <2>0. cfg[t] \in CfgRec /\ shm' \in {Nil} \cup Segment /\ shm.store \in Store
    BY ConstantsAssumption DEF TypeOK, LocOK, CtorAttached, CfgRec, Segment, Empty, Store
  <2>1. CASE shm.pools = 0 \/ Pool0Id = InvalidPoolId
    BY <2>0, <2>1 DEF TypeOK, Pcs, Results, CtorAttached, Throw
  \* pool_0's id is PoolId{}, so an attached cache is never installed.
  <2>2. CASE ~(shm.pools = 0 \/ Pool0Id = InvalidPoolId)
    BY <2>2 DEF Pool0Id, InvalidPoolId
  <2>. QED BY <2>1, <2>2
<1>2. \A u \in Threads : LocOK(u)'
  BY DEF TypeOK, LocOK, OpCalls, CtorAttached, Throw, Install
<1>3. \A u \in Threads : pc'[u] \in Locked => gOwner' = u
  BY DEF TypeOK, Locked, CtorAttached, Throw, Install
<1>4. \A u \in Threads : pc'[u] = "ctor2" /\ attached'[u] => shm' \in Segment
  BY DEF TypeOK, Locked, Segment, CtorAttached, Throw, Install
<1>5. \A u \in Threads : pc'[u] \in {"mlock", "op"} => ptr'[u] = gcache' /\ gcache' # NullPtr
  BY DEF TypeOK, Locked, CtorAttached, Throw, Install
<1>6. nextId' + Cardinality(Pending') <= MaxInits
  <2>1. Pending' \ {t} = Pending \ {t}
    BY DEF TypeOK, Pending, CtorAttached, Throw, Install
  <2>2. t \notin Pending'
    BY DEF TypeOK, Pending, CtorAttached, Throw, Install
  <2>3. nextId' <= nextId + 1
    BY DEF TypeOK, CtorAttached, Throw, Install
  <2>4. Cardinality(Pending') = Cardinality(Pending) - 1
    BY <1>0, <2>1, <2>2, PendingFinite, CardinalityStep
  <2>. QED BY <1>0, <1>1, <2>3, <2>4, PendingFinite, ConstantsAssumption DEF TypeOK
<1>7. gcache' # NullPtr => gcache' \in live'
  BY DEF TypeOK, NullPtr, CtorAttached, Throw, Install
<1>. QED BY <1>1, <1>2, <1>3, <1>4, <1>5, <1>6, <1>7

\* Check keeps the invariant.
LEMMA CheckSafe ==
  ASSUME SafeInv, NEW t \in Threads, Check(t)
  PROVE  SafeInv'
<1>. USE DEF SafeInv, TypeInv, cacheVars, lockVars, argVars
<1>1. TypeOK'
  <2>1. CASE gcache = NullPtr
    BY <2>1 DEF TypeOK, NullPtr, Pcs, Results, Check
  <2>2. CASE gcache # NullPtr
    BY <2>2 DEF TypeOK, NullPtr, Pcs, Results, Check
  <2>. QED BY <2>1, <2>2
<1>2. \A u \in Threads : LocOK(u)'
  BY DEF TypeOK, LocOK, OpCalls, Check
<1>3. \A u \in Threads : pc'[u] \in Locked => gOwner' = u
  BY DEF TypeOK, Locked, Check
<1>4. \A u \in Threads : pc'[u] = "ctor2" /\ attached'[u] => shm' \in Segment
  BY DEF TypeOK, Locked, Segment, Check
<1>5. \A u \in Threads : pc'[u] \in {"mlock", "op"} => ptr'[u] = gcache' /\ gcache' # NullPtr
  BY DEF TypeOK, Locked, Check
<1>6. nextId' + Cardinality(Pending') <= MaxInits
  <2>1. Pending' \ {t} = Pending \ {t}
    BY DEF TypeOK, Pending, Check
  <2>2. t \in Pending <=> t \in Pending'
    BY DEF TypeOK, LocOK, Pending, Check
  <2>3. nextId' = nextId
    BY DEF Check
  <2>. QED BY <2>1, <2>2, <2>3, PendingFinite, CardinalityStep
<1>7. gcache' # NullPtr => gcache' \in live'
  BY DEF TypeOK, NullPtr, Check
<1>. QED BY <1>1, <1>2, <1>3, <1>4, <1>5, <1>6, <1>7

\* MLock keeps the invariant.
LEMMA MLockSafe ==
  ASSUME SafeInv, NEW t \in Threads, MLock(t)
  PROVE  SafeInv'
<1>. USE DEF SafeInv, TypeInv, cacheVars, lockVars, argVars
<1>1. TypeOK'
  BY ConstantsAssumption DEF TypeOK, Ids, NullPtr, Pcs, Calls, Results, Store, Segment, MLock
<1>2. \A u \in Threads : LocOK(u)'
  BY DEF TypeOK, LocOK, OpCalls, MLock
<1>3. \A u \in Threads : pc'[u] \in Locked => gOwner' = u
  BY DEF TypeOK, Locked, MLock
<1>4. \A u \in Threads : pc'[u] = "ctor2" /\ attached'[u] => shm' \in Segment
  BY DEF TypeOK, Locked, Segment, MLock
<1>5. \A u \in Threads : pc'[u] \in {"mlock", "op"} => ptr'[u] = gcache' /\ gcache' # NullPtr
  BY DEF TypeOK, Locked, MLock
<1>6. nextId' + Cardinality(Pending') <= MaxInits
  <2>1. Pending' \ {t} = Pending \ {t}
    BY DEF TypeOK, Pending, MLock
  <2>2. t \in Pending <=> t \in Pending'
    BY DEF TypeOK, LocOK, Pending, MLock
  <2>3. nextId' = nextId
    BY DEF MLock
  <2>. QED BY <2>1, <2>2, <2>3, PendingFinite, CardinalityStep
<1>7. gcache' # NullPtr => gcache' \in live'
  BY DEF TypeOK, NullPtr, MLock
<1>. QED BY <1>1, <1>2, <1>3, <1>4, <1>5, <1>6, <1>7

\* OpWrite keeps the invariant.
LEMMA OpWriteSafe ==
  ASSUME SafeInv, NEW t \in Threads, OpWrite(t)
  PROVE  SafeInv'
<1>. USE DEF SafeInv, TypeInv, cacheVars, lockVars, argVars
<1>1. TypeOK'
  <2>0. ptr[t] \in Ids /\ key[t] \in Keys /\ val[t] \in Vals
    BY DEF TypeOK, LocOK, OpCalls, OpWrite, NullPtr
  <2>1. store[ptr[t]] \in Store
    BY <2>0 DEF TypeOK
  <2>2. [store[ptr[t]] EXCEPT ![key[t]] = val[t]] \in Store
    BY <2>0, <2>1 DEF Store
  <2>. QED BY <2>0, <2>1, <2>2 DEF TypeOK, Pcs, Results, OpWrite, OpDone
<1>2. \A u \in Threads : LocOK(u)'
  BY DEF TypeOK, LocOK, OpCalls, OpWrite, OpDone
<1>3. \A u \in Threads : pc'[u] \in Locked => gOwner' = u
  BY DEF TypeOK, Locked, OpWrite, OpDone
<1>4. \A u \in Threads : pc'[u] = "ctor2" /\ attached'[u] => shm' \in Segment
  BY DEF TypeOK, Locked, Segment, OpWrite, OpDone
<1>5. \A u \in Threads : pc'[u] \in {"mlock", "op"} => ptr'[u] = gcache' /\ gcache' # NullPtr
  BY DEF TypeOK, Locked, OpWrite, OpDone
<1>6. nextId' + Cardinality(Pending') <= MaxInits
  <2>1. Pending' \ {t} = Pending \ {t}
    BY DEF TypeOK, Pending, OpWrite, OpDone
  <2>2. t \in Pending <=> t \in Pending'
    BY DEF TypeOK, LocOK, Pending, OpWrite, OpDone
  <2>3. nextId' = nextId
    BY DEF OpWrite, OpDone
  <2>. QED BY <2>1, <2>2, <2>3, PendingFinite, CardinalityStep
<1>7. gcache' # NullPtr => gcache' \in live'
  BY DEF TypeOK, NullPtr, OpWrite, OpDone
<1>. QED BY <1>1, <1>2, <1>3, <1>4, <1>5, <1>6, <1>7

\* OpRead keeps the invariant.
LEMMA OpReadSafe ==
  ASSUME SafeInv, NEW t \in Threads, OpRead(t)
  PROVE  SafeInv'
<1>. USE DEF SafeInv, TypeInv, cacheVars, lockVars, argVars
<1>1. TypeOK'
  <2>0. ptr[t] \in Ids /\ key[t] \in Keys
    BY DEF TypeOK, LocOK, OpCalls, OpRead, NullPtr
  <2>1. store[ptr[t]] \in Store /\ store[ptr[t]][key[t]] \in Vals \cup {Nil}
    BY <2>0 DEF TypeOK, Store
  <2>. QED BY <2>0, <2>1 DEF TypeOK, Pcs, Results, OpRead, OpDone
<1>2. \A u \in Threads : LocOK(u)'
  BY DEF TypeOK, LocOK, OpCalls, OpRead, OpDone
<1>3. \A u \in Threads : pc'[u] \in Locked => gOwner' = u
  BY DEF TypeOK, Locked, OpRead, OpDone
<1>4. \A u \in Threads : pc'[u] = "ctor2" /\ attached'[u] => shm' \in Segment
  BY DEF TypeOK, Locked, Segment, OpRead, OpDone
<1>5. \A u \in Threads : pc'[u] \in {"mlock", "op"} => ptr'[u] = gcache' /\ gcache' # NullPtr
  BY DEF TypeOK, Locked, OpRead, OpDone
<1>6. nextId' + Cardinality(Pending') <= MaxInits
  <2>1. Pending' \ {t} = Pending \ {t}
    BY DEF TypeOK, Pending, OpRead, OpDone
  <2>2. t \in Pending <=> t \in Pending'
    BY DEF TypeOK, LocOK, Pending, OpRead, OpDone
  <2>3. nextId' = nextId
    BY DEF OpRead, OpDone
  <2>. QED BY <2>1, <2>2, <2>3, PendingFinite, CardinalityStep
<1>7. gcache' # NullPtr => gcache' \in live'
  BY DEF TypeOK, NullPtr, OpRead, OpDone
<1>. QED BY <1>1, <1>2, <1>3, <1>4, <1>5, <1>6, <1>7

\* OpRemove keeps the invariant.
LEMMA OpRemoveSafe ==
  ASSUME SafeInv, NEW t \in Threads, OpRemove(t)
  PROVE  SafeInv'
<1>. USE DEF SafeInv, TypeInv, cacheVars, lockVars, argVars
<1>1. TypeOK'
  BY ConstantsAssumption DEF TypeOK, Ids, NullPtr, Pcs, Calls, Results, Store, Segment, OpRemove, OpDone
<1>2. \A u \in Threads : LocOK(u)'
  BY DEF TypeOK, LocOK, OpCalls, OpRemove, OpDone
<1>3. \A u \in Threads : pc'[u] \in Locked => gOwner' = u
  BY DEF TypeOK, Locked, OpRemove, OpDone
<1>4. \A u \in Threads : pc'[u] = "ctor2" /\ attached'[u] => shm' \in Segment
  BY DEF TypeOK, Locked, Segment, OpRemove, OpDone
<1>5. \A u \in Threads : pc'[u] \in {"mlock", "op"} => ptr'[u] = gcache' /\ gcache' # NullPtr
  BY DEF TypeOK, Locked, OpRemove, OpDone
<1>6. nextId' + Cardinality(Pending') <= MaxInits
  <2>1. Pending' \ {t} = Pending \ {t}
    BY DEF TypeOK, Pending, OpRemove, OpDone
  <2>2. t \in Pending <=> t \in Pending'
    BY DEF TypeOK, LocOK, Pending, OpRemove, OpDone
  <2>3. nextId' = nextId
    BY DEF OpRemove, OpDone
  <2>. QED BY <2>1, <2>2, <2>3, PendingFinite, CardinalityStep
<1>7. gcache' # NullPtr => gcache' \in live'
  BY DEF TypeOK, NullPtr, OpRemove, OpDone
<1>. QED BY <1>1, <1>2, <1>3, <1>4, <1>5, <1>6, <1>7

\* Unlock keeps the invariant.
LEMMA UnlockSafe ==
  ASSUME SafeInv, NEW t \in Threads, Unlock(t)
  PROVE  SafeInv'
<1>. USE DEF SafeInv, TypeInv, cacheVars, lockVars, argVars
<1>1. TypeOK'
  BY ConstantsAssumption DEF TypeOK, Ids, NullPtr, Pcs, Calls, Results, Store, Segment, Unlock
<1>2. \A u \in Threads : LocOK(u)'
  BY DEF TypeOK, LocOK, OpCalls, Unlock
<1>3. \A u \in Threads : pc'[u] \in Locked => gOwner' = u
  BY DEF TypeOK, Locked, Unlock
<1>4. \A u \in Threads : pc'[u] = "ctor2" /\ attached'[u] => shm' \in Segment
  BY DEF TypeOK, Locked, Segment, Unlock
<1>5. \A u \in Threads : pc'[u] \in {"mlock", "op"} => ptr'[u] = gcache' /\ gcache' # NullPtr
  BY DEF TypeOK, Locked, Unlock
<1>6. nextId' + Cardinality(Pending') <= MaxInits
  <2>1. Pending' \ {t} = Pending \ {t}
    BY DEF TypeOK, Pending, Unlock
  <2>2. t \in Pending <=> t \in Pending'
    BY DEF TypeOK, LocOK, Pending, Unlock
  <2>3. nextId' = nextId
    BY DEF Unlock
  <2>. QED BY <2>1, <2>2, <2>3, PendingFinite, CardinalityStep
<1>7. gcache' # NullPtr => gcache' \in live'
  BY DEF TypeOK, NullPtr, Unlock
<1>. QED BY <1>1, <1>2, <1>3, <1>4, <1>5, <1>6, <1>7

\* A CacheLib eviction keeps the invariant.
LEMMA EvictSafe ==
  ASSUME SafeInv, Evict
  PROVE  SafeInv'
<1>. USE DEF SafeInv, TypeInv, cacheVars, lockVars, argVars
<1>1. TypeOK'
  BY DEF TypeOK, Store, Evict
<1>2. Pending' = Pending
  BY DEF Pending, Evict
<1>. QED BY <1>1, <1>2 DEF Evict, LocOK, TypeOK

\* A step of the binding, or a stutter, keeps the invariant.
LEMMA NextSafe == SafeInv /\ [Next]_vars => SafeInv'
<1> SUFFICES ASSUME SafeInv, [Next]_vars PROVE SafeInv'
  OBVIOUS
<1>1. CASE Evict
  BY <1>1, EvictSafe
<1>2. ASSUME NEW t \in Threads, Thread(t) PROVE SafeInv'
  BY <1>2, CallInitSafe, CallCleanupSafe, CallWriteSafe, CallKeySafe, AcquireSafe,
     FreeSafe, CtorConfigErrorSafe, CtorAttachSafe, CtorNewSafe, CtorAttachedSafe,
     CheckSafe, MLockSafe, OpWriteSafe, OpReadSafe, OpRemoveSafe, UnlockSafe DEF Thread
<1>3. CASE UNCHANGED vars
  <2>1. Pending' = Pending
    BY <1>3 DEF vars, cacheVars, lockVars, argVars, Pending
  <2>. QED BY <1>3, <2>1 DEF vars, cacheVars, lockVars, argVars, SafeInv, TypeInv, TypeOK, LocOK
<1>. QED BY <1>1, <1>2, <1>3 DEF Next

\* Type correctness of the binding's state (TypeOK is checked by run jni).
THEOREM TypeCorrect == Spec => []TypeOK
<1>1. SafeInv => TypeOK
  BY DEF SafeInv, TypeInv
<1>. QED BY <1>1, InitSafeInv, NextSafe, PTL DEF Spec

\* NoUseAfterFree for every number of Java threads, keys, values and
\* configurations: no thread ever calls into a CacheLibWrapper that
\* nativeInit or nativeCleanup has deleted, because both delete only while
\* holding g_cache_mutex and every caller holds it from its null check of
\* g_cache until it returns.
THEOREM NoUseAfterFreeHolds == Spec => []NoUseAfterFree
<1>1. SafeInv => NoUseAfterFree
  BY DEF SafeInv, TypeInv, NoUseAfterFree
<1>. QED BY <1>1, InitSafeInv, NextSafe, PTL DEF Spec
=============================================================================
