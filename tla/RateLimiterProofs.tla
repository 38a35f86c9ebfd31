--------------------------- MODULE RateLimiterProofs ---------------------------
(***************************************************************************)
(* Proof that the harness never passes more tokens than the rate allows:  *)
(* the borrows of consumeWithBorrowAndWait(1) from every worker, each      *)
(* waiting until its token is paid for, grant at most now + Burst tokens.  *)
(***************************************************************************)
EXTENDS RocksDbStressorProofs, FiniteSetTheorems

\* Workers asleep in consumeWithBorrowAndWait.
Waiting == {w \in Workers : pc[w] = "wait"}

\* The sleepers whose token is paid for by time n.
Due(n) == {w \in Waiting : wakeAt[w] <= n}

(***************************************************************************)
(* RateLimitRespected is not inductive: a borrow's wait must be counted    *)
(* before it is granted.  Every sleeper's token is paid for by zeroTime;   *)
(* the tokens granted and borrowed together are at most zeroTime + Burst;  *)
(* and at every time n from now on, the tokens granted and the sleepers    *)
(* due by then are at most n + Burst.                                      *)
(***************************************************************************)
LimitInv ==
  /\ TypeInv
  /\ \A w \in Waiting : wakeAt[w] <= zero
  /\ granted + Cardinality(Waiting) <= zero + Burst
  /\ \A n \in Int : n >= now => granted + Cardinality(Due(n)) <= n + Burst

-----------------------------------------------------------------------------
\* Every set of workers is finite.
LEMMA WorkerSetFinite ==
  ASSUME NEW S \in SUBSET Workers
  PROVE  IsFiniteSet(S) /\ Cardinality(S) \in Nat
<1>1. IsFiniteSet(Workers)
  <2>1. IsFiniteSet(1 .. Starts)
    BY StartsAssumption, FS_Interval
  <2>2. IsFiniteSet(0 .. NumThreads - 1)
    BY NumThreadsAssumption, FS_Interval
  <2>. QED BY <2>1, <2>2, FS_Product DEF Workers, Tids
<1>. QED BY <1>1, FS_Subset, FS_CardinalityType

\* The numbers the bound is about are integers.
LEMMA LimitTypes ==
  ASSUME TypeInv
  PROVE  /\ granted \in Nat /\ now \in Nat /\ zero \in Int /\ Burst \in Nat
         /\ wakeAt \in [Workers -> Int]
         /\ pc \in [Workers -> {"idle", "head", "wait", "fetch", "inc", "done"}]
BY OpRateAssumption DEF TypeInv, TypeOK, Burst

\* A step that only lets workers leave the wait, and touches neither the
\* clock, the bucket nor the grants, keeps LimitInv.
LEMMA LimitFrame ==
  ASSUME LimitInv, TypeInv', Waiting' \subseteq Waiting,
         UNCHANGED <<wakeAt, zero, granted, now>>
  PROVE  LimitInv'
<1>0. granted \in Nat /\ now \in Nat /\ zero \in Int /\ Burst \in Nat
  BY LimitTypes DEF LimitInv
<1>1. \A w \in Waiting' : wakeAt'[w] <= zero'
  BY DEF LimitInv
<1>2. granted' + Cardinality(Waiting') <= zero' + Burst
  <2>1. Waiting \subseteq Workers
    BY DEF Waiting
  <2>2. Cardinality(Waiting') <= Cardinality(Waiting) /\ Cardinality(Waiting') \in Nat
    BY <2>1, WorkerSetFinite, FS_Subset, FS_CardinalityType
  <2>3. Cardinality(Waiting) \in Nat
    BY <2>1, WorkerSetFinite
  <2>. QED BY <1>0, <2>2, <2>3 DEF LimitInv
<1>3. ASSUME NEW n \in Int, n >= now'
      PROVE  granted' + Cardinality(Due(n)') <= n + Burst
  <2>1. Due(n)' \subseteq Due(n) /\ Due(n) \subseteq Workers
    BY DEF Due, Waiting
  <2>2. Cardinality(Due(n)') <= Cardinality(Due(n)) /\ Cardinality(Due(n)') \in Nat
    BY <2>1, WorkerSetFinite, FS_Subset, FS_CardinalityType
  <2>3. Cardinality(Due(n)) \in Nat
    BY <2>1, WorkerSetFinite
  <2>4. granted + Cardinality(Due(n)) <= n + Burst
    BY <1>3 DEF LimitInv
  <2>. QED BY <1>0, <2>2, <2>3, <2>4
<1>. QED BY <1>1, <1>2, <1>3 DEF LimitInv

\* A borrow: the token is paid for one unit after the later of zeroTime and
\* now - Burst, and the worker sleeps until then.
LEMMA BorrowKeepsLimit ==
  ASSUME LimitInv, TypeInv', NEW w \in Workers, LoopContinue(w), OpRate > 0
  PROVE  LimitInv'
<1>0. /\ granted \in Nat /\ now \in Nat /\ zero \in Int /\ Burst \in Nat
      /\ wakeAt \in [Workers -> Int]
      /\ pc \in [Workers -> {"idle", "head", "wait", "fetch", "inc", "done"}]
  BY LimitTypes DEF LimitInv
<1>. DEFINE z == Borrow(zero, now)
<1>1. /\ z \in Int /\ z >= zero + 1
      /\ zero' = z /\ wakeAt' = [wakeAt EXCEPT ![w] = z]
      /\ pc' = [pc EXCEPT ![w] = "wait"] /\ pc[w] = "head"
      /\ granted' = granted /\ now' = now
  BY <1>0 DEF LoopContinue, Borrow, ghostVars
<1>2. w \notin Waiting /\ Waiting' = Waiting \cup {w}
  BY <1>0, <1>1 DEF Waiting
<1>3. Cardinality(Waiting) \in Nat /\ Cardinality(Waiting') = Cardinality(Waiting) + 1
  BY <1>2, WorkerSetFinite, FS_AddElement DEF Waiting
<1>4. \A v \in Waiting' : wakeAt'[v] <= zero'
  <2>1. TAKE v \in Waiting'
  <2>2. CASE v = w
    BY <1>0, <1>1, <2>2
  <2>3. CASE v # w
    <3>1. v \in Waiting /\ v \in Workers /\ wakeAt'[v] = wakeAt[v]
      BY <1>1, <1>2, <2>3 DEF Waiting
    <3>2. wakeAt[v] <= zero
      BY <3>1 DEF LimitInv
    <3>. QED BY <1>0, <1>1, <3>1, <3>2
  <2>. QED BY <2>2, <2>3
<1>5. granted' + Cardinality(Waiting') <= zero' + Burst
  BY <1>0, <1>1, <1>3 DEF LimitInv
<1>6. ASSUME NEW n \in Int, n >= now'
      PROVE  granted' + Cardinality(Due(n)') <= n + Burst
  <2>1. Due(n) \subseteq Waiting /\ w \notin Due(n)
    BY <1>2 DEF Due
  <2>2. Cardinality(Due(n)) \in Nat /\ Cardinality(Due(n)) <= Cardinality(Waiting)
    BY <2>1, WorkerSetFinite, FS_Subset DEF Waiting
  <2>3. CASE z <= n
    <3>1. Due(n)' = Due(n) \cup {w}
      BY <1>0, <1>1, <1>2, <2>3 DEF Due
    <3>2. Cardinality(Due(n)') = Cardinality(Due(n)) + 1
      BY <2>1, <3>1, WorkerSetFinite, FS_AddElement DEF Waiting
    <3>. QED BY <1>0, <1>1, <1>3, <2>2, <2>3, <3>2 DEF LimitInv
  <2>4. CASE ~(z <= n)
    <3>1. Due(n)' = Due(n)
      BY <1>0, <1>1, <1>2, <2>4 DEF Due
    <3>. QED BY <1>1, <1>6, <3>1 DEF LimitInv
  <2>. QED BY <2>3, <2>4
<1>. QED BY <1>4, <1>5, <1>6 DEF LimitInv

\* A sleeper whose token is paid for wakes: one grant more, one sleeper
\* less, and it was due at every time from now on.
LEMMA WakeKeepsLimit ==
  ASSUME LimitInv, TypeInv', NEW w \in Workers, Wake(w)
  PROVE  LimitInv'
<1>0. /\ granted \in Nat /\ now \in Nat /\ zero \in Int /\ Burst \in Nat
      /\ wakeAt \in [Workers -> Int]
      /\ pc \in [Workers -> {"idle", "head", "wait", "fetch", "inc", "done"}]
  BY LimitTypes DEF LimitInv
<1>1. /\ pc' = [pc EXCEPT ![w] = "fetch"] /\ pc[w] = "wait" /\ wakeAt[w] <= now
      /\ granted' = granted + 1 /\ UNCHANGED <<wakeAt, zero, now>>
  BY DEF Wake, envVars
<1>2. w \in Waiting /\ Waiting' = Waiting \ {w}
  BY <1>0, <1>1 DEF Waiting
<1>3. Cardinality(Waiting) \in Nat /\ Cardinality(Waiting') = Cardinality(Waiting) - 1
  BY <1>2, WorkerSetFinite, FS_RemoveElement DEF Waiting
<1>4. \A v \in Waiting' : wakeAt'[v] <= zero'
  BY <1>1, <1>2 DEF LimitInv
<1>5. granted' + Cardinality(Waiting') <= zero' + Burst
  BY <1>0, <1>1, <1>3 DEF LimitInv
<1>6. ASSUME NEW n \in Int, n >= now'
      PROVE  granted' + Cardinality(Due(n)') <= n + Burst
  <2>1. w \in Due(n) /\ Due(n)' = Due(n) \ {w}
    BY <1>0, <1>1, <1>2, <1>6 DEF Due
  <2>2. Cardinality(Due(n)) \in Nat /\ Cardinality(Due(n)') = Cardinality(Due(n)) - 1
    BY <2>1, WorkerSetFinite, FS_RemoveElement DEF Due, Waiting
  <2>. QED BY <1>0, <1>1, <1>6, <2>2 DEF LimitInv
<1>. QED BY <1>4, <1>5, <1>6 DEF LimitInv

\* The clock advancing only shortens the times the bound speaks of.
LEMMA TickKeepsLimit ==
  ASSUME LimitInv, TypeInv', Tick
  PROVE  LimitInv'
<1>1. now' = now + 1 /\ now \in Nat /\ UNCHANGED <<pc, wakeAt, zero, granted>>
  BY LimitTypes DEF LimitInv, Tick, workerVars, envVars, ghostVars
<1>2. Waiting' = Waiting /\ \A n \in Int : Due(n)' = Due(n)
  BY <1>1 DEF Waiting, Due
<1>. QED BY <1>1, <1>2 DEF LimitInv

\* Every step of the harness keeps LimitInv.
LEMMA NextLimitInv == LimitInv /\ [Next]_vars => LimitInv'
<1> SUFFICES ASSUME LimitInv, [Next]_vars PROVE LimitInv'
  OBVIOUS
<1>0. TypeInv' /\ pc \in [Workers -> {"idle", "head", "wait", "fetch", "inc", "done"}]
  BY NextTypeInv, LimitTypes DEF LimitInv
<1>1. CASE Start
  <2>1. Waiting' \subseteq Waiting
    BY <1>0, <1>1 DEF Start, Waiting
  <2>. QED BY <1>0, <1>1, <2>1, LimitFrame DEF Start, envVars, ghostVars
<1>2. CASE Finish \/ Destroy
  BY <1>0, <1>2, LimitFrame DEF Finish, Destroy, FinishBody, workerVars, ghostVars, Waiting
<1>3. CASE Tick
  BY <1>0, <1>3, TickKeepsLimit
<1>4. ASSUME NEW w \in Workers, LoopContinue(w) PROVE LimitInv'
  <2>1. CASE OpRate > 0
    BY <1>0, <1>4, <2>1, BorrowKeepsLimit
  <2>2. CASE ~(OpRate > 0)
    <3>1. pc' = [pc EXCEPT ![w] = "fetch"] /\ UNCHANGED <<wakeAt, zero, granted, now>>
      BY <1>4, <2>2 DEF LoopContinue, ghostVars
    <3>. QED BY <1>0, <3>1, LimitFrame DEF Waiting
  <2>. QED BY <2>1, <2>2
<1>5. ASSUME NEW w \in Workers, Wake(w) PROVE LimitInv'
  BY <1>0, <1>5, WakeKeepsLimit
<1>6. ASSUME NEW w \in Workers, LoopExit(w) \/ Exhausted(w) \/ Fetch(w) \/ StoreNext(w) \/ StoreLast(w)
      PROVE  LimitInv'
  <2>1. /\ \E v \in {"done", "inc", "head"} : pc' = [pc EXCEPT ![w] = v] \/ pc' = pc
        /\ UNCHANGED <<wakeAt, zero, granted, now>>
    BY <1>6 DEF LoopExit, Exhausted, Fetch, StoreNext, StoreLast, ghostVars
  <2>2. Waiting' \subseteq Waiting
    BY <1>0, <2>1 DEF Waiting
  <2>. QED BY <1>0, <2>1, <2>2, LimitFrame
<1>7. CASE UNCHANGED vars
  BY <1>0, <1>7, LimitFrame DEF vars, mainVars, workerVars, envVars, ghostVars, Waiting
<1>. QED BY <1>1, <1>2, <1>3, <1>4, <1>5, <1>6, <1>7 DEF Next, Main, Worker

\* The initial state: nobody waits, nothing is granted, zeroTime = -Burst.
LEMMA InitLimitInv == Init => LimitInv
<1> SUFFICES ASSUME Init PROVE LimitInv
  OBVIOUS
<1>1. Waiting = {} /\ \A n \in Int : Due(n) = {}
  BY DEF Init, Waiting, Due
<1>2. Cardinality(Waiting) = 0 /\ \A n \in Int : Cardinality(Due(n)) = 0
  BY <1>1, FS_EmptySet
<1>3. granted = 0 /\ zero = -Burst /\ now = 0 /\ Burst \in Nat
  BY OpRateAssumption DEF Init, Burst
<1>4. \A n \in Int : n >= now => granted + Cardinality(Due(n)) <= n + Burst
  BY <1>2, <1>3
<1>. QED BY <1>1, <1>2, <1>3, <1>4, InitTypeInv DEF LimitInv

\* RateLimitRespected (checked by run limiter) for every number of
\* threads, quota, rate and clock bound: however the workers interleave
\* their consumeWithBorrowAndWait(1) calls, the harness passes at most
\* rate * elapsed + burst tokens.
THEOREM RateLimitHolds == Spec => []RateLimitRespected
<1>1. LimitInv => RateLimitRespected
  <2> SUFFICES ASSUME LimitInv PROVE granted <= now + Burst
    BY DEF RateLimitRespected
  <2>1. granted \in Nat /\ now \in Nat /\ Burst \in Nat
    BY LimitTypes DEF LimitInv
  <2>2. Cardinality(Due(now)) \in Nat
    BY WorkerSetFinite DEF Due, Waiting
  <2>3. granted + Cardinality(Due(now)) <= now + Burst
    BY <2>1 DEF LimitInv
  <2>. QED BY <2>1, <2>2, <2>3
<1>. QED BY <1>1, InitLimitInv, NextLimitInv, PTL DEF Spec
=============================================================================
