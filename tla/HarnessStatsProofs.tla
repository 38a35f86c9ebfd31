------------------------- MODULE HarnessStatsProofs -------------------------
(***************************************************************************)
(* Proof that, with start() called once, every thrStats_ slot that no     *)
(* worker is updating holds exactly the counts of spec section 4.2        *)
(* (StatsMatchHistory), however the workers interleave.                   *)
(***************************************************************************)
EXTENDS RocksDbStressorProofs, FiniteSetTheorems

(***************************************************************************)
(* Owed(s, f): 1 when the increments s still to store raise thread        *)
(* counter f by one.  FieldsOnce(s): no thread counter is named twice in s *)
(* (an iteration raises each counter at most once).                       *)
(***************************************************************************)
Owed(s, f) == IF \E j \in DOMAIN s : s[j] = T(f, 1) THEN 1 ELSE 0

FieldsOnce(s) ==
  \A j, k \in DOMAIN s :
    s[j].obj = "thread" /\ s[k].obj = "thread" /\ s[j].f = s[k].f => j = k

(***************************************************************************)
(* StatsMatchHistory is not inductive: while a worker is between the load *)
(* and the store of ++counter its slot lags behind the history, which Fetch *)
(* has already advanced by the whole iteration.  StatsInv says by how      *)
(* much: the slot plus what the worker still owes it is the history, the   *)
(* worker's pending value is the slot's current value of the counter it   *)
(* stores next, and outside an iteration nothing is owed.  With one call  *)
(* of start() each slot has a single writer, so no other worker can move   *)
(* it in between.                                                          *)
(***************************************************************************)
SlotInv(w) ==
  /\ pc[w] # "inc" => todo[w] = <<>>
  /\ FieldsOnce(todo[w])
  /\ \A f \in ThreadFields : thrStats[Slot(w)][f] + Owed(todo[w], f) = hist[w][f]
  /\ pc[w] = "inc" /\ Head(todo[w]).obj = "thread"
       => tmp[w] = thrStats[Slot(w)][Head(todo[w]).f]

StatsInv == FinishInv /\ \A w \in Workers : SlotInv(w)

-----------------------------------------------------------------------------
(***************************************************************************)
(* Lemmas about the increment sequences.                                   *)
(***************************************************************************)

\* Nothing is owed once an iteration's increments are all stored.
LEMMA OwedEmpty == \A f \in ThreadFields : Owed(<<>>, f) = 0 /\ FieldsOnce(<<>>)
BY DEF Owed, FieldsOnce

\* Storing the head of the pending increments pays what it owes, and the
\* rest still names each thread counter at most once.
LEMMA OwedTail ==
  ASSUME NEW s \in Seq(Incr), s # <<>>, FieldsOnce(s)
  PROVE  /\ FieldsOnce(Tail(s))
         /\ \A f \in ThreadFields :
              Owed(s, f) = Owed(Tail(s), f) + (IF Head(s) = T(f, 1) THEN 1 ELSE 0)
<1>1. /\ Len(s) \in Nat \ {0}
      /\ DOMAIN Tail(s) = 1 .. Len(s) - 1
      /\ \A j \in DOMAIN Tail(s) : Tail(s)[j] = s[j + 1] /\ j + 1 \in DOMAIN s
      /\ Head(s) = s[1] /\ 1 \in DOMAIN s
  OBVIOUS
<1>2. FieldsOnce(Tail(s))
  BY <1>1 DEF FieldsOnce
<1>3. ASSUME NEW f \in ThreadFields
      PROVE  Owed(s, f) = Owed(Tail(s), f) + (IF Head(s) = T(f, 1) THEN 1 ELSE 0)
  <2>1. CASE Head(s) = T(f, 1)
    <3>1. ~\E j \in DOMAIN Tail(s) : Tail(s)[j] = T(f, 1)
      BY <1>1, <2>1 DEF FieldsOnce, T
    <3>. QED BY <2>1, <3>1, <1>1 DEF Owed
  <2>3. CASE Head(s) # T(f, 1)
    <3>4. (\E j \in DOMAIN s : s[j] = T(f, 1)) <=>
          (\E j \in DOMAIN Tail(s) : Tail(s)[j] = T(f, 1))
      <4>1. ASSUME NEW j \in DOMAIN s, s[j] = T(f, 1)
            PROVE  j # 1 /\ j - 1 \in DOMAIN Tail(s) /\ Tail(s)[j - 1] = s[j]
        BY <1>1, <2>3, <4>1
      <4>. QED BY <1>1, <4>1
    <3>. QED BY <2>3, <3>4 DEF Owed
  <2>. QED BY <2>1, <2>3
<1>. QED BY <1>2, <1>3

\* The increments Fetch queues for an iteration name each thread counter at
\* most once and owe exactly what spec section 4.2 adds for it.
LEMMA IncsOwed ==
  ASSUME NEW op \in Ops, NEW st \in {"ok", "notfound", "error", "none"}
  PROVE  LET s == CacheIncrs(op, st) \o ThreadIncrs(op, st)
         IN  /\ FieldsOnce(s)
             /\ \A f \in ThreadFields : Owed(s, f) = SpecDelta(op, st)[f]
<1>. DEFINE c == CacheIncrs(op, st)  th == ThreadIncrs(op, st)  s == c \o th
<1>1. c \in {<<C("allocAttempts")>>, <<C("numCacheGetMiss")>>, <<C("numCacheGets")>>, <<>>}
  BY Zenon DEF CacheIncrs
<1>2. /\ c \in Seq(Incr) /\ th \in Seq(Incr)
  BY IncrsTyped
<1>3. /\ \A j \in DOMAIN c : c[j].obj = "cache"
      /\ DOMAIN s = 1 .. Len(c) + Len(th)
      /\ \A j \in 1 .. Len(c) : s[j] = c[j]
      /\ \A j \in 1 .. Len(th) : s[Len(c) + j] = th[j]
      /\ Len(c) \in Nat /\ Len(th) \in Nat
  BY <1>1, <1>2 DEF C
<1>4. /\ FieldsOnce(th)
      /\ \A f \in ThreadFields :
           (\E j \in DOMAIN th : th[j] = T(f, 1)) <=> SpecDelta(op, st)[f] = 1
      /\ \A f \in ThreadFields : SpecDelta(op, st)[f] \in {0, 1}
  <2>1. CASE op = "set"
    BY <2>1 DEF ThreadIncrs, SpecDelta, FieldsOnce, T, ThreadFields
  <2>2. CASE op = "get" /\ st = "ok"
    BY <2>2 DEF ThreadIncrs, SpecDelta, FieldsOnce, T, ThreadFields
  <2>3. CASE op = "get" /\ st # "ok"
    BY <2>3 DEF ThreadIncrs, SpecDelta, FieldsOnce, T, ThreadFields
  <2>4. CASE op = "del"
    BY <2>4 DEF ThreadIncrs, SpecDelta, FieldsOnce, T, ThreadFields
  <2>5. CASE op = "other"
    BY <2>5 DEF ThreadIncrs, SpecDelta, FieldsOnce, T, ThreadFields
  <2>. QED BY <2>1, <2>2, <2>3, <2>4, <2>5 DEF Ops
<1>5. FieldsOnce(s)
  BY <1>2, <1>3, <1>4 DEF FieldsOnce
<1>6. ASSUME NEW f \in ThreadFields
      PROVE  Owed(s, f) = SpecDelta(op, st)[f]
  <2>1. (\E j \in DOMAIN s : s[j] = T(f, 1)) <=> (\E j \in DOMAIN th : th[j] = T(f, 1))
    <3>1. ASSUME NEW j \in DOMAIN s, s[j] = T(f, 1)
          PROVE  \E k \in DOMAIN th : th[k] = T(f, 1)
      <4>1. j \notin 1 .. Len(c)
        BY <1>3, <3>1 DEF T
      <4>2. j - Len(c) \in 1 .. Len(th) /\ s[j] = th[j - Len(c)]
        BY <1>3, <4>1
      <4>. QED BY <1>2, <3>1, <4>2
    <3>2. ASSUME NEW k \in DOMAIN th, th[k] = T(f, 1)
          PROVE  \E j \in DOMAIN s : s[j] = T(f, 1)
      <4>1. k \in 1 .. Len(th) /\ Len(c) + k \in DOMAIN s /\ s[Len(c) + k] = th[k]
        BY <1>2, <1>3
      <4>. QED BY <3>2, <4>1
    <3>. QED BY <3>1, <3>2
  <2>. QED BY <1>4, <2>1 DEF Owed
<1>. QED BY <1>5, <1>6

\* With one call of start(), the sum over the workers of a slot is the
\* count of its one worker.
LEMMA SlotHistOne ==
  ASSUME Starts = 1, TypeOK, NEW t \in Tids, NEW f \in ThreadFields
  PROVE  SlotHist(t, f) = hist[<<1, t>>][f]
<1>. DEFINE h == hist[<<1, t>>][f]
            IsSum(S) == S = [n \in 0 .. Starts |->
                               IF n = 0 THEN 0 ELSE S[n - 1] + hist[<<n, t>>][f]]
<1>1. h \in Nat
  BY StartsAssumption DEF TypeOK, Workers
<1>2. IsSum([n \in 0 .. Starts |-> IF n = 0 THEN 0 ELSE h])
  BY <1>1
<1>3. ASSUME NEW S, IsSum(S) PROVE S[Starts] = h
  BY <1>1, <1>3
<1>. QED BY <1>2, <1>3 DEF SlotHist

-----------------------------------------------------------------------------
(***************************************************************************)
(* The step lemmas.                                                        *)
(***************************************************************************)

\* With one call of start(), no two workers share a thrStats_ slot.
LEMMA SlotUnique ==
  ASSUME Starts = 1
  PROVE  \A v, w \in Workers : Slot(v) = Slot(w) => v = w
BY DEF Workers, Slot

\* A step that leaves a worker's slot, history, pending increments and
\* pending value alone, and does not move it into or out of an iteration,
\* keeps its SlotInv.
LEMMA SlotFrame ==
  ASSUME NEW v \in Workers, SlotInv(v),
         todo'[v] = todo[v], tmp'[v] = tmp[v], hist'[v] = hist[v],
         thrStats'[Slot(v)] = thrStats[Slot(v)],
         (pc'[v] = "inc") <=> (pc[v] = "inc")
  PROVE  SlotInv(v)'
BY DEF SlotInv

\* The typing facts the worker steps use.
LEMMA StatsTypes ==
  ASSUME TypeInv, NEW w \in Workers
  PROVE  /\ Slot(w) \in Tids
         /\ todo[w] \in Seq(Incr) /\ tmp[w] \in Nat
         /\ thrStats[Slot(w)] \in [ThreadFields -> Nat]
         /\ hist[w] \in [ThreadFields -> Nat]
         /\ pc[w] = "inc" => todo[w] # <<>>
BY DEF TypeInv, TypeOK, Slot, Workers

\* getReq and the RocksDB call: the history advances by the iteration's
\* counts, which the worker now owes its slot.
LEMMA FetchKeepsSlots ==
  ASSUME StatsInv, TypeInv', NEW w \in Workers, Fetch(w)
  PROVE  \A v \in Workers : SlotInv(v)'
<1>0. TypeInv
  BY DEF StatsInv, FinishInv
<1>1. PICK op \in Ops, k \in Keys :
        \E st \in DbStatus(op, k) :
          /\ todo' = [todo EXCEPT ![w] = CacheIncrs(op, st) \o ThreadIncrs(op, st)]
          /\ tmp' = [tmp EXCEPT ![w] = Load(w, Head(CacheIncrs(op, st) \o ThreadIncrs(op, st)))]
          /\ hist' = [hist EXCEPT ![w] =
                        [f \in ThreadFields |-> hist[w][f] + SpecDelta(op, st)[f]]]
  BY DEF Fetch
<1>7. PICK st \in DbStatus(op, k) :
        /\ todo' = [todo EXCEPT ![w] = CacheIncrs(op, st) \o ThreadIncrs(op, st)]
        /\ tmp' = [tmp EXCEPT ![w] = Load(w, Head(CacheIncrs(op, st) \o ThreadIncrs(op, st)))]
        /\ hist' = [hist EXCEPT ![w] =
                      [f \in ThreadFields |-> hist[w][f] + SpecDelta(op, st)[f]]]
  BY <1>1
<1>. DEFINE incs == CacheIncrs(op, st) \o ThreadIncrs(op, st)
<1>2. st \in {"ok", "notfound", "error", "none"}
  BY DEF DbStatus, Fail
<1>3. /\ incs \in Seq(Incr) /\ incs # <<>> /\ FieldsOnce(incs)
      /\ \A f \in ThreadFields : Owed(incs, f) = SpecDelta(op, st)[f]
  BY <1>2, IncrsTyped, IncsOwed
<1>4. /\ pc[w] = "fetch" /\ pc' = [pc EXCEPT ![w] = "inc"] /\ thrStats' = thrStats
  BY DEF Fetch
<1>5. ASSUME NEW v \in Workers, v # w PROVE SlotInv(v)'
  BY <1>0, <1>7, <1>4, <1>5, SlotFrame DEF StatsInv, TypeInv, TypeOK
<1>6. SlotInv(w)'
  <2>1. /\ todo[w] = <<>> /\ Slot(w) \in Tids /\ hist[w] \in [ThreadFields -> Nat]
        /\ \A f \in ThreadFields : thrStats[Slot(w)][f] + Owed(<<>>, f) = hist[w][f]
    BY <1>0, <1>4, StatsTypes DEF StatsInv, SlotInv
  <2>2. \A f \in ThreadFields : thrStats[Slot(w)][f] = hist[w][f]
    <3>1. TAKE f \in ThreadFields
    <3>2. thrStats[Slot(w)][f] \in Nat /\ Owed(<<>>, f) = 0
      BY <1>0, OwedEmpty, StatsTypes
    <3>3. thrStats[Slot(w)][f] + Owed(<<>>, f) = hist[w][f]
      BY <2>1
    <3>. QED BY <3>2, <3>3
  <2>3. /\ todo'[w] = incs /\ tmp'[w] = Load(w, Head(incs)) /\ pc'[w] = "inc"
        /\ hist'[w] = [f \in ThreadFields |-> hist[w][f] + SpecDelta(op, st)[f]]
    BY <1>0, <1>7, <1>4 DEF TypeInv, TypeOK
  <2>4. \A f \in ThreadFields : thrStats'[Slot(w)][f] + Owed(todo'[w], f) = hist'[w][f]
    BY <1>3, <1>4, <2>2, <2>3
  <2>5. Head(incs).obj = "thread" => tmp'[w] = thrStats'[Slot(w)][Head(incs).f]
    BY <1>4, <2>3 DEF Load
  <2>. QED BY <1>3, <2>3, <2>4, <2>5 DEF SlotInv
<1>. QED BY <1>5, <1>6

\* Storing ++counter: the worker's slot gains what the head increment owed,
\* nobody else's slot moves, and the counter it loads next is untouched.
LEMMA StoreHead ==
  ASSUME StatsInv, Starts = 1, NEW w \in Workers, pc[w] = "inc",
         Write(w, Head(todo[w]), tmp[w] + Head(todo[w]).amt)
  PROVE  /\ FieldsOnce(Tail(todo[w]))
         /\ \A f \in ThreadFields :
              thrStats'[Slot(w)][f] + Owed(Tail(todo[w]), f) = hist[w][f]
         /\ \A v \in Workers \ {w} : thrStats'[Slot(v)] = thrStats[Slot(v)]
         /\ Len(todo[w]) > 1 /\ todo[w][2].obj = "thread"
              => thrStats'[Slot(w)][todo[w][2].f] = thrStats[Slot(w)][todo[w][2].f]
<1>0. /\ TypeInv /\ SlotInv(w)
  BY DEF StatsInv, FinishInv
<1>. DEFINE s == todo[w]  e == Head(s)
<1>1. /\ Slot(w) \in Tids /\ s \in Seq(Incr) /\ s # <<>> /\ tmp[w] \in Nat
      /\ thrStats[Slot(w)] \in [ThreadFields -> Nat]
      /\ thrStats \in [Tids -> [ThreadFields -> Nat]]
  BY <1>0, StatsTypes DEF TypeInv, TypeOK
<1>2. /\ e \in Incr /\ FieldsOnce(s)
      /\ \A f \in ThreadFields : thrStats[Slot(w)][f] + Owed(s, f) = hist[w][f]
      /\ e.obj = "thread" => tmp[w] = thrStats[Slot(w)][e.f]
  BY <1>0, <1>1 DEF SlotInv
<1>3. /\ FieldsOnce(Tail(s))
      /\ \A f \in ThreadFields :
           Owed(s, f) = Owed(Tail(s), f) + (IF e = T(f, 1) THEN 1 ELSE 0)
  BY <1>1, <1>2, OwedTail
<1>4. \A v \in Workers \ {w} : Slot(v) # Slot(w)
  BY SlotUnique
<1>7. \A f \in ThreadFields : Owed(Tail(s), f) \in {0, 1} /\ Owed(s, f) \in {0, 1}
  BY DEF Owed
<1>5. CASE e.obj = "cache"
  <2>1. thrStats' = thrStats
    BY <1>5 DEF Write
  <2>2. \A f \in ThreadFields : e # T(f, 1)
    BY <1>5 DEF T
  <2>. QED BY <1>1, <1>2, <1>3, <1>4, <1>7, <2>1, <2>2
<1>6. CASE e.obj = "thread"
  <2>1. /\ e.f \in ThreadFields /\ e.amt \in {0, 1}
        /\ e = [obj |-> "thread", f |-> e.f, amt |-> e.amt]
    BY <1>2, <1>6 DEF Incr
  <2>2. thrStats' = [thrStats EXCEPT ![Slot(w)][e.f] = tmp[w] + e.amt]
    BY <1>6 DEF Write
  <2>3. /\ thrStats'[Slot(w)][e.f] = thrStats[Slot(w)][e.f] + e.amt
        /\ \A f \in ThreadFields \ {e.f} : thrStats'[Slot(w)][f] = thrStats[Slot(w)][f]
        /\ \A v \in Workers \ {w} : thrStats'[Slot(v)] = thrStats[Slot(v)]
    BY <1>1, <1>2, <1>4, <1>6, <2>1, <2>2 DEF Slot, Workers
  <2>4. \A f \in ThreadFields :
          thrStats'[Slot(w)][f] + Owed(Tail(s), f) = hist[w][f]
    <3>1. TAKE f \in ThreadFields
    <3>2. Owed(Tail(s), f) \in {0, 1} /\ Owed(s, f) \in {0, 1}
      BY <1>7
    <3>3. CASE f = e.f
      <4>1. (e = T(f, 1)) <=> (e.amt = 1)
        BY <2>1, <3>3 DEF T
      <4>. QED BY <1>1, <1>2, <1>3, <2>1, <2>3, <3>2, <3>3, <4>1
    <3>4. CASE f # e.f
      <4>1. e # T(f, 1)
        BY <3>4 DEF T
      <4>. QED BY <1>1, <1>2, <1>3, <2>3, <3>2, <3>4, <4>1
    <3>. QED BY <3>3, <3>4
  <2>5. Len(s) > 1 /\ s[2].obj = "thread" => s[2].f # e.f
    BY <1>1, <1>2, <1>6 DEF FieldsOnce
  <2>6. Len(s) > 1 /\ s[2].obj = "thread" => s[2].f \in ThreadFields \ {e.f}
    <3>1. Len(s) > 1 => s[2] \in Incr
      BY <1>1
    <3>. QED BY <2>5, <3>1 DEF Incr
  <2>. QED BY <1>3, <2>3, <2>4, <2>6
<1>. QED BY <1>2, <1>5, <1>6 DEF Incr

\* Storing a counter and loading the next one.
LEMMA StoreNextKeepsSlots ==
  ASSUME StatsInv, Starts = 1, NEW w \in Workers, StoreNext(w)
  PROVE  \A v \in Workers : SlotInv(v)'
<1>0. TypeInv
  BY DEF StatsInv, FinishInv
<1>. DEFINE s == todo[w]
<1>1. /\ pc[w] = "inc" /\ Len(s) > 1 /\ pc' = pc /\ hist' = hist
      /\ Write(w, Head(s), tmp[w] + Head(s).amt)
      /\ tmp' = [tmp EXCEPT ![w] = Load(w, s[2])]
      /\ todo' = [todo EXCEPT ![w] = Tail(s)]
  BY DEF StoreNext, ghostVars
<1>2. /\ FieldsOnce(Tail(s))
      /\ \A f \in ThreadFields : thrStats'[Slot(w)][f] + Owed(Tail(s), f) = hist[w][f]
      /\ \A v \in Workers \ {w} : thrStats'[Slot(v)] = thrStats[Slot(v)]
      /\ s[2].obj = "thread" => thrStats'[Slot(w)][s[2].f] = thrStats[Slot(w)][s[2].f]
  BY <1>1, StoreHead
<1>3. /\ s \in Seq(Incr) /\ Head(Tail(s)) = s[2]
      /\ todo'[w] = Tail(s) /\ tmp'[w] = Load(w, s[2])
      /\ \A v \in Workers \ {w} : todo'[v] = todo[v] /\ tmp'[v] = tmp[v]
  BY <1>0, <1>1, StatsTypes DEF TypeInv, TypeOK
<1>4. SlotInv(w)'
  <2>1. s[2].obj = "thread" => tmp'[w] = thrStats'[Slot(w)][s[2].f]
    BY <1>2, <1>3 DEF Load
  <2>. QED BY <1>1, <1>2, <1>3, <2>1 DEF SlotInv
<1>5. ASSUME NEW v \in Workers \ {w} PROVE SlotInv(v)'
  BY <1>1, <1>2, <1>3, SlotFrame DEF StatsInv
<1>. QED BY <1>4, <1>5

\* Storing ++ops ends the iteration: the slot has caught up with the
\* history.
LEMMA StoreLastKeepsSlots ==
  ASSUME StatsInv, Starts = 1, NEW w \in Workers, StoreLast(w)
  PROVE  \A v \in Workers : SlotInv(v)'
<1>0. TypeInv
  BY DEF StatsInv, FinishInv
<1>. DEFINE s == todo[w]
<1>1. /\ pc[w] = "inc" /\ Len(s) = 1 /\ hist' = hist /\ tmp' = tmp
      /\ Write(w, Head(s), tmp[w] + Head(s).amt)
      /\ pc' = [pc EXCEPT ![w] = "head"]
      /\ todo' = [todo EXCEPT ![w] = <<>>]
  BY DEF StoreLast
<1>2. /\ \A f \in ThreadFields : thrStats'[Slot(w)][f] + Owed(Tail(s), f) = hist[w][f]
      /\ \A v \in Workers \ {w} : thrStats'[Slot(v)] = thrStats[Slot(v)]
  BY <1>1, StoreHead
<1>6. s \in Seq(Incr)
  BY <1>0, StatsTypes
<1>7. Tail(s) = <<>>
  <2>1. s # <<>>
    BY <1>1, EmptySeq
  <2>2. Tail(s) \in Seq(Incr) /\ Len(Tail(s)) = 0
    BY <1>1, <1>6, <2>1, HeadTailProperties
  <2>. QED BY <2>2, EmptySeq
<1>3. /\ Tail(s) = <<>> /\ todo'[w] = <<>> /\ pc'[w] = "head"
      /\ \A v \in Workers \ {w} : todo'[v] = todo[v] /\ pc'[v] = pc[v]
  BY <1>0, <1>1, <1>7 DEF TypeInv, TypeOK
<1>4. SlotInv(w)'
  <2>1. \A f \in ThreadFields : thrStats'[Slot(w)][f] + Owed(<<>>, f) = hist'[w][f]
    BY <1>1, <1>2, <1>3
  <2>2. /\ FieldsOnce(todo'[w])
        /\ \A f \in ThreadFields : Owed(todo'[w], f) = Owed(<<>>, f)
    BY <1>3 DEF FieldsOnce, Owed
  <2>. QED BY <1>3, <2>1, <2>2 DEF SlotInv
<1>5. ASSUME NEW v \in Workers \ {w} PROVE SlotInv(v)'
  BY <1>1, <1>2, <1>3, SlotFrame DEF StatsInv
<1>. QED BY <1>4, <1>5

\* The loop head, the wait, the wake and the end of the trace move a
\* worker between points outside an iteration and touch no counter.
LEMMA ControlKeepsSlots ==
  ASSUME StatsInv, NEW w \in Workers,
         LoopContinue(w) \/ LoopExit(w) \/ Wake(w) \/ Exhausted(w)
  PROVE  \A v \in Workers : SlotInv(v)'
<1>0. TypeInv
  BY DEF StatsInv, FinishInv
<1>1. /\ UNCHANGED <<todo, tmp, thrStats, hist>>
      /\ pc[w] \in {"head", "wait", "fetch"}
      /\ \E c \in {"wait", "fetch", "done"} : pc' = [pc EXCEPT ![w] = c]
  BY DEF LoopContinue, LoopExit, Wake, Exhausted, envVars, ghostVars
<1>2. \A v \in Workers : (pc'[v] = "inc") <=> (pc[v] = "inc")
  BY <1>0, <1>1 DEF TypeInv, TypeOK
<1>. QED BY <1>1, <1>2, SlotFrame DEF StatsInv

\* Every step of the harness keeps StatsInv when start() is called once.
LEMMA NextStatsInv ==
  ASSUME Starts = 1
  PROVE  StatsInv /\ [Next]_vars => StatsInv'
<1> SUFFICES ASSUME StatsInv, [Next]_vars PROVE StatsInv'
  OBVIOUS
<1>0. /\ FinishInv' /\ TypeInv /\ TypeInv'
      /\ pc \in [Workers -> {"idle", "head", "wait", "fetch", "inc", "done"}]
  BY NextFinishInv, NextTypeInv DEF StatsInv, FinishInv, TypeInv, TypeOK
<1>1. CASE Start
  <2>4. starts < Starts
    BY <1>1 DEF Start
  <2>5. starts \in 0 .. Starts
    BY <1>0 DEF TypeInv, TypeOK
  <2>1. starts = 0
    BY <2>4, <2>5
  <2>2. \A v \in Workers : pc[v] = "idle"
    BY <2>1 DEF StatsInv, FinishInv
  <2>3. /\ UNCHANGED <<todo, tmp, thrStats, hist>>
        /\ \A v \in Workers : pc'[v] \in {"head", pc[v]}
    BY <1>1 DEF Start, envVars, ghostVars
  <2>. QED BY <1>0, <2>2, <2>3, SlotFrame DEF StatsInv
<1>2. CASE Finish \/ Destroy \/ Tick \/ UNCHANGED vars
  <2>1. UNCHANGED <<pc, todo, tmp, thrStats, hist>>
    BY <1>2 DEF Finish, Destroy, FinishBody, Tick, vars, workerVars, envVars, ghostVars
  <2>. QED BY <1>0, <2>1, SlotFrame DEF StatsInv
<1>3. ASSUME NEW w \in Workers, Worker(w) PROVE StatsInv'
  <2>1. CASE LoopContinue(w) \/ LoopExit(w) \/ Wake(w) \/ Exhausted(w)
    BY <1>0, <2>1, ControlKeepsSlots DEF StatsInv
  <2>2. CASE Fetch(w)
    BY <1>0, <2>2, FetchKeepsSlots DEF StatsInv
  <2>3. CASE StoreNext(w)
    BY <1>0, <2>3, StoreNextKeepsSlots DEF StatsInv
  <2>4. CASE StoreLast(w)
    BY <1>0, <2>4, StoreLastKeepsSlots DEF StatsInv
  <2>. QED BY <1>3, <2>1, <2>2, <2>3, <2>4 DEF Worker
<1>. QED BY <1>1, <1>2, <1>3 DEF Next, Main

\* Initially nothing is counted, owed or pending.
LEMMA InitStatsInv == Init => StatsInv
<1> SUFFICES ASSUME Init PROVE StatsInv
  OBVIOUS
<1>1. FinishInv
  BY InitFinishInv
<1>2. ASSUME NEW w \in Workers PROVE SlotInv(w)
  <2>1. /\ todo[w] = <<>> /\ pc[w] = "idle" /\ Slot(w) \in Tids
        /\ \A f \in ThreadFields : thrStats[Slot(w)][f] = 0 /\ hist[w][f] = 0
    BY DEF Init, ZeroThread, Slot, Workers
  <2>2. \A f \in ThreadFields : thrStats[Slot(w)][f] + Owed(todo[w], f) = hist[w][f]
    BY <2>1, OwedEmpty
  <2>3. FieldsOnce(todo[w])
    BY <2>1 DEF FieldsOnce
  <2>. QED BY <2>1, <2>2, <2>3 DEF SlotInv
<1>. QED BY <1>1, <1>2 DEF StatsInv

\* StatsMatchHistory (checked by run stats) for every number of threads,
\* quota, rate, key set and clock bound when the runner calls start() once:
\* however the workers' load/store increments interleave, a thrStats_ slot
\* that no worker is updating holds exactly the per-thread counts of spec
\* section 4.2.  With two calls of start() it is false (run
\* duplicate_start).
THEOREM StatsMatchHistoryHolds ==
  ASSUME Starts = 1
  PROVE  Spec => []StatsMatchHistory
<1>1. StatsInv => StatsMatchHistory
  <2> SUFFICES ASSUME StatsInv, NEW t \in Tids,
                      \A s \in 1 .. Starts : pc[<<s, t>>] # "inc",
                      NEW f \in ThreadFields
               PROVE  thrStats[t][f] = SlotHist(t, f)
    BY DEF StatsMatchHistory
  <2>1. <<1, t>> \in Workers /\ Slot(<<1, t>>) = t /\ pc[<<1, t>>] # "inc"
    BY DEF Workers, Slot
  <2>2. thrStats[t][f] + Owed(<<>>, f) = hist[<<1, t>>][f]
    BY <2>1 DEF StatsInv, SlotInv
  <2>3. TypeOK
    BY DEF StatsInv, FinishInv, TypeInv
  <2>4. thrStats[t][f] = hist[<<1, t>>][f]
    BY <2>2, <2>3, OwedEmpty DEF TypeOK
  <2>. QED BY <2>3, <2>4, SlotHistOne
<1>. QED BY <1>1, InitStatsInv, NextStatsInv, PTL DEF Spec

\* A store of ++counter never lowers a counter: the value stored is the
\* counter's current value, which StatsInv says the worker loaded, plus 0
\* or 1.
LEMMA StoreGrows ==
  ASSUME StatsInv, NEW w \in Workers, pc[w] = "inc",
         Write(w, Head(todo[w]), tmp[w] + Head(todo[w]).amt)
  PROVE  \A t \in Tids, f \in ThreadFields : thrStats'[t][f] >= thrStats[t][f]
<1>0. TypeInv /\ SlotInv(w)
  BY DEF StatsInv, FinishInv
<1>. DEFINE e == Head(todo[w])
<1>4. /\ Slot(w) \in Tids /\ todo[w] \in Seq(Incr) /\ todo[w] # <<>>
  BY <1>0, StatsTypes
<1>1. /\ Slot(w) \in Tids /\ e \in Incr
      /\ thrStats \in [Tids -> [ThreadFields -> Nat]]
  BY <1>0, <1>4, HeadTailProperties DEF TypeInv, TypeOK
<1>2. CASE e.obj = "cache"
  <2>1. thrStats' = thrStats
    BY <1>2 DEF Write
  <2>. QED BY <1>1, <2>1
<1>3. CASE e.obj = "thread"
  <2>3. tmp[w] = thrStats[Slot(w)][e.f]
    BY <1>0, <1>3 DEF SlotInv
  <2>4. e.f \in ThreadFields /\ e.amt \in {0, 1}
    BY <1>1, <1>3 DEF Incr
  <2>1. tmp[w] = thrStats[Slot(w)][e.f] /\ e.f \in ThreadFields /\ e.amt \in {0, 1}
    BY <2>3, <2>4
  <2>2. thrStats' = [thrStats EXCEPT ![Slot(w)][e.f] = tmp[w] + e.amt]
    BY <1>3 DEF Write
  <2>. QED BY <1>1, <2>1, <2>2
<1>. QED BY <1>1, <1>2, <1>3 DEF Incr

\* SlotsOnlyGrow (checked by run stats) for every number of threads, quota,
\* rate, key set and clock bound when start() is called once: no step ever
\* lowers a thrStats_ counter.  With two calls of start(), two workers share
\* a slot and a lost update lowers one (TLC finds it with two operations per
\* worker).
THEOREM SlotsOnlyGrowHolds ==
  ASSUME Starts = 1
  PROVE  Spec => SlotsOnlyGrow
<1>1. StatsInv /\ [Next]_vars
        => [\A t \in Tids, f \in ThreadFields : thrStats'[t][f] >= thrStats[t][f]]_thrStats
  <2> SUFFICES ASSUME StatsInv, [Next]_vars, thrStats' # thrStats
               PROVE  \A t \in Tids, f \in ThreadFields : thrStats'[t][f] >= thrStats[t][f]
    OBVIOUS
  <2>1. PICK w \in Workers : StoreNext(w) \/ StoreLast(w)
    BY DEF Next, Main, Start, Finish, Destroy, FinishBody, Tick, Worker,
          LoopContinue, LoopExit, Wake, Exhausted, Fetch, vars, envVars
  <2>2. pc[w] = "inc" /\ Write(w, Head(todo[w]), tmp[w] + Head(todo[w]).amt)
    BY <2>1 DEF StoreNext, StoreLast
  <2>. QED BY <2>2, StoreGrows
<1>. QED BY <1>1, InitStatsInv, NextStatsInv, PTL DEF Spec, SlotsOnlyGrow

=============================================================================
