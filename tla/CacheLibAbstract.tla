--------------------------- MODULE CacheLibAbstract ---------------------------
(***************************************************************************)
(* What the JNI binding of the YCSB CacheLib client promises its Java      *)
(* callers: every native call takes effect at one instant, against the one *)
(* process-wide cache or against no cache at all.  kv is the contents of   *)
(* the cache g_cache points to (NoCache while it is nullptr), res[t] the   *)
(* result of thread t's latest call.  CacheLib may evict any item at any   *)
(* time and may refuse an allocation, so a write may fail and a read may   *)
(* miss, but a read never returns a value the cache does not hold.        *)
(***************************************************************************)
EXTENDS Naturals

CONSTANTS Threads, Keys, Vals, Nil, NoCache

Store == [Keys -> Vals \cup {Nil}]
Results == {"none", "ok", "exception", "true", "false", "null"} \cup Vals

VARIABLES kv, res

avars == <<kv, res>>

AInit ==
  /\ kv = NoCache
  /\ res = [t \in Threads |-> "none"]

\* The cache is deleted (nativeCleanup, or the first half of nativeInit).
Drop ==
  /\ kv # NoCache
  /\ kv' = NoCache
  /\ UNCHANGED res

\* nativeInit builds a cache, empty or re-attached to persisted contents.
Create(t) ==
  /\ kv = NoCache
  /\ kv' \in Store
  /\ res' = [res EXCEPT ![t] = "ok"]

\* nativeInit's constructor throws: no cache, a Java exception.
InitFails(t) ==
  /\ kv = NoCache
  /\ res' = [res EXCEPT ![t] = "exception"]
  /\ UNCHANGED kv

\* nativeInsert / nativeUpdate: stored, or refused (allocation failed or no cache).
Write(t, k, v) ==
  \/ /\ kv # NoCache
     /\ kv' = [kv EXCEPT ![k] = v]
     /\ res' = [res EXCEPT ![t] = "true"]
  \/ /\ res' = [res EXCEPT ![t] = "false"]
     /\ UNCHANGED kv

\* nativeRead: the value held, or null for a miss and for no cache.
Read(t, k) ==
  /\ res' = [res EXCEPT ![t] =
               IF kv = NoCache \/ kv[k] = Nil THEN "null" ELSE kv[k]]
  /\ UNCHANGED kv

\* nativeDelete: true exactly when the key was present.
Remove(t, k) ==
  \/ /\ kv = NoCache
     /\ res' = [res EXCEPT ![t] = "false"]
     /\ UNCHANGED kv
  \/ /\ kv # NoCache
     /\ res' = [res EXCEPT ![t] = IF kv[k] # Nil THEN "true" ELSE "false"]
     /\ kv' = [kv EXCEPT ![k] = Nil]

\* CacheLib evicts an item.
AEvict(k) ==
  /\ kv # NoCache
  /\ kv[k] # Nil
  /\ kv' = [kv EXCEPT ![k] = Nil]
  /\ UNCHANGED res

ANext ==
  \/ Drop
  \/ \E t \in Threads :
       \/ Create(t) \/ InitFails(t)
       \/ \E k \in Keys : Read(t, k) \/ Remove(t, k) \/ \E v \in Vals : Write(t, k, v)
  \/ \E k \in Keys : AEvict(k)

ASpec == AInit /\ [][ANext]_avars
=============================================================================
