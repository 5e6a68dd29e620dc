---------------------------- MODULE AuthCacheProofs ----------------------------
(***************************************************************************)
(* Proofs about the authorization cache, for any tasks, keys, capacity,    *)
(* ttls and clock bound.                                                   *)
(***************************************************************************)
EXTENDS AuthCache, FiniteSetTheorems, SequenceTheorems, TLAPS

USE ConstantsAssumption

\* The capacity the LRU is built with is positive.
LEMMA CapPositive == Cap \in Nat /\ Cap >= 1
  BY DEF Cap, DefaultCapacity

LEMMA TtlType == \A k \in Keys : EffectiveTtl(k) \in Nat /\ EffectiveTtl(k) > 0
  BY DefaultTtlAssumption DEF EffectiveTtl

\* No real entry is mistaken for the absent one.
LEMMA NoEntryDistinct == NoEntry \notin AuthEntry
  <1>1. NoEntry.expires = -1
    BY DEF NoEntry
  <1>2. \A e \in AuthEntry : e.expires \in Nat
    BY DEF AuthEntry
  <1> QED BY <1>1, <1>2

--------------------------------------------------------------------------------
(* Type correctness                                                        *)

\* A task about to put an entry has one in hand.
InHand == \A t \in Tasks : pc[t] \in {"publish", "insert"} => local[t] \in AuthEntry

\* A task in the critical section of a key is at the head of its queue.
MutexHeld == \A t \in Tasks : pc[t] \in Critical => HoldsLock(t)

TypeInv == TypeOK /\ InHand /\ MutexHeld

LEMMA PutRankType ==
  ASSUME rank \in [Keys -> 0..Cap], NEW k \in Keys
  PROVE  PutRank(k) \in [Keys -> 0..Cap]
  BY CapPositive DEF PutRank, Present

LEMMA PopRankType ==
  ASSUME rank \in [Keys -> 0..Cap], NEW k \in Keys
  PROVE  PopRank(k) \in [Keys -> 0..Cap]
  BY CapPositive DEF PopRank, Present

LEMMA PutType ==
  ASSUME rank \in [Keys -> 0..Cap], entry \in [Keys -> AuthEntry \cup {NoEntry}],
         NEW k \in Keys, NEW e \in AuthEntry, Put(k, e)
  PROVE  rank' \in [Keys -> 0..Cap] /\ entry' \in [Keys -> AuthEntry \cup {NoEntry}]
  BY PutRankType DEF Put

LEMMA PopType ==
  ASSUME rank \in [Keys -> 0..Cap], entry \in [Keys -> AuthEntry \cup {NoEntry}],
         NEW k \in Keys, Pop(k)
  PROVE  rank' \in [Keys -> 0..Cap] /\ entry' \in [Keys -> AuthEntry \cup {NoEntry}]
  BY PopRankType DEF Pop

LEMMA UnlockType ==
  ASSUME queue \in [Keys -> Seq(Tasks)], key \in [Tasks -> Keys],
         NEW t \in Tasks, HoldsLock(t), Unlock(t)
  PROVE  queue' \in [Keys -> Seq(Tasks)]
  BY DEF HoldsLock, Unlock

\* Waiting for a mutex never takes it from its holder.
LEMMA EnqueueKeepsHolder ==
  ASSUME queue \in [Keys -> Seq(Tasks)], key \in [Tasks -> Keys],
         NEW t \in Tasks, NEW k \in Keys, NEW u \in Tasks, HoldsLock(u),
         queue' = [queue EXCEPT ![k] = Append(@, t)], key' = key
  PROVE  HoldsLock(u)'
  BY DEF HoldsLock

\* The holder of a mutex gives away no other key's.
LEMMA UnlockKeepsOthers ==
  ASSUME queue \in [Keys -> Seq(Tasks)], key \in [Tasks -> Keys],
         NEW t \in Tasks, HoldsLock(t), Unlock(t), key' = key,
         NEW u \in Tasks, u # t, HoldsLock(u)
  PROVE  HoldsLock(u)'
  BY DEF HoldsLock, Unlock

LEMMA TypeInit == Init => TypeInv
  <1> SUFFICES ASSUME Init PROVE TypeInv
    OBVIOUS
  <1>1. [k \in Keys |-> <<>>] \in [Keys -> Seq(Tasks)]
    OBVIOUS
  <1>2. TypeOK
    <2>1. now \in 0..MaxTime BY DEF Init
    <2>2. entry \in [Keys -> AuthEntry \cup {NoEntry}] BY DEF Init
    <2>3. rank \in [Keys -> 0..Cap] BY CapPositive DEF Init
    <2>4. queue \in [Keys -> Seq(Tasks)] BY <1>1 DEF Init
    <2>5. pc \in [Tasks -> PCs] BY DEF Init, PCs
    <2>6. local \in [Tasks -> AuthEntry \cup {NoEntry}] BY DEF Init
    <2>7. outcome \in [Tasks -> Outcomes] BY DEF Init, Outcomes
    <2>8. changed \in [Keys -> 0..MaxTime \cup {Never}] BY DEF Init
    <2> QED BY <2>1, <2>2, <2>3, <2>4, <2>5, <2>6, <2>7, <2>8 DEF Init, TypeOK
  <1>3. InHand /\ MutexHeld BY DEF Init, InHand, MutexHeld, Critical
  <1> QED BY <1>2, <1>3 DEF TypeInv

LEMMA TypeStep == TypeInv /\ [Next]_vars => TypeInv'
  <1> SUFFICES ASSUME TypeInv, [Next]_vars PROVE TypeInv'
    OBVIOUS
  <1> USE CapPositive, TtlType, NoEntryDistinct
      DEF TypeInv, TypeOK, Critical, PCs, Outcomes, cacheVars, envVars
  <1>1. ASSUME NEW t \in Tasks, NEW k \in Keys, Call(t, k) PROVE TypeInv'
    <2>1. TypeOK' BY <1>1 DEF Call, Goto
    <2>2. InHand' BY <1>1 DEF Call, Goto, InHand
    <2>3. MutexHeld' BY <1>1 DEF Call, Goto, MutexHeld, HoldsLock
    <2> QED BY <2>1, <2>2, <2>3
  <1>2. ASSUME NEW t \in Tasks, Peek(t) PROVE TypeInv'
    <2>1. TypeOK'
      <3>1. CASE poisoned BY <1>2, <3>1 DEF Peek, Goto, Return
      <3>2. CASE ~poisoned BY <1>2, <3>2 DEF Peek, Goto
      <3> QED BY <3>1, <3>2
    <2>2. InHand'
      <3>1. CASE poisoned BY <1>2, <3>1 DEF Peek, Goto, Return, InHand
      <3>2. CASE ~poisoned BY <1>2, <3>2 DEF Peek, Goto, InHand
      <3> QED BY <3>1, <3>2
    <2>3. MutexHeld' BY <1>2 DEF Peek, Goto, Return, MutexHeld, HoldsLock
    <2> QED BY <2>1, <2>2, <2>3
  <1>3. ASSUME NEW t \in Tasks, CheckFresh(t) PROVE TypeInv'
    <2>1. TypeOK' BY <1>3 DEF CheckFresh, Goto, Return, Verdict
    <2>2. InHand' BY <1>3 DEF CheckFresh, Goto, Return, InHand
    <2>3. MutexHeld' BY <1>3 DEF CheckFresh, Goto, Return, MutexHeld, HoldsLock
    <2> QED BY <2>1, <2>2, <2>3
  <1>4. ASSUME NEW t \in Tasks, LockKey(t) PROVE TypeInv'
    <2>1. TypeOK' BY <1>4 DEF LockKey, Goto
    <2>2. InHand' BY <1>4 DEF LockKey, Goto, InHand
    <2>3. MutexHeld' BY <1>4, EnqueueKeepsHolder DEF LockKey, Goto, MutexHeld
    <2> QED BY <2>1, <2>2, <2>3
  <1>5. ASSUME NEW t \in Tasks, PeekLocked(t) PROVE TypeInv'
    <2>1. TypeOK'
      <3>1. CASE poisoned
        <4>1. queue' \in [Keys -> Seq(Tasks)]
          BY <1>5, <3>1, UnlockType DEF PeekLocked
        <4>2. /\ pc' = [pc EXCEPT ![t] = "idle"]
              /\ outcome' = [outcome EXCEPT ![t] = "panic"]
              /\ local' = [local EXCEPT ![t] = NoEntry]
          BY <1>5, <3>1 DEF PeekLocked, Goto, Return
        <4> QED BY <1>5, <4>1, <4>2 DEF PeekLocked
      <3>2. CASE ~poisoned BY <1>5, <3>2 DEF PeekLocked, Goto
      <3> QED BY <3>1, <3>2
    <2>2. InHand'
      <3>1. CASE poisoned BY <1>5, <3>1 DEF PeekLocked, Goto, Return, InHand
      <3>2. CASE ~poisoned BY <1>5, <3>2 DEF PeekLocked, Goto, InHand
      <3> QED BY <3>1, <3>2
    <2>3. MutexHeld'
      <3>1. CASE poisoned
        <4>1. HoldsLock(t) /\ Unlock(t) /\ key' = key
          BY <1>5, <3>1 DEF PeekLocked
        <4>2. pc' = [pc EXCEPT ![t] = "idle"]
          BY <1>5, <3>1 DEF PeekLocked, Goto, Return
        <4> QED BY <4>1, <4>2, UnlockKeepsOthers DEF MutexHeld
      <3>2. CASE ~poisoned
        BY <1>5, <3>2 DEF PeekLocked, Goto, MutexHeld, HoldsLock
      <3> QED BY <3>1, <3>2
    <2> QED BY <2>1, <2>2, <2>3
  <1>6. ASSUME NEW t \in Tasks, Recheck(t) PROVE TypeInv'
    <2>0. HoldsLock(t) BY <1>6 DEF Recheck, MutexHeld
    <2>1. TypeOK' BY <1>6, <2>0, UnlockType DEF Recheck, Goto, Return, Verdict
    <2>2. InHand' BY <1>6 DEF Recheck, Goto, Return, InHand
    <2>3. MutexHeld'
      <3>1. CASE Live(local[t])
        BY <1>6, <2>0, <3>1, UnlockKeepsOthers DEF Recheck, Goto, Return, MutexHeld
      <3>2. CASE ~Live(local[t])
        BY <1>6, <3>2 DEF Recheck, Goto, MutexHeld, HoldsLock
      <3> QED BY <3>1, <3>2
    <2> QED BY <2>1, <2>2, <2>3
  <1>7. ASSUME NEW t \in Tasks, Answer(t) PROVE TypeInv'
    <2>1. Decision(key[t], 0, TRUE) \in AuthEntry
      BY DEF Decision, AuthEntry
    <2>2. TypeOK' BY <1>7, <2>1 DEF Answer, Goto
    <2>3. InHand' BY <1>7, <2>1 DEF Answer, Goto, InHand
    <2>4. MutexHeld' BY <1>7 DEF Answer, Goto, MutexHeld, HoldsLock
    <2> QED BY <2>2, <2>3, <2>4
  <1>8. ASSUME NEW t \in Tasks, Fail(t) PROVE TypeInv'
    <2>0. HoldsLock(t) BY <1>8 DEF Fail, MutexHeld
    <2>1. TypeOK' BY <1>8, <2>0, UnlockType DEF Fail, Goto, Return
    <2>2. InHand' BY <1>8 DEF Fail, Goto, Return, InHand
    <2>3. MutexHeld'
      BY <1>8, <2>0, UnlockKeepsOthers DEF Fail, Goto, Return, MutexHeld
    <2> QED BY <2>1, <2>2, <2>3
  <1>9. ASSUME NEW t \in Tasks, Publish(t) PROVE TypeInv'
    <2>0. HoldsLock(t) BY <1>9 DEF Publish, MutexHeld
    <2>1. Stamped(local[t], key[t]) \in AuthEntry
      BY <1>9 DEF Publish, InHand, AuthEntry, Stamped
    <2>2. /\ rank' \in [Keys -> 0..Cap]
          /\ entry' \in [Keys -> AuthEntry \cup {NoEntry}]
      BY <1>9, <2>1, PutType DEF Publish
    <2>3. TypeOK' BY <1>9, <2>0, <2>2, UnlockType DEF Publish, Goto, Return, Verdict
    <2>4. InHand' BY <1>9 DEF Publish, Goto, Return, InHand
    <2>5. MutexHeld'
      BY <1>9, <2>0, UnlockKeepsOthers DEF Publish, Goto, Return, MutexHeld
    <2> QED BY <2>3, <2>4, <2>5
  <1>10. ASSUME NEW t \in ApiTasks, NEW k \in Keys, Insert(t, k) PROVE TypeInv'
    <2>0. t \in Tasks OBVIOUS
    <2>1. Decision(k, now + EffectiveTtl(k), FALSE) \in AuthEntry
      BY DEF Decision, AuthEntry
    <2>2. CASE now + EffectiveTtl(k) > InstantMax
      <3>1. TypeOK' BY <1>10, <2>0, <2>2 DEF Insert, Goto, Return
      <3>2. InHand' BY <1>10, <2>0, <2>2 DEF Insert, Goto, Return, InHand
      <3>3. MutexHeld'
        BY <1>10, <2>0, <2>2 DEF Insert, Goto, Return, MutexHeld, HoldsLock
      <3> QED BY <3>1, <3>2, <3>3
    <2>3. CASE ~(now + EffectiveTtl(k) > InstantMax)
      <3>1. TypeOK' BY <1>10, <2>0, <2>1, <2>3 DEF Insert, Goto
      <3>2. InHand' BY <1>10, <2>0, <2>1, <2>3 DEF Insert, Goto, InHand
      <3>3. MutexHeld' BY <1>10, <2>0, <2>3 DEF Insert, Goto, MutexHeld, HoldsLock
      <3> QED BY <3>1, <3>2, <3>3
    <2> QED BY <2>2, <2>3
  <1>11. ASSUME NEW t \in Tasks, InsertPut(t) PROVE TypeInv'
    <2>1. /\ rank' \in [Keys -> 0..Cap]
          /\ entry' \in [Keys -> AuthEntry \cup {NoEntry}]
      BY <1>11, PutType DEF InsertPut, InHand
    <2>2. TypeOK' BY <1>11, <2>1 DEF InsertPut, Goto, Return
    <2>3. InHand' BY <1>11 DEF InsertPut, Goto, Return, InHand
    <2>4. MutexHeld' BY <1>11 DEF InsertPut, Goto, Return, MutexHeld, HoldsLock
    <2> QED BY <2>2, <2>3, <2>4
  <1>12. ASSUME NEW t \in ApiTasks, NEW k \in Keys, Invalidate(t, k) PROVE TypeInv'
    <2>0. t \in Tasks OBVIOUS
    <2>1. /\ rank' \in [Keys -> 0..Cap]
          /\ entry' \in [Keys -> AuthEntry \cup {NoEntry}]
      BY <1>12, PopType DEF Invalidate
    <2>2. /\ pc' = [pc EXCEPT ![t] = "idle"]
          /\ outcome' \in [Tasks -> Outcomes]
          /\ local' = [local EXCEPT ![t] = NoEntry]
      BY <1>12, <2>0 DEF Invalidate, Goto, Return
    <2>3. TypeOK' BY <1>12, <2>0, <2>1, <2>2 DEF Invalidate
    <2>4. InHand' BY <2>0, <2>2 DEF InHand
    <2>5. MutexHeld' BY <1>12, <2>0, <2>2 DEF Invalidate, MutexHeld, HoldsLock
    <2> QED BY <2>3, <2>4, <2>5
  <1>13. ASSUME NEW k \in Volatile, ChangePolicy(k) PROVE TypeInv'
    <2>0. k \in Keys OBVIOUS
    <2>1. TypeOK' BY <1>13, <2>0 DEF ChangePolicy
    <2>2. InHand' BY <1>13 DEF ChangePolicy, InHand
    <2>3. MutexHeld' BY <1>13 DEF ChangePolicy, MutexHeld, HoldsLock
    <2> QED BY <2>1, <2>2, <2>3
  <1>14. CASE Tick
    <2>1. TypeOK' BY <1>14 DEF Tick
    <2>2. InHand' BY <1>14 DEF Tick, InHand
    <2>3. MutexHeld' BY <1>14 DEF Tick, MutexHeld, HoldsLock
    <2> QED BY <2>1, <2>2, <2>3
  <1>15. CASE UNCHANGED vars
    BY <1>15 DEF vars, InHand, MutexHeld, HoldsLock
  <1> QED
    BY <1>1, <1>2, <1>3, <1>4, <1>5, <1>6, <1>7, <1>8, <1>9, <1>10, <1>11,
       <1>12, <1>13, <1>14, <1>15 DEF Next, Step

\* Every variable keeps its type, and no lookup or record access is made on
\* an absent entry (validator.rs:63-135).
THEOREM TypeCorrect == Spec => []TypeOK
  <1>1. TypeInv => TypeOK BY DEF TypeInv
  <1> QED BY <1>1, TypeInit, TypeStep, PTL DEF Spec

LEMMA TypeInvariant == Spec => []TypeInv
  BY TypeInit, TypeStep, PTL DEF Spec

--------------------------------------------------------------------------------
(* Single flight                                                           *)

\* For any number of tasks, two of them are never between taking the mutex of
\* one key and returning: the validator is never called twice at a time for a
\* key (validator.rs:86-118).
THEOREM SingleFlightHolds == Spec => []SingleFlight
  <1>1. TypeInv => SingleFlight
    BY DEF TypeInv, MutexHeld, HoldsLock, SingleFlight
  <1> QED BY <1>1, TypeInvariant, PTL

--------------------------------------------------------------------------------
(* The capacity of the cache                                               *)

\* Ranks of distinct present keys differ, and exactly the ranked keys have an
\* entry: the LRU list and the map agree.
RankInv ==
    /\ \A j, k \in Keys : rank[j] = rank[k] /\ rank[j] # 0 => j = k
    /\ \A k \in Keys : rank[k] = 0 <=> entry[k] = NoEntry

LEMMA PutKeepsRankInv ==
  ASSUME TypeInv, RankInv, NEW k \in Keys, NEW e \in AuthEntry, Put(k, e)
  PROVE  RankInv'
  <1> USE CapPositive, NoEntryDistinct DEF TypeInv, TypeOK
  <1>1. ASSUME NEW i \in Keys, NEW j \in Keys, rank'[i] = rank'[j], rank'[i] # 0
        PROVE  i = j
    <2> DEFINE moved(n) == IF rank[n] # 0 /\ (~Present(k) \/ rank[n] < rank[k])
                             THEN rank[n] + 1 ELSE rank[n]
               new(n) == IF n = k THEN 1 ELSE IF moved(n) > Cap THEN 0 ELSE moved(n)
    <2>0. rank[i] \in Nat /\ rank[j] \in Nat /\ rank[k] \in Nat
      OBVIOUS
    <2>1. rank' = [n \in Keys |-> new(n)]
      BY DEF Put, PutRank
    <2>2. new(i) = new(j) /\ new(i) # 0
      BY <1>1, <2>1
    <2>3. ASSUME NEW n \in Keys, n # k, new(n) # 0
          PROVE  new(n) >= 2 /\ rank[n] # 0 /\ new(n) = moved(n)
      <3>1. rank[n] \in Nat /\ rank[k] \in Nat
        OBVIOUS
      <3>2. new(n) = moved(n) /\ rank[n] # 0
        BY <2>3
      <3>3. Present(k) => rank[n] # rank[k]
        BY <2>3, <3>2 DEF RankInv
      <3>4. moved(n) >= 2
        <4> HIDE ConstantsAssumption DEF TypeInv, TypeOK
        <4>1. CASE ~Present(k) BY <3>1, <3>2, <4>1
        <4>2. CASE Present(k) /\ rank[n] < rank[k] BY <3>1, <3>2, <4>2
        <4>3. CASE Present(k) /\ rank[n] > rank[k]
          BY <3>1, <4>3 DEF Present
        <4> QED BY <3>1, <3>3, <4>1, <4>2, <4>3
      <3> QED BY <3>2, <3>4
    <2>4. CASE i = k \/ j = k
      BY <2>2, <2>3, <2>4
    <2>5. CASE i # k /\ j # k
      <3>1. moved(i) = moved(j) /\ rank[i] # 0 /\ rank[j] # 0
        BY <2>2, <2>3, <2>5
      <3>2. Present(k) => rank[i] # rank[k] /\ rank[j] # rank[k]
        BY <2>5, <3>1 DEF RankInv
      <3>3. rank[i] = rank[j]
        <4> HIDE ConstantsAssumption
        <4>1. CASE ~Present(k) BY <2>0, <3>1, <4>1
        <4>2. CASE Present(k) /\ rank[i] < rank[k]
          BY <2>0, <3>1, <3>2, <4>2
        <4>3. CASE Present(k) /\ ~(rank[i] < rank[k])
          BY <2>0, <3>1, <3>2, <4>3
        <4> QED BY <4>1, <4>2, <4>3
      <3> QED BY <3>1, <3>3 DEF RankInv
    <2> QED BY <2>4, <2>5
  <1>2. ASSUME NEW j \in Keys
        PROVE  rank'[j] = 0 <=> entry'[j] = NoEntry
    <2>1. CASE j = k
      BY <2>1 DEF Put, PutRank
    <2>2. CASE j # k /\ rank[j] = 0
      BY <2>2 DEF Put, PutRank, RankInv
    <2>3. CASE j # k /\ rank[j] # 0
      BY <2>3 DEF Put, RankInv
    <2> QED BY <2>1, <2>2, <2>3 DEF RankInv
  <1> QED BY <1>1, <1>2 DEF RankInv

LEMMA PopKeepsRankInv ==
  ASSUME TypeInv, RankInv, NEW k \in Keys, Pop(k)
  PROVE  RankInv'
  <1> USE DEF TypeInv, TypeOK
  <1>1. ASSUME NEW i \in Keys, NEW j \in Keys, rank'[i] = rank'[j], rank'[i] # 0
        PROVE  i = j
    BY <1>1 DEF Pop, PopRank, Present, RankInv
  <1>2. ASSUME NEW j \in Keys
        PROVE  rank'[j] = 0 <=> entry'[j] = NoEntry
    BY DEF Pop, PopRank, Present, RankInv
  <1> QED BY <1>1, <1>2 DEF RankInv

LEMMA RankInit == Init => RankInv
  BY DEF Init, RankInv

\* How a step may change the cache: not at all, by a put or by a pop.
LEMMA CacheStep ==
  ASSUME TypeInv, [Next]_vars
  PROVE  \/ UNCHANGED cacheVars
         \/ \E t \in Tasks : /\ pc[t] = "publish" /\ pc'[t] = "idle"
                             /\ Put(key[t], Stamped(local[t], key[t]))
         \/ \E t \in Tasks : pc[t] = "insert" /\ Put(key[t], local[t])
         \/ \E k \in Keys : Pop(k)
  <1> USE DEF TypeInv, TypeOK
  <1>1. ASSUME NEW t \in Tasks, Publish(t)
        PROVE  \/ UNCHANGED cacheVars
               \/ /\ pc[t] = "publish" /\ pc'[t] = "idle"
                  /\ Put(key[t], Stamped(local[t], key[t]))
    BY <1>1 DEF Publish, Return, Goto
  <1>2. ASSUME NEW t \in Tasks, InsertPut(t)
        PROVE  UNCHANGED cacheVars \/ (pc[t] = "insert" /\ Put(key[t], local[t]))
    BY <1>2 DEF InsertPut
  <1>3. ASSUME NEW t \in ApiTasks, NEW k \in Keys, Invalidate(t, k)
        PROVE  UNCHANGED cacheVars \/ Pop(k)
    BY <1>3 DEF Invalidate
  <1>4. ASSUME NEW t \in Tasks,
               \/ Peek(t) \/ CheckFresh(t) \/ LockKey(t) \/ PeekLocked(t)
               \/ Recheck(t) \/ Answer(t) \/ Fail(t)
        PROVE  UNCHANGED cacheVars
    BY <1>4 DEF Peek, CheckFresh, LockKey, PeekLocked, Recheck, Answer, Fail
  <1>5. ASSUME NEW t \in Tasks, NEW k \in Keys, Call(t, k) \/ Insert(t, k)
        PROVE  UNCHANGED cacheVars
    BY <1>5 DEF Call, Insert
  <1>6. ASSUME Tick \/ (\E k \in Volatile : ChangePolicy(k)) \/ UNCHANGED vars
        PROVE  UNCHANGED cacheVars
    BY <1>6 DEF Tick, ChangePolicy, vars, cacheVars
  <1> QED BY <1>1, <1>2, <1>3, <1>4, <1>5, <1>6 DEF Next, Step

LEMMA RankStep == TypeInv /\ RankInv /\ [Next]_vars => RankInv'
  <1> SUFFICES ASSUME TypeInv, RankInv, [Next]_vars PROVE RankInv'
    OBVIOUS
  <1>1. CASE UNCHANGED cacheVars
    BY <1>1 DEF RankInv, cacheVars
  <1>2. ASSUME NEW t \in Tasks, pc[t] = "publish",
               Put(key[t], Stamped(local[t], key[t]))
        PROVE  RankInv'
    <2>1. key[t] \in Keys /\ local[t] \in AuthEntry
      BY <1>2 DEF TypeInv, TypeOK, InHand
    <2>2. Stamped(local[t], key[t]) \in AuthEntry
      BY <2>1, TtlType DEF TypeInv, TypeOK, Stamped, AuthEntry
    <2> QED BY <1>2, <2>1, <2>2, PutKeepsRankInv
  <1>3. ASSUME NEW t \in Tasks, pc[t] = "insert", Put(key[t], local[t])
        PROVE  RankInv'
    <2>1. key[t] \in Keys /\ local[t] \in AuthEntry
      BY <1>3 DEF TypeInv, TypeOK, InHand
    <2> QED BY <1>3, <2>1, PutKeepsRankInv
  <1>4. ASSUME NEW k \in Keys, Pop(k) PROVE RankInv'
    BY <1>4, PopKeepsRankInv
  <1> QED BY <1>1, <1>2, <1>3, <1>4, CacheStep

LEMMA RankInvariant == Spec => []RankInv
  BY RankInit, RankStep, TypeInvariant, PTL DEF Spec

\* Distinct ranks in 1..Cap leave room for at most Cap entries.
LEMMA RankBoundsEntries == TypeInv /\ RankInv => CapacityBound
  <1> SUFFICES ASSUME TypeInv, RankInv PROVE CapacityBound
    OBVIOUS
  <1> DEFINE place == [k \in Held |-> rank[k]]
  <1>1. place \in [Held -> 1..Cap]
    BY CapPositive DEF TypeInv, TypeOK, RankInv, Held
  <1>2. \A j, k \in Held : place[j] = place[k] => j = k
    BY DEF RankInv, Held
  <1>3. place \in Injection(Held, 1..Cap)
    BY <1>1, <1>2 DEF Injection, IsInjective
  <1>4. IsFiniteSet(1..Cap) /\ Cardinality(1..Cap) = Cap
    BY CapPositive, FS_Interval
  <1>5. Cardinality(Held) <= Cardinality(1..Cap)
    BY <1>3, <1>4, FS_Injection
  <1> QED BY <1>4, <1>5 DEF CapacityBound, Cap

\* However many keys the clients use, the cache holds no more decisions than
\* its capacity (validator.rs:54-61, 107-134).
THEOREM CapacityBoundHolds == Spec => []CapacityBound
  BY RankBoundsEntries, RankInvariant, TypeInvariant, PTL

--------------------------------------------------------------------------------
(* Where the entry in a task's hand comes from                             *)

\* An idle task, and one that has not peeked yet, has nothing in hand; an
\* entry on its way from insert is not marked as validated.
HandInv ==
    \A t \in Tasks :
        /\ pc[t] \in {"idle", "peek"} => local[t] = NoEntry
        /\ pc[t] = "insert" => ~local[t].validated

\* What was read under the mutex is still there, unless it was evicted, or
\* replaced by insert: no other validation can have published meanwhile.
RecheckInv ==
    \A t \in Tasks : pc[t] = "recheck" =>
        LET e == entry[key[t]] IN
        e = local[t] \/ e = NoEntry \/ ~e.validated

LEMMA HandStep == TypeInv /\ HandInv /\ [Next]_vars => HandInv'
  <1> SUFFICES ASSUME TypeInv, HandInv, [Next]_vars PROVE HandInv'
    OBVIOUS
  <1> USE DEF TypeInv, TypeOK, HandInv, Goto, Return, PCs
  <1>1. ASSUME NEW t \in Tasks, Step(t) PROVE HandInv'
    <2> HIDE ConstantsAssumption
    <2>1. CASE Peek(t) \/ CheckFresh(t) \/ LockKey(t)
      BY <2>1 DEF Peek, CheckFresh, LockKey
    <2>2. CASE PeekLocked(t)
      <3>1. CASE poisoned BY <2>2, <3>1 DEF PeekLocked
      <3>2. CASE ~poisoned BY <2>2, <3>2 DEF PeekLocked
      <3> QED BY <3>1, <3>2
    <2>3. CASE Recheck(t) BY <2>3 DEF Recheck
    <2>4. CASE Answer(t) BY <2>4 DEF Answer
    <2>5. CASE Fail(t) \/ Publish(t) BY <2>5 DEF Fail, Publish
    <2>6. CASE InsertPut(t) BY <2>6 DEF InsertPut
    <2> QED BY <1>1, <2>1, <2>2, <2>3, <2>4, <2>5, <2>6 DEF Step
  <1>2. ASSUME NEW t \in Tasks, NEW k \in Keys, Call(t, k) PROVE HandInv'
    BY <1>2 DEF Call
  <1>3. ASSUME NEW t \in ApiTasks, NEW k \in Keys, Insert(t, k) PROVE HandInv'
    <2>1. t \in Tasks /\ ~Decision(k, now + EffectiveTtl(k), FALSE).validated
      BY DEF Decision
    <2> QED BY <1>3, <2>1 DEF Insert
  <1>4. ASSUME NEW t \in ApiTasks, NEW k \in Keys, Invalidate(t, k) PROVE HandInv'
    BY <1>4 DEF Invalidate
  <1>5. CASE Tick \/ (\E k \in Volatile : ChangePolicy(k)) \/ UNCHANGED vars
    BY <1>5 DEF Tick, ChangePolicy, vars
  <1> QED BY <1>1, <1>2, <1>3, <1>4, <1>5 DEF Next

\* A step of one task leaves the key and the entry in hand of the others.
LEMMA OthersUnmoved ==
  ASSUME TypeInv, [Next]_vars, NEW t \in Tasks, pc'[t] = "recheck"
  PROVE  \/ pc[t] = "wait" /\ local'[t] = entry[key[t]] /\ UNCHANGED <<entry, key>>
         \/ pc[t] = "recheck" /\ local'[t] = local[t] /\ key'[t] = key[t]
  <1> USE DEF TypeInv, TypeOK, Goto, Return, PCs, cacheVars
  <1>1. ASSUME NEW u \in Tasks, PeekLocked(u)
        PROVE  \/ pc[t] = "wait" /\ local'[t] = entry[key[t]] /\ UNCHANGED <<entry, key>>
               \/ pc[t] = "recheck" /\ local'[t] = local[t] /\ key'[t] = key[t]
    BY <1>1 DEF PeekLocked
  <1>2. ASSUME NEW u \in Tasks,
               \/ Peek(u) \/ CheckFresh(u) \/ LockKey(u) \/ Recheck(u)
               \/ Answer(u) \/ Fail(u) \/ Publish(u) \/ InsertPut(u)
        PROVE  pc[t] = "recheck" /\ local'[t] = local[t] /\ key'[t] = key[t]
    <2> HIDE ConstantsAssumption
    <2>1. CASE Peek(u) \/ CheckFresh(u) \/ LockKey(u) \/ Recheck(u)
      BY <2>1 DEF Peek, CheckFresh, LockKey, Recheck
    <2>2. CASE Answer(u) \/ Fail(u) \/ Publish(u) \/ InsertPut(u)
      BY <2>2 DEF Answer, Fail, Publish, InsertPut
    <2> QED BY <1>2, <2>1, <2>2
  <1>3. ASSUME NEW u \in Tasks, NEW k \in Keys,
               Call(u, k) \/ Insert(u, k) \/ Invalidate(u, k)
        PROVE  pc[t] = "recheck" /\ local'[t] = local[t] /\ key'[t] = key[t]
    <2> HIDE ConstantsAssumption
    <2>1. CASE Call(u, k) BY <2>1 DEF Call
    <2>2. CASE Insert(u, k) BY <2>2 DEF Insert
    <2>3. CASE Invalidate(u, k) BY <2>3 DEF Invalidate
    <2> QED BY <1>3, <2>1, <2>2, <2>3
  <1>4. ASSUME Tick \/ (\E k \in Volatile : ChangePolicy(k)) \/ UNCHANGED vars
        PROVE  pc[t] = "recheck" /\ local'[t] = local[t] /\ key'[t] = key[t]
    BY <1>4 DEF Tick, ChangePolicy, vars
  <1> QED BY <1>1, <1>2, <1>3, <1>4 DEF Next, Step

LEMMA RecheckStep == TypeInv /\ HandInv /\ RecheckInv /\ [Next]_vars => RecheckInv'
  <1> SUFFICES ASSUME TypeInv, HandInv, RecheckInv, [Next]_vars,
                      NEW t \in Tasks, pc'[t] = "recheck"
               PROVE  \/ entry'[key'[t]] = local'[t]
                      \/ entry'[key'[t]] = NoEntry
                      \/ ~entry'[key'[t]].validated
    BY DEF RecheckInv
  <1> USE DEF TypeInv, TypeOK
  <1>1. CASE pc[t] = "wait" /\ local'[t] = entry[key[t]] /\ UNCHANGED <<entry, key>>
    BY <1>1
  <1>2. CASE pc[t] = "recheck" /\ local'[t] = local[t] /\ key'[t] = key[t]
    <2>1. \/ entry[key[t]] = local[t]
          \/ entry[key[t]] = NoEntry
          \/ ~entry[key[t]].validated
      BY <1>2 DEF RecheckInv
    <2>2. CASE UNCHANGED cacheVars
      BY <1>2, <2>1, <2>2 DEF cacheVars
    <2>3. ASSUME NEW u \in Tasks, pc[u] = "publish", pc'[u] = "idle",
                 Put(key[u], Stamped(local[u], key[u]))
          PROVE  entry'[key[t]] \in {entry[key[t]], NoEntry}
      <3>1. key[u] # key[t]
        BY <1>2, <2>3 DEF MutexHeld, Critical, HoldsLock
      <3> QED BY <2>3, <3>1 DEF Put
    <2>4. ASSUME NEW u \in Tasks, pc[u] = "insert", Put(key[u], local[u])
          PROVE  \/ entry'[key[t]] \in {entry[key[t]], NoEntry}
                 \/ ~entry'[key[t]].validated
      BY <2>4 DEF Put, HandInv
    <2>5. ASSUME NEW k \in Keys, Pop(k)
          PROVE  entry'[key[t]] \in {entry[key[t]], NoEntry}
      BY <2>5 DEF Pop
    <2> QED BY <1>2, <2>1, <2>2, <2>3, <2>4, <2>5, CacheStep
  <1> QED BY <1>1, <1>2, OthersUnmoved

LEMMA HandInvariant == Spec => [](HandInv /\ RecheckInv)
  <1>1. Init => HandInv /\ RecheckInv
    BY DEF Init, HandInv, RecheckInv
  <1> QED BY <1>1, HandStep, RecheckStep, TypeInvariant, PTL DEF Spec

\* Only Recheck takes a task from "recheck" to "validate", and only on a miss.
LEMMA ValidationStarts ==
  ASSUME TypeInv, Next, NEW t \in Tasks, StartsValidation(t)
  PROVE  ~Live(local[t]) /\ UNCHANGED <<now, entry, key>>
  <1> USE DEF TypeInv, TypeOK, Goto, Return, PCs, StartsValidation, cacheVars, envVars
  <1>1. ASSUME NEW u \in Tasks, Recheck(u)
        PROVE  ~Live(local[t]) /\ UNCHANGED <<now, entry, key>>
    BY <1>1 DEF Recheck
  <1>2. ASSUME NEW u \in Tasks,
               \/ Peek(u) \/ CheckFresh(u) \/ LockKey(u) \/ PeekLocked(u)
               \/ Answer(u) \/ Fail(u) \/ Publish(u) \/ InsertPut(u)
        PROVE  FALSE
    BY <1>2 DEF Peek, CheckFresh, LockKey, PeekLocked, Answer, Fail, Publish, InsertPut
  <1>3. ASSUME NEW u \in Tasks, NEW k \in Keys,
               Call(u, k) \/ Insert(u, k) \/ Invalidate(u, k)
        PROVE  FALSE
    BY <1>3 DEF Call, Insert, Invalidate
  <1>4. ASSUME Tick \/ (\E k \in Volatile : ChangePolicy(k)) PROVE FALSE
    BY <1>4 DEF Tick, ChangePolicy
  <1> QED BY <1>1, <1>2, <1>3, <1>4 DEF Next, Step

\* Whatever the interleaving, no validation of a key begins while a decision
\* that an earlier validation published is cached and unexpired: the callback
\* runs once per key and ttl window unless the entry is evicted
\* (validator.rs:28-30, 95-105).
THEOREM OncePerTtlHolds == Spec => OncePerTtl
  <1>1. TypeInv /\ RecheckInv /\ [Next]_vars =>
          [\A t \in Tasks : StartsValidation(t) =>
             ~(Live(entry[key[t]]) /\ entry[key[t]].validated)]_vars
    <2> SUFFICES ASSUME TypeInv, RecheckInv, Next, NEW t \in Tasks,
                        StartsValidation(t), Live(entry[key[t]]),
                        entry[key[t]].validated
                 PROVE  FALSE
      OBVIOUS
    <2>1. entry[key[t]] = local[t]
      BY DEF RecheckInv, StartsValidation, Live
    <2> QED BY <2>1, ValidationStarts
  <1> QED BY <1>1, HandInvariant, TypeInvariant, PTL DEF Spec, OncePerTtl

--------------------------------------------------------------------------------
(* Bounded staleness                                                       *)

\* An entry of k agrees with the policy as it was when the decision was
\* taken, and expires a ttl and a publication lag later at the latest.
Sound(k, e) ==
    /\ e.decided <= now
    /\ e.decided <= LastHeld(k, e.authorized)
    /\ e.expires <= e.decided + AnswerLag + EffectiveTtl(k)

StaleInv ==
    /\ \A k \in Keys : entry[k] # NoEntry => Sound(k, entry[k])
    /\ \A t \in Tasks : local[t] # NoEntry => Sound(key[t], local[t])
    /\ \A t \in Tasks : pc[t] = "publish" => now <= local[t].decided + AnswerLag

\* Neither the clock nor a change of policy makes a sound entry unsound.
LEMMA SoundKept ==
  ASSUME TypeInv, NEW k \in Keys, NEW e \in AuthEntry, Sound(k, e),
         Tick \/ (\E j \in Volatile : ChangePolicy(j)) \/ UNCHANGED envVars
  PROVE  Sound(k, e)'
  <1> USE DEF TypeInv, TypeOK, AuthEntry, Sound, LastHeld, Never
  <1>1. CASE Tick
    BY <1>1 DEF Tick
  <1>2. ASSUME NEW j \in Volatile, ChangePolicy(j) PROVE Sound(k, e)'
    BY <1>2 DEF ChangePolicy
  <1>3. CASE UNCHANGED envVars
    BY <1>3 DEF envVars
  <1> QED BY <1>1, <1>2, <1>3

\* A fresh decision, and one stamped within the lag, are sound.
LEMMA DecisionSound ==
  ASSUME TypeInv, NEW k \in Keys, NEW b \in BOOLEAN,
         NEW x \in Nat, x <= now + EffectiveTtl(k)
  PROVE  Sound(k, Decision(k, x, b))
  BY TtlType DEF TypeInv, TypeOK, Sound, Decision, LastHeld

LEMMA StampedSound ==
  ASSUME TypeInv, NEW k \in Keys, NEW e \in AuthEntry, Sound(k, e),
         now <= e.decided + AnswerLag
  PROVE  Stamped(e, k) \in AuthEntry /\ Sound(k, Stamped(e, k))
  BY TtlType DEF TypeInv, TypeOK, Sound, Stamped, LastHeld, AuthEntry

\* The part of StaleInv about the cache.
LEMMA StaleEntries ==
  ASSUME TypeInv, StaleInv, [Next]_vars, NEW k \in Keys, entry'[k] # NoEntry
  PROVE  Sound(k, entry'[k])
  <1> USE NoEntryDistinct DEF TypeInv, TypeOK
  <1>1. CASE UNCHANGED cacheVars
    BY <1>1 DEF StaleInv, cacheVars
  <1>2. ASSUME NEW t \in Tasks, pc[t] = "publish",
               Put(key[t], Stamped(local[t], key[t]))
        PROVE  Sound(k, entry'[k])
    <2>1. Sound(key[t], Stamped(local[t], key[t]))
      BY <1>2, StampedSound DEF StaleInv, InHand
    <2> QED BY <1>2, <2>1 DEF Put, StaleInv
  <1>3. ASSUME NEW t \in Tasks, pc[t] = "insert", Put(key[t], local[t])
        PROVE  Sound(k, entry'[k])
    BY <1>3 DEF Put, StaleInv, InHand
  <1>4. ASSUME NEW j \in Keys, Pop(j) PROVE Sound(k, entry'[k])
    BY <1>4 DEF Pop, StaleInv
  <1> QED BY <1>1, <1>2, <1>3, <1>4, CacheStep

\* The part about what tasks have in hand.
LEMMA StaleHands ==
  ASSUME TypeInv, HandInv, StaleInv, [Next]_vars, NEW t \in Tasks, local'[t] # NoEntry
  PROVE  Sound(key'[t], local'[t])
  <1> USE NoEntryDistinct, TtlType DEF TypeInv, TypeOK, StaleInv
  <1>1. ASSUME NEW u \in Tasks, Peek(u) \/ PeekLocked(u)
        PROVE  Sound(key'[t], local'[t])
    <2> HIDE ConstantsAssumption
    <2>1. CASE Peek(u) BY <2>1 DEF Peek, Return
    <2>2. CASE PeekLocked(u) BY <2>2 DEF PeekLocked, Return
    <2> QED BY <1>1, <2>1, <2>2
  <1>2. ASSUME NEW u \in Tasks,
               \/ CheckFresh(u) \/ LockKey(u) \/ Recheck(u)
               \/ Fail(u) \/ Publish(u) \/ InsertPut(u)
        PROVE  Sound(key'[t], local'[t])
    <2> HIDE ConstantsAssumption
    <2>1. CASE CheckFresh(u) \/ LockKey(u) \/ Recheck(u)
      BY <2>1 DEF CheckFresh, LockKey, Recheck, Return
    <2>2. CASE Fail(u) \/ Publish(u) \/ InsertPut(u)
      BY <2>2 DEF Fail, Publish, InsertPut, Return
    <2> QED BY <1>2, <2>1, <2>2
  <1>3. ASSUME NEW u \in Tasks, Answer(u)
        PROVE  Sound(key'[t], local'[t])
    <2>1. key[u] \in Keys /\ 0 \in Nat /\ 0 <= now + EffectiveTtl(key[u])
      OBVIOUS
    <2>2. Sound(key[u], Decision(key[u], 0, TRUE))
      BY <2>1, DecisionSound
    <2> QED BY <1>3, <2>2 DEF Answer
  <1>4. ASSUME NEW u \in Tasks, NEW k \in Keys, Call(u, k) \/ Invalidate(u, k)
        PROVE  Sound(key'[t], local'[t])
    BY <1>4 DEF Call, Invalidate, HandInv, Return
  <1>5. ASSUME NEW u \in Tasks, NEW k \in Keys, Insert(u, k)
        PROVE  Sound(key'[t], local'[t])
    <2> DEFINE x == now + EffectiveTtl(k)
    <2>1. x \in Nat /\ x <= now + EffectiveTtl(k)
      <3> HIDE ConstantsAssumption DEF StaleInv
      <3>1. now \in Nat /\ EffectiveTtl(k) \in Nat BY ConstantsAssumption
      <3> HIDE DEF TypeInv, TypeOK
      <3> QED BY <3>1
    <2>2. Sound(k, Decision(k, x, FALSE))
      <3> HIDE DEF x
      <3> QED BY <2>1, DecisionSound
    <2>3. CASE t = u
      <3> HIDE DEF x
      <3>1. \/ local'[t] = NoEntry
            \/ key'[t] = k /\ local'[t] = Decision(k, x, FALSE)
        BY <1>5, <2>3 DEF Insert, Return, x
      <3> QED BY <2>2, <3>1
    <2>4. CASE t # u
      <3>1. key'[t] = key[t] /\ local'[t] = local[t]
        BY <1>5, <2>4 DEF Insert, Return
      <3> QED BY <3>1
    <2> QED BY <2>3, <2>4
  <1>6. ASSUME Tick \/ (\E k \in Volatile : ChangePolicy(k)) \/ UNCHANGED vars
        PROVE  Sound(key'[t], local'[t])
    BY <1>6 DEF Tick, ChangePolicy, vars
  <1> QED BY <1>1, <1>2, <1>3, <1>4, <1>5, <1>6 DEF Next, Step

\* The part about the publication lag.
LEMMA LagStep ==
  ASSUME TypeInv, StaleInv, [Next]_vars, NEW t \in Tasks, pc'[t] = "publish"
  PROVE  now' <= local'[t].decided + AnswerLag
  <1> USE DEF TypeInv, TypeOK, StaleInv, PCs, Goto, Return
  <1>1. ASSUME NEW u \in Tasks, Answer(u)
        PROVE  now' <= local'[t].decided + AnswerLag
    <2>1. Decision(key[u], 0, TRUE).decided = now
      BY DEF Decision
    <2>2. now' = now /\ local' = [local EXCEPT ![u] = Decision(key[u], 0, TRUE)]
      BY <1>1 DEF Answer, envVars
    <2>3. CASE t = u
      <3>1. local'[t] = Decision(key[u], 0, TRUE) BY <2>2, <2>3
      <3>2. now <= now + AnswerLag OBVIOUS
      <3> QED BY <2>1, <2>2, <3>1, <3>2
    <2>4. CASE t # u
      <3>1. pc[t] = "publish" /\ local'[t] = local[t]
        BY <1>1, <2>2, <2>4 DEF Answer
      <3> QED BY <2>2, <3>1
    <2> QED BY <2>3, <2>4
  <1>2. ASSUME NEW u \in Tasks,
               \/ Peek(u) \/ CheckFresh(u) \/ LockKey(u) \/ PeekLocked(u)
               \/ Recheck(u) \/ Fail(u) \/ Publish(u) \/ InsertPut(u)
        PROVE  now' <= local'[t].decided + AnswerLag
    BY <1>2 DEF Peek, CheckFresh, LockKey, PeekLocked, Recheck, Fail, Publish,
                InsertPut, envVars
  <1>3. ASSUME NEW u \in Tasks, NEW k \in Keys,
               Call(u, k) \/ Insert(u, k) \/ Invalidate(u, k)
        PROVE  now' <= local'[t].decided + AnswerLag
    <2>1. pc[t] = "publish" /\ u # t
      <3> HIDE ConstantsAssumption
      <3>1. CASE Call(u, k) BY <3>1 DEF Call
      <3>2. CASE Insert(u, k) BY <3>2 DEF Insert
      <3>3. CASE Invalidate(u, k) BY <3>3 DEF Invalidate
      <3> QED BY <1>3, <3>1, <3>2, <3>3
    <2>2. local'[t] = local[t] /\ now' = now
      BY <1>3, <2>1 DEF Call, Insert, Invalidate, envVars
    <2> QED BY <2>1, <2>2
  <1>4. CASE Tick
    <2>1. pc[t] = "publish" /\ local'[t] = local[t] BY <1>4 DEF Tick
    <2>2. local[t].decided \in Nat BY <2>1 DEF InHand, AuthEntry
    <2> QED BY <1>4, <2>1, <2>2 DEF Tick
  <1>5. ASSUME (\E k \in Volatile : ChangePolicy(k)) \/ UNCHANGED vars
        PROVE  now' <= local'[t].decided + AnswerLag
    BY <1>5 DEF ChangePolicy, vars
  <1> QED BY <1>1, <1>2, <1>3, <1>4, <1>5 DEF Next, Step

\* What a step does to the clock and the policy.
LEMMA EnvStep ==
  ASSUME [Next]_vars
  PROVE  Tick \/ (\E j \in Volatile : ChangePolicy(j)) \/ UNCHANGED envVars
  <1>1. ASSUME NEW t \in Tasks, Step(t) PROVE UNCHANGED envVars
    BY <1>1 DEF Step, Peek, CheckFresh, LockKey, PeekLocked, Recheck, Answer,
                Fail, Publish, InsertPut
  <1>2. ASSUME NEW t \in Tasks, NEW k \in Keys,
               Call(t, k) \/ Insert(t, k) \/ Invalidate(t, k)
        PROVE  UNCHANGED envVars
    BY <1>2 DEF Call, Insert, Invalidate
  <1>3. CASE UNCHANGED vars BY <1>3 DEF vars, envVars
  <1> QED BY <1>1, <1>2, <1>3 DEF Next

LEMMA StaleStep == TypeInv /\ HandInv /\ StaleInv /\ [Next]_vars => StaleInv'
  <1> SUFFICES ASSUME TypeInv, HandInv, StaleInv, [Next]_vars PROVE StaleInv'
    OBVIOUS
  <1>0. TypeInv' BY TypeStep
  <1>1. ASSUME NEW k \in Keys, entry'[k] # NoEntry PROVE Sound(k, entry[k])'
    <2>1. entry'[k] \in AuthEntry BY <1>0, <1>1 DEF TypeInv, TypeOK
    <2>2. Sound(k, entry'[k]) BY <1>1, StaleEntries
    <2>3. PICK e \in AuthEntry : e = entry'[k] BY <2>1
    <2>4. Sound(k, e)' BY <2>2, <2>3, EnvStep, SoundKept
    <2> QED BY <2>3, <2>4 DEF Sound, LastHeld
  <1>2. ASSUME NEW t \in Tasks, local'[t] # NoEntry PROVE Sound(key[t], local[t])'
    <2>1. local'[t] \in AuthEntry /\ key'[t] \in Keys
      BY <1>0, <1>2 DEF TypeInv, TypeOK
    <2>2. Sound(key'[t], local'[t]) BY <1>2, StaleHands
    <2>3. PICK e \in AuthEntry : e = local'[t] BY <2>1
    <2>4. PICK k \in Keys : k = key'[t] BY <2>1
    <2>5. Sound(k, e)' BY <2>2, <2>3, <2>4, EnvStep, SoundKept
    <2> QED BY <2>3, <2>4, <2>5 DEF Sound, LastHeld
  <1>3. ASSUME NEW t \in Tasks, pc'[t] = "publish"
        PROVE  now' <= local'[t].decided + AnswerLag
    BY <1>3, LagStep
  <1> QED BY <1>1, <1>2, <1>3 DEF StaleInv

LEMMA StaleInvariant == Spec => []StaleInv
  <1>1. Init => StaleInv
    BY DEF Init, StaleInv
  <1> QED BY <1>1, StaleStep, HandInvariant, TypeInvariant, PTL DEF Spec

\* A decision is served from a live entry in hand, or from an unexpired answer.
LEMMA WhatIsServed ==
  ASSUME TypeInv, Next, NEW t \in Tasks, NEW v \in BOOLEAN, Serves(t, v)
  PROVE  /\ local[t] \in AuthEntry /\ local[t].authorized = v
         /\ pc[t] = "publish" \/ Live(local[t])
  <1> USE DEF TypeInv, TypeOK, Goto, Return, PCs, Serves, Verdict
  <1>1. ASSUME NEW u \in Tasks, CheckFresh(u) \/ Recheck(u)
        PROVE  local[t] \in AuthEntry /\ local[t].authorized = v /\ Live(local[t])
    <2>1. u = t /\ Live(local[t]) /\ outcome'[t] = Verdict(local[t].authorized)
      BY <1>1 DEF CheckFresh, Recheck
    <2>2. local[t] \in AuthEntry BY <2>1 DEF Live
    <2> QED BY <2>1, <2>2 DEF AuthEntry
  <1>2. ASSUME NEW u \in Tasks, Publish(u)
        PROVE  local[t] \in AuthEntry /\ local[t].authorized = v /\ pc[t] = "publish"
    <2>1. u = t /\ pc[t] = "publish" /\ outcome'[t] = Verdict(local[t].authorized)
      BY <1>2 DEF Publish
    <2>2. local[t] \in AuthEntry BY <2>1 DEF InHand
    <2> QED BY <2>1, <2>2 DEF AuthEntry
  <1>3. ASSUME NEW u \in Tasks,
               \/ Peek(u) \/ LockKey(u) \/ PeekLocked(u)
               \/ Answer(u) \/ Fail(u) \/ InsertPut(u)
        PROVE  FALSE
    <2> HIDE ConstantsAssumption
    <2>1. CASE Peek(u) \/ PeekLocked(u) BY <2>1 DEF Peek, PeekLocked
    <2>2. CASE LockKey(u) \/ Answer(u) \/ Fail(u) BY <2>2 DEF LockKey, Answer, Fail
    <2>3. CASE InsertPut(u) BY <2>3 DEF InsertPut
    <2> QED BY <1>3, <2>1, <2>2, <2>3
  <1>4. ASSUME NEW u \in Tasks, NEW k \in Keys,
               Call(u, k) \/ Insert(u, k) \/ Invalidate(u, k)
        PROVE  FALSE
    <2> HIDE ConstantsAssumption
    <2>1. CASE Call(u, k) BY <2>1 DEF Call
    <2>2. CASE Insert(u, k) BY <2>2 DEF Insert
    <2>3. CASE Invalidate(u, k) BY <2>3 DEF Invalidate
    <2> QED BY <1>4, <2>1, <2>2, <2>3
  <1>5. ASSUME Tick \/ (\E k \in Volatile : ChangePolicy(k)) PROVE FALSE
    BY <1>5 DEF Tick, ChangePolicy
  <1> QED BY <1>1, <1>2, <1>3, <1>4, <1>5 DEF Next, Step

\* For every ttl and every number of tasks, a decision returned to a request
\* was the policy's less than the ttl and the publication lag ago: no order of
\* publications, insertions and invalidations lets a revoked grant live longer.
THEOREM BoundedStalenessHolds == Spec => BoundedStaleness
  <1>1. TypeInv /\ StaleInv /\ [Next]_vars =>
          [\A t \in Tasks : \A v \in BOOLEAN : Serves(t, v) =>
             /\ LastHeld(key[t], v) # Never
             /\ now < LastHeld(key[t], v) + EffectiveTtl(key[t]) + AnswerLag]_vars
    <2> SUFFICES ASSUME TypeInv, StaleInv, Next, NEW t \in Tasks,
                        NEW v \in BOOLEAN, Serves(t, v)
                 PROVE  /\ LastHeld(key[t], v) # Never
                        /\ now < LastHeld(key[t], v) + EffectiveTtl(key[t]) + AnswerLag
      OBVIOUS
    <2>1. local[t] \in AuthEntry /\ local[t].authorized = v
      BY WhatIsServed
    <2>2. Sound(key[t], local[t]) /\ key[t] \in Keys
      BY <2>1, NoEntryDistinct DEF StaleInv, TypeInv, TypeOK
    <2>3. /\ local[t].decided \in Nat /\ local[t].expires \in Nat
          /\ LastHeld(key[t], v) \in Int
          /\ EffectiveTtl(key[t]) \in Nat /\ EffectiveTtl(key[t]) > 0
          /\ now \in Nat
      BY <2>1, <2>2, TtlType DEF TypeInv, TypeOK, AuthEntry, LastHeld, Never
    <2>4. LastHeld(key[t], v) # Never
      BY <2>1, <2>2, <2>3 DEF Sound, Never
    <2>5. CASE pc[t] = "publish"
      BY <2>1, <2>2, <2>3, <2>4, <2>5 DEF StaleInv, Sound
    <2>6. CASE Live(local[t])
      BY <2>1, <2>2, <2>3, <2>4, <2>6 DEF Live, Sound
    <2> QED BY <2>5, <2>6, WhatIsServed
  <1> QED BY <1>1, StaleInvariant, TypeInvariant, PTL DEF Spec, BoundedStaleness

--------------------------------------------------------------------------------
(* Nobody is stranded                                                      *)

\* Where a task is in the queue of its key's mutex, at the head or behind it.
Queued(label) == label \in Critical \cup {"wait"}

\* A place in the queue of k is taken by a task that is in a call for k.
PlacesTaken(k) ==
    \A i \in DOMAIN queue[k] : key[queue[k][i]] = k /\ Queued(pc[queue[k][i]])
\* No task has two places: the guard it drops leaves none behind.
PlacesDiffer(k) ==
    \A i, j \in DOMAIN queue[k] : queue[k][i] = queue[k][j] => i = j
HasPlace(t) == \E i \in DOMAIN queue[key[t]] : queue[key[t]][i] = t

QueueInv ==
    /\ \A k \in Keys : PlacesTaken(k) /\ PlacesDiffer(k)
    /\ \A t \in Tasks : Queued(pc[t]) => HasPlace(t)

LEMMA QueueInit == Init => QueueInv
  BY DEF Init, QueueInv, PlacesTaken, PlacesDiffer, Queued, Critical

\* A step that leaves the queues and who is in them alone.
LEMMA QueueUnmoved ==
  ASSUME TypeOK, QueueInv, queue' = queue,
         \A u \in Tasks : /\ Queued(pc'[u]) <=> Queued(pc[u])
                          /\ Queued(pc[u]) => key'[u] = key[u]
  PROVE  QueueInv'
  <1>1. ASSUME NEW k \in Keys PROVE PlacesTaken(k)' /\ PlacesDiffer(k)'
    <2>1. \A i \in DOMAIN queue[k] : queue[k][i] \in Tasks
      BY DEF TypeOK
    <2> QED BY <2>1 DEF QueueInv, PlacesTaken, PlacesDiffer
  <1>2. ASSUME NEW t \in Tasks, Queued(pc'[t]) PROVE HasPlace(t)'
    BY <1>2 DEF QueueInv, HasPlace
  <1> QED BY <1>1, <1>2 DEF QueueInv

\* Queueing for a mutex takes the place after the last.
LEMMA QueueJoin ==
  ASSUME TypeOK, QueueInv, NEW t \in Tasks, LockKey(t)
  PROVE  QueueInv'
  <1> DEFINE c == key[t]
             q == queue[c]
  <1>1. /\ c \in Keys /\ q \in Seq(Tasks) /\ ~Queued(pc[t])
        /\ key' = key /\ pc' = [pc EXCEPT ![t] = "wait"]
        /\ queue' = [queue EXCEPT ![c] = Append(q, t)]
    BY DEF LockKey, Goto, TypeOK, Queued, Critical
  <1>2. /\ queue'[c] = Append(q, t)
        /\ \A k \in Keys : k # c => queue'[k] = queue[k]
    BY <1>1 DEF TypeOK
  <1>3. /\ DOMAIN queue'[c] = 1..(Len(q) + 1)
        /\ DOMAIN q = 1..Len(q)
        /\ \A i \in DOMAIN q : queue'[c][i] = q[i]
        /\ queue'[c][Len(q) + 1] = t
    BY <1>1, <1>2
  <1>4. \A u \in Tasks : Queued(pc'[u]) <=> (u = t \/ Queued(pc[u]))
    BY <1>1 DEF TypeOK, Queued, Critical
  <1>5. ASSUME NEW i \in DOMAIN q
        PROVE  q[i] \in Tasks /\ key[q[i]] = c /\ Queued(pc[q[i]]) /\ q[i] # t
    BY <1>1 DEF QueueInv, PlacesTaken
  <1>6. ASSUME NEW k \in Keys PROVE PlacesTaken(k)' /\ PlacesDiffer(k)'
    <2>1. CASE k = c
      <3>1. PlacesTaken(k)'
        <4> SUFFICES ASSUME NEW i \in DOMAIN queue'[c]
                     PROVE  key'[queue'[c][i]] = c /\ Queued(pc'[queue'[c][i]])
          BY <2>1, <1>1 DEF PlacesTaken
        <4>1. CASE i \in DOMAIN q
          <5>1. queue'[c][i] = q[i] BY <4>1, <1>3
          <5>2. q[i] \in Tasks /\ key[q[i]] = c /\ Queued(pc[q[i]]) BY <4>1, <1>5
          <5> QED BY <5>1, <5>2, <1>1, <1>4
        <4>2. CASE i = Len(q) + 1
          <5>1. queue'[c][i] = t BY <4>2, <1>3
          <5> QED BY <5>1, <1>1, <1>4
        <4> QED BY <4>1, <4>2, <1>1, <1>3
      <3>2. PlacesDiffer(k)'
        <4> SUFFICES ASSUME NEW i \in DOMAIN queue'[c], NEW j \in DOMAIN queue'[c],
                            queue'[c][i] = queue'[c][j]
                     PROVE  i = j
          BY <2>1 DEF PlacesDiffer
        <4>1. i \in DOMAIN q \/ i = Len(q) + 1 BY <1>1, <1>3
        <4>2. j \in DOMAIN q \/ j = Len(q) + 1 BY <1>1, <1>3
        <4>3. CASE i \in DOMAIN q /\ j \in DOMAIN q
          BY <4>3, <1>1, <1>3 DEF QueueInv, PlacesDiffer
        <4> QED BY <4>1, <4>2, <4>3, <1>3, <1>5
      <3> QED BY <3>1, <3>2
    <2>2. CASE k # c
      <3>1. \A i \in DOMAIN queue[k] : queue[k][i] \in Tasks
        BY DEF TypeOK
      <3> QED BY <2>2, <3>1, <1>1, <1>2, <1>4 DEF QueueInv, PlacesTaken, PlacesDiffer
    <2> QED BY <2>1, <2>2
  <1>7. ASSUME NEW u \in Tasks, Queued(pc'[u]) PROVE HasPlace(u)'
    <2>1. CASE u = t
      <3>1. Len(q) + 1 \in DOMAIN queue'[c] BY <1>1, <1>3
      <3> QED BY <2>1, <3>1, <1>1, <1>3 DEF HasPlace
    <2>2. CASE u # t
      <3>1. HasPlace(u) BY <1>7, <2>2, <1>4 DEF QueueInv
      <3>2. CASE key[u] = c
        <4>1. PICK i \in DOMAIN q : q[i] = u BY <3>1, <3>2 DEF HasPlace
        <4>2. i \in DOMAIN queue'[c] BY <1>1, <1>3
        <4> QED BY <3>2, <4>1, <4>2, <1>1, <1>3 DEF HasPlace
      <3>3. CASE key[u] # c
        BY <3>1, <3>3, <1>1, <1>2 DEF HasPlace, TypeOK
      <3> QED BY <3>2, <3>3
    <2> QED BY <2>1, <2>2
  <1> QED BY <1>6, <1>7 DEF QueueInv

\* The holder returns: everybody behind it moves up by one.
LEMMA QueueLeave ==
  ASSUME TypeOK, QueueInv, NEW t \in Tasks, HoldsLock(t), Unlock(t), key' = key,
         pc' = [pc EXCEPT ![t] = "idle"]
  PROVE  QueueInv'
  <1> DEFINE c == key[t]
             q == queue[c]
  <1>1. /\ c \in Keys /\ q \in Seq(Tasks) /\ q # <<>> /\ q[1] = t
        /\ queue' = [queue EXCEPT ![c] = Tail(q)]
    BY DEF HoldsLock, Unlock, TypeOK
  <1>2. /\ queue'[c] = Tail(q)
        /\ \A k \in Keys : k # c => queue'[k] = queue[k]
    BY <1>1 DEF TypeOK
  <1>3. /\ Len(q) \in Nat /\ Len(q) >= 1
        /\ DOMAIN queue'[c] = 1..(Len(q) - 1)
        /\ DOMAIN q = 1..Len(q)
        /\ \A i \in 1..(Len(q) - 1) : queue'[c][i] = q[i + 1]
    <2>1. Len(q) \in Nat /\ Len(q) # 0 /\ DOMAIN q = 1..Len(q)
      BY <1>1, EmptySeq
    <2>2. Tail(q) \in Seq(Tasks) /\ Len(Tail(q)) = Len(q) - 1
      BY <1>1, HeadTailProperties
    <2>3. \A i \in 1..(Len(q) - 1) : Tail(q)[i] = q[i + 1]
      BY <1>1, <2>1, <2>2
    <2>4. DOMAIN Tail(q) = 1..(Len(q) - 1)
      BY <2>2, LenProperties
    <2> QED BY <1>2, <2>1, <2>3, <2>4
  <1>4. \A u \in Tasks : Queued(pc'[u]) <=> (u # t /\ Queued(pc[u]))
    BY DEF TypeOK, Queued, Critical
  <1>5. ASSUME NEW i \in 1..Len(q)
        PROVE  /\ q[i] \in Tasks /\ key[q[i]] = c /\ Queued(pc[q[i]])
               /\ i # 1 => q[i] # t
    <2>1. 1 \in DOMAIN q BY <1>1, <1>3
    <2>2. PlacesTaken(c) /\ PlacesDiffer(c) BY <1>1 DEF QueueInv
    <2> QED BY <2>1, <2>2, <1>1, <1>3 DEF PlacesTaken, PlacesDiffer
  <1>6. ASSUME NEW k \in Keys PROVE PlacesTaken(k)' /\ PlacesDiffer(k)'
    <2>1. CASE k = c
      <3>1. PlacesTaken(k)'
        <4> SUFFICES ASSUME NEW i \in 1..(Len(q) - 1)
                     PROVE  key'[queue'[c][i]] = c /\ Queued(pc'[queue'[c][i]])
          BY <2>1, <1>3 DEF PlacesTaken
        <4>1. i + 1 \in 1..Len(q) /\ i + 1 # 1 BY <1>3
        <4> QED BY <4>1, <1>3, <1>4, <1>5
      <3>2. PlacesDiffer(k)'
        <4> SUFFICES ASSUME NEW i \in 1..(Len(q) - 1), NEW j \in 1..(Len(q) - 1),
                            queue'[c][i] = queue'[c][j]
                     PROVE  i = j
          BY <2>1, <1>3 DEF PlacesDiffer
        <4>1. i + 1 \in DOMAIN q /\ j + 1 \in DOMAIN q BY <1>3
        <4>2. q[i + 1] = q[j + 1] BY <1>3
        <4>3. i + 1 = j + 1 BY <4>1, <4>2, <1>1 DEF QueueInv, PlacesDiffer
        <4> QED BY <4>3
      <3> QED BY <3>1, <3>2
    <2>2. CASE k # c
      <3>1. \A i \in DOMAIN queue[k] : queue[k][i] \in Tasks /\ queue[k][i] # t
        BY <2>2 DEF TypeOK, QueueInv, PlacesTaken
      <3> QED BY <2>2, <3>1, <1>2, <1>4 DEF QueueInv, PlacesTaken, PlacesDiffer
    <2> QED BY <2>1, <2>2
  <1>7. ASSUME NEW u \in Tasks, Queued(pc'[u]) PROVE HasPlace(u)'
    <2>1. u # t /\ HasPlace(u) BY <1>7, <1>4 DEF QueueInv
    <2>2. CASE key[u] = c
      <3>1. PICK i \in DOMAIN q : q[i] = u BY <2>1, <2>2 DEF HasPlace
      <3>2. i - 1 \in 1..(Len(q) - 1) /\ (i - 1) + 1 = i BY <2>1, <3>1, <1>1, <1>3
      <3>3. queue'[c][i - 1] = u BY <3>1, <3>2, <1>3
      <3> QED BY <2>2, <3>2, <3>3, <1>3 DEF HasPlace
    <2>3. CASE key[u] # c
      BY <2>1, <2>3, <1>2 DEF HasPlace, TypeOK
    <2> QED BY <2>2, <2>3
  <1> QED BY <1>6, <1>7 DEF QueueInv

LEMMA QueueStep == TypeInv /\ QueueInv /\ [Next]_vars => QueueInv'
  <1> SUFFICES ASSUME TypeInv, QueueInv, [Next]_vars PROVE QueueInv'
    OBVIOUS
  <1> USE DEF TypeInv
  <1>1. ASSUME NEW t \in Tasks, NEW k \in Keys, Call(t, k) PROVE QueueInv'
    BY <1>1, QueueUnmoved DEF Call, Goto, Queued, Critical, TypeOK
  <1>2. ASSUME NEW t \in Tasks, Peek(t) PROVE QueueInv'
    BY <1>2, QueueUnmoved DEF Peek, Goto, Return, Queued, Critical, TypeOK
  <1>3. ASSUME NEW t \in Tasks, CheckFresh(t) PROVE QueueInv'
    BY <1>3, QueueUnmoved DEF CheckFresh, Goto, Return, Queued, Critical, TypeOK
  <1>4. ASSUME NEW t \in Tasks, LockKey(t) PROVE QueueInv'
    BY <1>4, QueueJoin
  <1>5. ASSUME NEW t \in Tasks, PeekLocked(t) PROVE QueueInv'
    <2>1. CASE poisoned
      BY <1>5, <2>1, QueueLeave DEF PeekLocked, Goto, Return
    <2>2. CASE ~poisoned
      BY <1>5, <2>2, QueueUnmoved DEF PeekLocked, Goto, Queued, Critical, TypeOK
    <2> QED BY <2>1, <2>2
  <1>6. ASSUME NEW t \in Tasks, Recheck(t) PROVE QueueInv'
    <2>1. HoldsLock(t) BY <1>6 DEF Recheck, MutexHeld, Critical
    <2>2. CASE Live(local[t])
      BY <1>6, <2>1, <2>2, QueueLeave DEF Recheck, Goto, Return
    <2>3. CASE ~Live(local[t])
      BY <1>6, <2>3, QueueUnmoved DEF Recheck, Goto, Queued, Critical, TypeOK
    <2> QED BY <2>2, <2>3
  <1>7. ASSUME NEW t \in Tasks, Answer(t) PROVE QueueInv'
    BY <1>7, QueueUnmoved DEF Answer, Goto, Queued, Critical, TypeOK
  <1>8. ASSUME NEW t \in Tasks, Fail(t) PROVE QueueInv'
    <2>1. HoldsLock(t) BY <1>8 DEF Fail, MutexHeld, Critical
    <2> QED BY <1>8, <2>1, QueueLeave DEF Fail, Goto, Return
  <1>9. ASSUME NEW t \in Tasks, Publish(t) PROVE QueueInv'
    <2>1. HoldsLock(t) BY <1>9 DEF Publish, MutexHeld, Critical
    <2>2. pc' = [pc EXCEPT ![t] = "idle"] /\ key' = key /\ Unlock(t)
      BY <1>9 DEF Publish, Goto, Return
    <2> QED BY <2>1, <2>2, QueueLeave
  <1>10. ASSUME NEW t \in ApiTasks, NEW k \in Keys, Insert(t, k) PROVE QueueInv'
    BY <1>10, QueueUnmoved DEF Insert, Goto, Return, Queued, Critical, TypeOK
  <1>11. ASSUME NEW t \in Tasks, InsertPut(t) PROVE QueueInv'
    <2>1. pc[t] = "insert" /\ pc' = [pc EXCEPT ![t] = "idle"] /\ UNCHANGED <<queue, key>>
      BY <1>11 DEF InsertPut, Goto, Return
    <2> QED BY <2>1, QueueUnmoved DEF Queued, Critical, TypeOK
  <1>12. ASSUME NEW t \in ApiTasks, NEW k \in Keys, Invalidate(t, k) PROVE QueueInv'
    <2>1. /\ pc[t] = "idle" /\ pc' = [pc EXCEPT ![t] = "idle"]
          /\ key' = [key EXCEPT ![t] = k] /\ queue' = queue
      BY <1>12 DEF Invalidate, Goto, Return
    <2> QED BY <2>1, QueueUnmoved DEF Queued, Critical, TypeOK
  <1>13. ASSUME NEW k \in Volatile, ChangePolicy(k) PROVE QueueInv'
    BY <1>13, QueueUnmoved DEF ChangePolicy, Queued
  <1>14. CASE Tick
    BY <1>14, QueueUnmoved DEF Tick, Queued
  <1>15. CASE UNCHANGED vars
    BY <1>15, QueueUnmoved DEF vars, Queued
  <1> QED
    BY <1>1, <1>2, <1>3, <1>4, <1>5, <1>6, <1>7, <1>8, <1>9, <1>10, <1>11,
       <1>12, <1>13, <1>14, <1>15 DEF Next, Step

\* For any number of tasks and keys, whoever waits for a mutex has at the head
\* of the queue a task of the same key that is inside or may enter: no return
\* path, a hit, a failure or a panic, leaves the mutex behind
\* (validator.rs:86-118).
THEOREM NobodyStrandedHolds == Spec => []NobodyStranded
  <1>1. TypeInv /\ QueueInv => NobodyStranded
    <2> SUFFICES ASSUME TypeOK, QueueInv, NEW t \in Tasks, pc[t] = "wait"
                 PROVE  \E u \in Tasks : /\ key[u] = key[t]
                                         /\ HoldsLock(u)
                                         /\ pc[u] \in Critical \cup {"wait"}
      BY DEF TypeInv, NobodyStranded
    <2> DEFINE q == queue[key[t]]
    <2>1. key[t] \in Keys /\ q \in Seq(Tasks) BY DEF TypeOK
    <2>2. HasPlace(t) BY DEF QueueInv, Queued
    <2>3. q # <<>> BY <2>1, <2>2 DEF HasPlace
    <2>4. 1 \in DOMAIN q /\ Head(q) = q[1] /\ q[1] \in Tasks BY <2>1, <2>3
    <2>5. key[q[1]] = key[t] /\ Queued(pc[q[1]])
      BY <2>1, <2>4 DEF QueueInv, PlacesTaken
    <2>6. HoldsLock(q[1]) BY <2>3, <2>4, <2>5 DEF HoldsLock
    <2> QED BY <2>4, <2>5, <2>6 DEF Queued
  <1> QED BY <1>1, TypeInvariant, QueueInit, QueueStep, PTL DEF Spec
================================================================================
