------------------------------- MODULE AuthCache -------------------------------
(***************************************************************************)
(* The authorization cache of utils/validator.rs: a capacity-limited LRU   *)
(* map from (access_key, bucket, method) to a decision with an expiry,     *)
(* guarded by a std RwLock, with one tokio mutex per key so that only one  *)
(* task at a time calls the Python validator for a key.                    *)
(*                                                                         *)
(* A task is a request inside get_or_validate, or a caller of insert or    *)
(* invalidate.  A step of a task is what it does under one acquisition of  *)
(* the RwLock, or between two awaits; other tasks and the clock run        *)
(* between any two steps.                                                  *)
(***************************************************************************)
EXTENDS Integers, Sequences, FiniteSets

CONSTANTS
    Tasks,        \* tasks of the tokio runtime that use the cache
    Keys,         \* cache keys, access_key:bucket:method
    Capacity,     \* the argument of AuthCache::new
    DefaultTtl,   \* 300 s in the code: what a configured ttl of 0 means
    Ttl,          \* Ttl[k]: the ttl configured for the bucket of key k
    InstantMax,   \* the largest value of std::time::Instant
    ApiTasks,     \* tasks that may also call insert and invalidate
    Volatile,     \* keys whose policy may change, a bound for model checking
    AnswerLag,    \* bound on the time from a decision to its publication
    MaxTime       \* bound on the clock, for model checking only

DefaultCapacity == 1024    \* AUTH_CACHE_DEFAULT_CAPACITY

ASSUME ConstantsAssumption ==
    /\ Capacity \in Nat
    /\ DefaultTtl \in Nat
    /\ Ttl \in [Keys -> Nat]
    /\ InstantMax \in Nat
    /\ ApiTasks \subseteq Tasks
    /\ Volatile \subseteq Keys
    /\ AnswerLag \in Nat
    /\ MaxTime \in Nat
    /\ MaxTime <= InstantMax

ASSUME DefaultTtlAssumption == DefaultTtl > 0

\* Fault: one more than asked for, so that it is never 0.
Cap_NeverZero == Capacity + 1

\* AuthCache::new: a capacity of 0 stands for the default.
Cap == IF Capacity = 0 THEN DefaultCapacity ELSE Capacity

\* A ttl of 0 in the bucket's configuration stands for the default.
EffectiveTtl(k) == IF Ttl[k] = 0 THEN DefaultTtl ELSE Ttl[k]

VARIABLES
    now,        \* Instant::now(), in whole units
    entry,      \* entry[k]: the cached AuthEntry of k, or NoEntry
    rank,       \* rank[k]: place of k in the LRU order, 1 the most recent put
    queue,      \* queue[k]: the key's mutex; its head holds it, the rest wait
    locks,      \* keys that have a mutex in the lock map
    poisoned,   \* a panic happened while the RwLock was write-held
    pc,         \* pc[t]: where task t is
    key,        \* key[t]: the key task t works on
    local,      \* local[t]: the entry t has read, or is about to publish
    outcome,    \* outcome[t]: what t's last call returned
    policy,     \* policy[k]: what the Python validator answers for k now
    changed     \* changed[k]: when the policy of k last changed

cacheVars == <<entry, rank>>
envVars == <<now, policy, changed>>
vars == <<now, entry, rank, queue, locks, poisoned, pc, key, local, outcome,
          policy, changed>>

\* "decided" and "validated" are history: when the decision was taken, and
\* whether get_or_validate (rather than insert) published it.
AuthEntry == [authorized : BOOLEAN, expires : Nat, decided : Nat,
              validated : BOOLEAN]
NoEntry == [expires |-> -1]

PCs == {"idle", "peek", "fresh", "lock", "wait", "recheck", "validate",
        "publish", "insert"}
Outcomes == {"none", "granted", "denied", "error", "panic"}

\* Never is before every instant: the policy has not changed yet.
Never == -1

Verdict(b) == IF b THEN "granted" ELSE "denied"
Present(k) == rank[k] # 0
Live(e) == e # NoEntry /\ now < e.expires

\* Between taking the key's mutex and returning.
Critical == {"recheck", "validate", "publish"}
\* Fault: any task that queued proceeds.
HoldsLock_Shared(t) == queue[key[t]] # <<>>
HoldsLock(t) == queue[key[t]] # <<>> /\ Head(queue[key[t]]) = t

--------------------------------------------------------------------------------
(* The lru crate: put moves k to the front and drops what falls off the   *)
(* end, pop closes the gap k leaves.                                      *)

PutRank(k) ==
    LET Shifted(j) == IF rank[j] # 0 /\ (~Present(k) \/ rank[j] < rank[k])
                        THEN rank[j] + 1 ELSE rank[j]
    IN  [j \in Keys |-> IF j = k THEN 1
                        ELSE IF Shifted(j) > Cap THEN 0 ELSE Shifted(j)]

PopRank(k) ==
    [j \in Keys |-> IF j = k THEN 0
                    ELSE IF Present(k) /\ rank[j] > rank[k]
                      THEN rank[j] - 1 ELSE rank[j]]

Put(k, e) ==
    /\ rank' = PutRank(k)
    /\ entry' = [j \in Keys |-> IF j = k THEN e
                                ELSE IF PutRank(k)[j] = 0 THEN NoEntry
                                ELSE entry[j]]

Pop(k) ==
    /\ rank' = PopRank(k)
    /\ entry' = [entry EXCEPT ![k] = NoEntry]

--------------------------------------------------------------------------------
Goto(t, label) == pc' = [pc EXCEPT ![t] = label]

\* The call of t ends with outcome o.
Return(t, o) ==
    /\ Goto(t, "idle")
    /\ outcome' = [outcome EXCEPT ![t] = o]
    /\ local' = [local EXCEPT ![t] = NoEntry]

\* The guard of the key's mutex is dropped: the next waiter, if any, has it.
Unlock(t) == queue' = [queue EXCEPT ![key[t]] = Tail(@)]

\* What the policy says of k now, expiring at x.
Decision(k, x, byValidator) ==
    [authorized |-> policy[k], expires |-> x, decided |-> now,
     validated |-> byValidator]

\* Fault: the entry expires a ttl before it is put.
Stamped_Backwards(e, k) ==
    [authorized |-> e.authorized, expires |-> now - EffectiveTtl(k),
     decided |-> e.decided, validated |-> TRUE]

\* The AuthEntry built for a decision e when it is put at this instant.
Stamped(e, k) ==
    [authorized |-> e.authorized, expires |-> now + EffectiveTtl(k),
     decided |-> e.decided, validated |-> TRUE]

Init ==
    /\ now = 0
    /\ entry = [k \in Keys |-> NoEntry]
    /\ rank = [k \in Keys |-> 0]
    /\ queue = [k \in Keys |-> <<>>]
    /\ locks = {}
    /\ poisoned = FALSE
    /\ pc = [t \in Tasks |-> "idle"]
    /\ key \in [Tasks -> Keys]
    /\ local = [t \in Tasks |-> NoEntry]
    /\ outcome = [t \in Tasks |-> "none"]
    /\ policy \in [Keys -> BOOLEAN]
    /\ changed = [k \in Keys |-> Never]

\* A request reaches get_or_validate with key k.
Call(t, k) ==
    /\ pc[t] = "idle"
    /\ Goto(t, "peek")
    /\ key' = [key EXCEPT ![t] = k]
    /\ outcome' = [outcome EXCEPT ![t] = "none"]
    /\ UNCHANGED <<cacheVars, envVars, queue, locks, poisoned, local>>

\* map.peek(key).cloned() under the read lock; unwrap panics if poisoned.
Peek(t) ==
    /\ pc[t] = "peek"
    /\ IF poisoned
         THEN Return(t, "panic")
         ELSE /\ Goto(t, "fresh")
              /\ local' = [local EXCEPT ![t] = entry[key[t]]]
              /\ UNCHANGED outcome
    /\ UNCHANGED <<cacheVars, envVars, queue, locks, poisoned, key>>

\* Fault: a cached decision is served without looking at its expiry.
CheckFresh_NoExpiry(t) ==
    /\ pc[t] = "fresh"
    /\ IF local[t] # NoEntry
         THEN Return(t, Verdict(local[t].authorized))
         ELSE Goto(t, "lock") /\ UNCHANGED <<outcome, local>>
    /\ UNCHANGED <<cacheVars, envVars, queue, locks, poisoned, key>>

\* Instant::now() < entry.expires_at, read after the lock is released.
CheckFresh(t) ==
    /\ pc[t] = "fresh"
    /\ IF Live(local[t])
         THEN Return(t, Verdict(local[t].authorized))
         ELSE Goto(t, "lock") /\ UNCHANGED <<outcome, local>>
    /\ UNCHANGED <<cacheVars, envVars, queue, locks, poisoned, key>>

\* Get or make the key's mutex, and queue for it (tokio's mutex is FIFO).
LockKey(t) ==
    /\ pc[t] = "lock"
    /\ locks' = locks \cup {key[t]}
    /\ queue' = [queue EXCEPT ![key[t]] = Append(@, t)]
    /\ Goto(t, "wait")
    /\ UNCHANGED <<cacheVars, envVars, poisoned, key, local, outcome>>

\* The mutex is ours: peek again under the read lock.
PeekLocked(t) ==
    /\ pc[t] = "wait"
    /\ HoldsLock(t)
    /\ IF poisoned
         THEN Return(t, "panic") /\ Unlock(t)
         ELSE /\ Goto(t, "recheck")
              /\ local' = [local EXCEPT ![t] = entry[key[t]]]
              /\ UNCHANGED <<outcome, queue>>
    /\ UNCHANGED <<cacheVars, envVars, locks, poisoned, key>>

\* Fault: the mutex is taken but the cache is not looked at again.
Recheck_Once(t) ==
    /\ pc[t] = "recheck"
    /\ Goto(t, "validate")
    /\ UNCHANGED <<cacheVars, envVars, queue, locks, poisoned, key, outcome,
                   local>>

\* The second half of the double-checked lock; a miss calls the validator.
Recheck(t) ==
    /\ pc[t] = "recheck"
    /\ IF Live(local[t])
         THEN Return(t, Verdict(local[t].authorized)) /\ Unlock(t)
         ELSE Goto(t, "validate") /\ UNCHANGED <<outcome, local, queue>>
    /\ UNCHANGED <<cacheVars, envVars, locks, poisoned, key>>

\* validator_fn().await answers; the entry to publish has no expiry yet.
Answer(t) ==
    /\ pc[t] = "validate"
    /\ Goto(t, "publish")
    /\ local' = [local EXCEPT ![t] = Decision(key[t], 0, TRUE)]
    /\ UNCHANGED <<cacheVars, envVars, queue, locks, poisoned, key, outcome>>

\* Fault: the mutex stays held when the validator fails.
Fail_KeepsLock(t) ==
    /\ pc[t] = "validate"
    /\ Return(t, "error")
    /\ UNCHANGED <<cacheVars, envVars, queue, locks, poisoned, key>>

\* validator_fn().await fails: the ? returns early and caches nothing.
Fail(t) ==
    /\ pc[t] = "validate"
    /\ Return(t, "error")
    /\ Unlock(t)
    /\ UNCHANGED <<cacheVars, envVars, locks, poisoned, key>>

\* Under the write lock: Instant::now() + ttl panics on overflow, and the
\* panic poisons the lock; otherwise the entry is put.
Publish(t) ==
    /\ pc[t] = "publish"
    /\ IF poisoned \/ now + EffectiveTtl(key[t]) > InstantMax
         THEN /\ Return(t, "panic")
              /\ poisoned' = TRUE
              /\ UNCHANGED cacheVars
         ELSE /\ Put(key[t], Stamped(local[t], key[t]))
              /\ Return(t, Verdict(local[t].authorized))
              /\ UNCHANGED poisoned
    /\ Unlock(t)
    /\ UNCHANGED <<envVars, locks, key>>

\* insert: the expiry is computed before the write lock is asked for, so an
\* overflow here does not poison it.  The caller knows the right decision.
Insert(t, k) ==
    /\ pc[t] = "idle"
    /\ key' = [key EXCEPT ![t] = k]
    /\ IF now + EffectiveTtl(k) > InstantMax
         THEN Return(t, "panic")
         ELSE /\ Goto(t, "insert")
              /\ local' = [local EXCEPT ![t] =
                             Decision(k, now + EffectiveTtl(k), FALSE)]
              /\ outcome' = [outcome EXCEPT ![t] = "none"]
    /\ UNCHANGED <<cacheVars, envVars, queue, locks, poisoned>>

InsertPut(t) ==
    /\ pc[t] = "insert"
    /\ IF poisoned
         THEN Return(t, "panic") /\ UNCHANGED cacheVars
         ELSE Put(key[t], local[t]) /\ Return(t, "none")
    /\ UNCHANGED <<envVars, queue, locks, poisoned, key>>

\* invalidate: one step under the write lock.
Invalidate(t, k) ==
    /\ pc[t] = "idle"
    /\ key' = [key EXCEPT ![t] = k]
    /\ IF poisoned
         THEN Return(t, "panic") /\ UNCHANGED cacheVars
         ELSE Pop(k) /\ Return(t, "none")
    /\ UNCHANGED <<envVars, queue, locks, poisoned>>

--------------------------------------------------------------------------------
(* The environment: the clock, and the policy behind the Python callback.  *)

\* AnswerLag: no decision stays unpublished longer than that.
Tick ==
    /\ now < MaxTime
    /\ \A t \in Tasks : pc[t] = "publish" => now < local[t].decided + AnswerLag
    /\ now' = now + 1
    /\ UNCHANGED <<cacheVars, queue, locks, poisoned, pc, key, local, outcome,
                   policy, changed>>

ChangePolicy(k) ==
    /\ policy' = [policy EXCEPT ![k] = ~@]
    /\ changed' = [changed EXCEPT ![k] = now]
    /\ UNCHANGED <<cacheVars, now, queue, locks, poisoned, pc, key, local,
                   outcome>>

\* What a call does once it has begun.
Step(t) ==
    \/ Peek(t) \/ CheckFresh(t) \/ LockKey(t) \/ PeekLocked(t) \/ Recheck(t)
    \/ Answer(t) \/ Fail(t) \/ Publish(t) \/ InsertPut(t)

Next ==
    \/ \E t \in Tasks : Step(t)
    \/ \E t \in Tasks, k \in Keys : Call(t, k)
    \/ \E t \in ApiTasks, k \in Keys : Insert(t, k) \/ Invalidate(t, k)
    \/ \E k \in Volatile : ChangePolicy(k)
    \/ Tick

Spec == Init /\ [][Next]_vars

\* The runtime polls every ready task, and the validator answers or fails.
Fairness == \A t \in Tasks : WF_vars(Step(t))

FairSpec == Spec /\ Fairness
--------------------------------------------------------------------------------
(* Properties                                                              *)

\* Types of the variables.
TypeOK ==
    /\ now \in 0..MaxTime
    /\ entry \in [Keys -> AuthEntry \cup {NoEntry}]
    /\ rank \in [Keys -> 0..Cap]
    /\ queue \in [Keys -> Seq(Tasks)]
    /\ locks \subseteq Keys
    /\ poisoned \in BOOLEAN
    /\ pc \in [Tasks -> PCs]
    /\ key \in [Tasks -> Keys]
    /\ local \in [Tasks -> AuthEntry \cup {NoEntry}]
    /\ outcome \in [Tasks -> Outcomes]
    /\ policy \in [Keys -> BOOLEAN]
    /\ changed \in [Keys -> 0..MaxTime \cup {Never}]

\* Concurrent misses of one key never call the validator at the same time:
\* the per-key mutex (validator.rs:35-38) covers the whole critical section,
\* across the await of the callback and every early return.
SingleFlight ==
    \A t, u \in Tasks :
        t # u /\ key[t] = key[u] => ~(pc[t] \in Critical /\ pc[u] \in Critical)

\* The number of decisions held never exceeds the capacity that was asked for,
\* or the default of 1024, whatever the order of publications, insertions and
\* invalidations (validator.rs:32, 51-58).
Held == {k \in Keys : entry[k] # NoEntry}
CapacityBound ==
    /\ Capacity > 0 => Cardinality(Held) <= Capacity
    /\ Capacity = 0 => Cardinality(Held) <= DefaultCapacity

\* While a decision published by a validation is in the cache and has not
\* expired, no other validation of that key begins: tasks that queued on the
\* mutex behind the one that validated find its entry (validator.rs:95-103).
StartsValidation(t) == pc[t] = "recheck" /\ pc'[t] = "validate"
OncePerTtl ==
    [][\A t \in Tasks : StartsValidation(t) =>
         ~(Live(entry[key[t]]) /\ entry[key[t]].validated)]_vars

\* The last instant at which the policy of k was v.
LastHeld(k, v) == IF policy[k] = v THEN now ELSE changed[k]

\* A decision returned to a request was the policy's less than the ttl plus
\* the publication lag ago, even when it was read before an invalidation,
\* checked after it, or put after a newer one.
Serves(t, v) ==
    pc[t] \notin {"idle", "insert"} /\ pc'[t] = "idle"
    /\ outcome'[t] = Verdict(v)
BoundedStaleness ==
    [][\A t \in Tasks : \A v \in BOOLEAN : Serves(t, v) =>
         /\ LastHeld(key[t], v) # Never
         /\ now < LastHeld(key[t], v) + EffectiveTtl(key[t]) + AnswerLag]_vars

\* A task that waits for a key's mutex can always be let in: at the head of the
\* queue is a task of that key that is inside, or is next and may enter.  No
\* return, whatever its path, leaves the mutex to a task that is gone
\* (validator.rs:86-118).
NobodyStranded ==
    \A t \in Tasks : pc[t] = "wait" =>
        \E u \in Tasks : /\ key[u] = key[t]
                        /\ HoldsLock(u)
                        /\ pc[u] \in Critical \cup {"wait"}

\* Every call returns: a failing validator or a hit under the mutex never
\* leaves the tasks queued on the key waiting for ever.
EveryCallReturns == \A t \in Tasks : pc[t] # "idle" ~> pc[t] = "idle"

\* lib.rs:895-898: "Set ttl to u64::MAX in the bucket config to opt out of
\* expiry".  With such a ttl a request still gets an answer.
OptOutOfExpiry ==
    \A t \in Tasks : Ttl[key[t]] > InstantMax => outcome[t] # "panic"
================================================================================
