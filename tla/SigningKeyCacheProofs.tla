------------------------- MODULE SigningKeyCacheProofs -------------------------
(***************************************************************************)
(* Proofs about the cache of signing keys, for any threads, arguments and  *)
(* division into shards.  The lemmas are about the operations by           *)
(* themselves, so that a specification that calls signing_key can cite     *)
(* them.                                                                   *)
(***************************************************************************)
EXTENDS SigningKeyCache, FiniteSetTheorems, TLAPS

\* The variables that are indexed by workers and by cache keys are so for good.
Domains ==
    /\ DOMAIN pc = Workers /\ DOMAIN asked = Workers
    /\ DOMAIN unswept = Workers /\ DOMAIN result = Workers
    /\ DOMAIN insertedBy = DOMAIN cache

\* Whatever is in the cache is what its key stands for, whoever put it there.
CachedIsDerived == \A k \in DOMAIN cache : cache[k] = Derive(k)

KeyInv == Domains /\ CachedIsDerived /\ ReturnedIsDerived

\* The cache key loses nothing that the derived key depends on.
LEMMA CacheKeyDerives == \A a : Derive(CacheKey(a)) = Derive(a)
  BY DEF Derive, CacheKey

LEMMA KeyInit == CacheInit => KeyInv
  BY DEF CacheInit, KeyInv, Domains, CachedIsDerived, ReturnedIsDerived

\* The arguments of a call may be anything.
LEMMA KeyCall ==
  ASSUME KeyInv, NEW w \in Workers, NEW a, Call(w, a)
  PROVE  KeyInv'
  BY DEF KeyInv, Domains, CachedIsDerived, ReturnedIsDerived, Call

LEMMA KeyReturn ==
  ASSUME KeyInv, NEW w \in Workers, Return(w)
  PROVE  KeyInv'
  BY DEF KeyInv, Domains, CachedIsDerived, ReturnedIsDerived, Return

LEMMA KeyDerivation ==
  ASSUME KeyInv, NEW w \in Workers, Derivation(w)
  PROVE  KeyInv'
  <1> USE DEF KeyInv, Domains, CachedIsDerived, ReturnedIsDerived
  <1>1. CASE Get(w)
    BY <1>1, CacheKeyDerives DEF Get
  <1>2. CASE Retain(w)
    BY <1>2 DEF Retain
  <1>3. CASE Insert(w)
    BY <1>3, CacheKeyDerives DEF Insert
  <1> QED BY <1>1, <1>2, <1>3 DEF Derivation

LEMMA KeyStutter ==
  ASSUME KeyInv, UNCHANGED cacheVars
  PROVE  KeyInv'
  BY DEF KeyInv, Domains, CachedIsDerived, ReturnedIsDerived, cacheVars

\* A call returns the key of its own arguments, whatever other threads insert
\* and evict meanwhile (signer.rs:463-503).
THEOREM ReturnedIsDerivedHolds == CacheSpec => []ReturnedIsDerived
  <1>1. KeyInv /\ [CacheNext]_cacheVars => KeyInv'
    BY KeyCall, KeyReturn, KeyDerivation, KeyStutter DEF CacheNext
  <1>2. KeyInv => ReturnedIsDerived
    BY DEF KeyInv
  <1> QED BY KeyInit, <1>1, <1>2, PTL DEF CacheSpec

--------------------------------------------------------------------------------
(* Type correctness                                                        *)

\* A call under way has its arguments.
InCall == \A w \in Workers : pc[w] # "idle" => asked[w] \in Args

TypeInv == CacheTypeOK /\ InCall

LEMMA DeriveType == \A a \in Args : Derive(a) \in DerivedKeys
  BY DEF DerivedKeys

LEMMA CacheKeyType == \A a \in Args : CacheKey(a) = a
  BY DEF CacheKey, Args

LEMMA TypeInit == CacheInit => TypeInv
  BY DEF CacheInit, TypeInv, CacheTypeOK, InCall

LEMMA TypeStep == TypeInv /\ [CacheNext]_cacheVars => TypeInv'
  <1> SUFFICES ASSUME TypeInv, [CacheNext]_cacheVars PROVE TypeInv'
    OBVIOUS
  <1> USE DEF TypeInv, CacheTypeOK, InCall
  <1>1. ASSUME NEW w \in Workers, NEW a \in Args, Call(w, a) PROVE TypeInv'
    BY <1>1 DEF Call
  <1>2. ASSUME NEW w \in Workers, Get(w) PROVE TypeInv'
    BY <1>2 DEF Get
  <1>3. ASSUME NEW w \in Workers, Retain(w) PROVE TypeInv'
    <2>1. PICK s \in unswept[w] :
            LET kept == {k \in DOMAIN cache : ShardOf[k] = s => k.day = asked[w].day} IN
              /\ cache' = [k \in kept |-> cache[k]]
              /\ insertedBy' = [k \in kept |-> insertedBy[k]]
              /\ unswept' = [unswept EXCEPT ![w] = @ \ {s}]
      BY <1>3 DEF Retain
    <2>2. /\ DOMAIN cache' \subseteq Args
          /\ cache' \in [DOMAIN cache' -> DerivedKeys]
          /\ insertedBy' \in [DOMAIN cache' -> Workers]
      BY <2>1
    <2> QED BY <1>3, <2>1, <2>2 DEF Retain
  <1>4. ASSUME NEW w \in Workers, Insert(w) PROVE TypeInv'
    BY <1>4, DeriveType, CacheKeyType DEF Insert
  <1>5. ASSUME NEW w \in Workers, Return(w) PROVE TypeInv'
    BY <1>5 DEF Return
  <1>6. CASE UNCHANGED cacheVars
    BY <1>6 DEF cacheVars
  <1> QED BY <1>1, <1>2, <1>3, <1>4, <1>5, <1>6 DEF CacheNext, Derivation

\* Every variable of the cache keeps its type.
THEOREM CacheTypeCorrect == CacheSpec => []CacheTypeOK
  <1>1. TypeInv => CacheTypeOK
    BY DEF TypeInv
  <1> QED BY TypeInit, TypeStep, <1>1, PTL DEF CacheSpec

--------------------------------------------------------------------------------
(* DaysBounded                                                             *)

\* What one worker inserted last is of one day.
OneDayEach ==
    \A k, l \in DOMAIN cache : insertedBy[k] = insertedBy[l] => k.day = l.day

\* In the shards a worker's retain has been to, what the worker inserted before
\* is of the day it retains; others may have filled them again.
OwnSwept ==
    \A w \in Workers : pc[w] \in {"retain", "insert"} =>
        \A k \in DOMAIN cache :
            insertedBy[k] = w /\ ShardOf[k] \notin unswept[w] => k.day = asked[w].day

\* Insert comes when retain has been everywhere.
SweptAll == \A w \in Workers : pc[w] = "insert" => unswept[w] = {}

DayInv == OneDayEach /\ OwnSwept /\ SweptAll

LEMMA DayInit == CacheInit => DayInv
  BY DEF CacheInit, DayInv, OneDayEach, OwnSwept, SweptAll

LEMMA DayStep == TypeInv /\ DayInv /\ [CacheNext]_cacheVars => DayInv'
  <1> SUFFICES ASSUME TypeInv, DayInv, [CacheNext]_cacheVars PROVE DayInv'
    OBVIOUS
  <1> USE DEF TypeInv, CacheTypeOK, InCall, DayInv, OneDayEach, OwnSwept, SweptAll
  <1>1. ASSUME NEW w \in Workers, NEW a \in Args, Call(w, a) PROVE DayInv'
    BY <1>1 DEF Call
  <1>2. ASSUME NEW w \in Workers, Get(w) PROVE DayInv'
    <2>1. \A k \in DOMAIN cache : ShardOf[k] \in Shards
      BY KeyCacheAssumption
    <2> QED BY <1>2, <2>1 DEF Get
  <1>3. ASSUME NEW w \in Workers, Retain(w) PROVE DayInv'
    <2>1. PICK s \in unswept[w] :
            LET kept == {k \in DOMAIN cache : ShardOf[k] = s => k.day = asked[w].day} IN
              /\ cache' = [k \in kept |-> cache[k]]
              /\ insertedBy' = [k \in kept |-> insertedBy[k]]
              /\ unswept' = [unswept EXCEPT ![w] = @ \ {s}]
      BY <1>3 DEF Retain
    <2>2. \A k \in DOMAIN cache' :
            /\ k \in DOMAIN cache /\ insertedBy'[k] = insertedBy[k]
            /\ ShardOf[k] = s => k.day = asked[w].day
      BY <2>1
    <2>3. OneDayEach' BY <2>2
    <2>4. OwnSwept' BY <1>3, <2>1, <2>2 DEF Retain
    <2>5. SweptAll' BY <1>3, <2>1 DEF Retain
    <2> QED BY <2>3, <2>4, <2>5
  <1>4. ASSUME NEW w \in Workers, Insert(w) PROVE DayInv'
    <2> DEFINE key == CacheKey(asked[w])
    <2>1. key = asked[w] /\ asked[w] \in Args
      BY <1>4, CacheKeyType DEF Insert
    <2>2. /\ DOMAIN cache' = DOMAIN cache \cup {key}
          /\ insertedBy' = [k \in DOMAIN cache \cup {key} |->
                              IF k = key THEN w ELSE insertedBy[k]]
      BY <1>4 DEF Insert
    <2>3. \A k \in DOMAIN cache : insertedBy[k] = w => k.day = asked[w].day
      BY <1>4 DEF Insert
    <2>4. \A k \in DOMAIN cache' : insertedBy'[k] = w => k.day = asked[w].day
      BY <2>1, <2>2, <2>3
    <2>5. \A k \in DOMAIN cache' : insertedBy'[k] # w =>
              k \in DOMAIN cache /\ insertedBy'[k] = insertedBy[k]
      BY <2>2
    <2>6. OneDayEach' BY <2>4, <2>5
    <2>7. OwnSwept' /\ SweptAll' BY <1>4, <2>5 DEF Insert
    <2> QED BY <2>6, <2>7
  <1>5. ASSUME NEW w \in Workers, Return(w) PROVE DayInv'
    BY <1>5 DEF Return
  <1>6. CASE UNCHANGED cacheVars
    BY <1>6 DEF cacheVars
  <1> QED BY <1>1, <1>2, <1>3, <1>4, <1>5, <1>6 DEF CacheNext, Derivation

\* Days go to the worker that inserted one of their keys, no two to the same.
LEMMA DaysToWorkers == TypeInv /\ OneDayEach => DaysBounded
  <1> SUFFICES ASSUME TypeInv, OneDayEach PROVE DaysBounded
    OBVIOUS
  <1> DEFINE days == {k.day : k \in DOMAIN cache}
             keyOf(d) == CHOOSE k \in DOMAIN cache : k.day = d
             worker == [d \in days |-> insertedBy[keyOf(d)]]
  <1>1. \A d \in days : keyOf(d) \in DOMAIN cache /\ keyOf(d).day = d
    OBVIOUS
  <1>2. worker \in [days -> Workers]
    BY <1>1 DEF TypeInv, CacheTypeOK
  <1>3. \A d, e \in days : worker[d] = worker[e] => d = e
    BY <1>1 DEF OneDayEach
  <1>4. worker \in Injection(days, Workers)
    BY <1>2, <1>3 DEF Injection, IsInjective
  <1>5. Cardinality(days) <= Cardinality(Workers)
    BY <1>4, KeyCacheAssumption, FS_Injection
  <1> QED BY <1>5 DEF DaysBounded

\* Keys of no more days than there are threads are ever cached (signer.rs:496-500).
THEOREM DaysBoundedHolds == CacheSpec => []DaysBounded
  <1>1. TypeInv /\ DayInv => DaysBounded
    BY DaysToWorkers DEF DayInv
  <1> QED BY TypeInit, TypeStep, DayInit, DayStep, <1>1, PTL DEF CacheSpec
================================================================================
