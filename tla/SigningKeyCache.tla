---------------------------- MODULE SigningKeyCache ----------------------------
(***************************************************************************)
(* The process-wide cache of derived SigV4 keys (signer.rs:39-48, 463-503).*)
(* signing_key has no await: a worker thread runs it to its end.  But get, *)
(* retain and insert are separate operations of a DashMap, and retain      *)
(* locks one shard at a time; other threads run in between.                *)
(***************************************************************************)
EXTENDS Naturals, FiniteSets

CONSTANTS
    Workers,                          \* threads that sign or verify
    Days, Regions, Services, Secrets, \* arguments of signing_key
    Shards,                           \* shards of the DashMap
    ShardOf                           \* ShardOf[a]: where the key of a is kept

\* The arguments of a call; of the time only the day matters.
Args == [day : Days, region : Regions, service : Services, secret : Secrets]

ASSUME KeyCacheAssumption ==
    /\ IsFiniteSet(Workers)
    /\ ShardOf \in [Args -> Shards]

\* The chain of four HMACs.  An HMAC is taken to be injective: a derived key
\* is known by what it was derived from.
Derive(a) == <<a.secret, a.day, a.region, a.service>>
DerivedKeys == {Derive(a) : a \in Args}
NoKey == <<>>
NoArgs == <<>>

\* Fault: the secret is not part of the cache key.
CacheKey_AnySecret(a) == [a EXCEPT !.secret = CHOOSE s \in Secrets : TRUE]

\* "{date}:{region}:{service}:{secret}".  The date has a fixed length and the
\* names have no colon, so the key gives the arguments back.
CacheKey(a) == [day |-> a.day, region |-> a.region, service |-> a.service,
                secret |-> a.secret]

VARIABLES
    cache,      \* from the cache keys there are to the derived keys kept there
    insertedBy, \* history: who inserted each of them last
    pc,         \* pc[w]: where worker w is in signing_key
    asked,      \* asked[w]: the arguments of w's call
    unswept,    \* unswept[w]: the shards w's retain has still to visit
    result      \* result[w]: what the call returns

cacheVars == <<cache, insertedBy, pc, asked, unswept, result>>

CacheInit ==
    /\ cache = [k \in {} |-> NoKey]
    /\ insertedBy = [k \in {} |-> NoKey]
    /\ pc = [w \in Workers |-> "idle"]
    /\ asked = [w \in Workers |-> NoArgs]
    /\ unswept = [w \in Workers |-> {}]
    /\ result = [w \in Workers |-> NoKey]

Call(w, a) ==
    /\ pc[w] = "idle"
    /\ asked' = [asked EXCEPT ![w] = a]
    /\ pc' = [pc EXCEPT ![w] = "get"]
    /\ UNCHANGED <<cache, insertedBy, unswept, result>>

\* A hit returns a clone; on a miss the key is derived, and retain begins.
Get(w) ==
    /\ pc[w] = "get"
    /\ LET k == CacheKey(asked[w]) IN
       \/ /\ k \in DOMAIN cache
          /\ result' = [result EXCEPT ![w] = cache[k]]
          /\ pc' = [pc EXCEPT ![w] = "returned"]
          /\ UNCHANGED unswept
       \/ /\ k \notin DOMAIN cache
          /\ unswept' = [unswept EXCEPT ![w] = Shards]
          /\ pc' = [pc EXCEPT ![w] = "retain"]
          /\ UNCHANGED result
    /\ UNCHANGED <<cache, insertedBy, asked>>

\* Fault: keys of other days are kept.
Retain_Everything(w) ==
    /\ pc[w] = "retain"
    /\ \E s \in unswept[w] : unswept' = [unswept EXCEPT ![w] = @ \ {s}]
    /\ pc' = [pc EXCEPT ![w] = IF unswept'[w] = {} THEN "insert" ELSE "retain"]
    /\ UNCHANGED <<cache, insertedBy, asked, result>>

\* retain drops from one shard after the other what another day's date begins.
Retain(w) ==
    /\ pc[w] = "retain"
    /\ \E s \in unswept[w] :
         LET kept == {k \in DOMAIN cache : ShardOf[k] = s => k.day = asked[w].day} IN
           /\ cache' = [k \in kept |-> cache[k]]
           /\ insertedBy' = [k \in kept |-> insertedBy[k]]
           /\ unswept' = [unswept EXCEPT ![w] = @ \ {s}]
    /\ pc' = [pc EXCEPT ![w] = IF unswept'[w] = {} THEN "insert" ELSE "retain"]
    /\ UNCHANGED <<asked, result>>

\* The derived key goes in, over whatever another worker inserted, and out.
Insert(w) ==
    /\ pc[w] = "insert"
    /\ LET key == CacheKey(asked[w])
           keys == DOMAIN cache \cup {key} IN
         /\ cache' = [k \in keys |-> IF k = key THEN Derive(asked[w]) ELSE cache[k]]
         /\ insertedBy' = [k \in keys |-> IF k = key THEN w ELSE insertedBy[k]]
    /\ result' = [result EXCEPT ![w] = Derive(asked[w])]
    /\ pc' = [pc EXCEPT ![w] = "returned"]
    /\ UNCHANGED <<asked, unswept>>

Return(w) ==
    /\ pc[w] = "returned"
    /\ pc' = [pc EXCEPT ![w] = "idle"]
    /\ UNCHANGED <<cache, insertedBy, asked, unswept, result>>

\* The steps inside signing_key.
Derivation(w) == Get(w) \/ Retain(w) \/ Insert(w)

CacheNext == \E w \in Workers :
    (\E a \in Args : Call(w, a)) \/ Derivation(w) \/ Return(w)

CacheSpec == CacheInit /\ [][CacheNext]_cacheVars

--------------------------------------------------------------------------------
(* Properties                                                              *)

CacheTypeOK ==
    /\ DOMAIN cache \subseteq Args
    /\ cache \in [DOMAIN cache -> DerivedKeys]
    /\ insertedBy \in [DOMAIN cache -> Workers]
    /\ pc \in [Workers -> {"idle", "get", "retain", "insert", "returned"}]
    /\ asked \in [Workers -> Args \cup {NoArgs}]
    /\ unswept \in [Workers -> SUBSET Shards]
    /\ result \in [Workers -> DerivedKeys \cup {NoKey}]

\* The cache cannot be told from deriving the key: whatever other threads
\* insert, overwrite and evict meanwhile, a call returns the key of its own
\* day, region, service and secret (signer.rs:463-503).
ReturnedIsDerived ==
    \A w \in Workers : pc[w] = "returned" => result[w] = Derive(asked[w])

\* Eviction keeps the cache small even when inserts cross the sweeps of others
\* and clients date their requests as they like: keys of no more days than
\* there are threads (signer.rs:496-500; the comment there counts on one).
DaysBounded ==
    Cardinality({k.day : k \in DOMAIN cache}) <= Cardinality(Workers)
================================================================================
