------------------------------ MODULE SecretsCache -----------------------------
(***************************************************************************)
(* The cache of IAM bearer tokens (credentials/secrets_proxy.rs:13-138)    *)
(* as upstream_request_filter uses it (lib.rs:1255-1281): a map from bucket*)
(* to token behind a std RwLock, without any lock across the call of IAM.  *)
(*                                                                         *)
(* A task is a request that calls get.  A step of it is what it does under *)
(* one acquisition of the RwLock, or between two awaits.  Nothing panics   *)
(* with the lock held, so it is never poisoned.                            *)
(***************************************************************************)
EXTENDS Integers

CONSTANTS
    Tasks,         \* tasks of the tokio runtime that forward requests
    Buckets,       \* the keys of the cache
    ApiKeys,       \* IBM COS API keys
    Buffer,        \* 300 s in the code: how long before its end a token expires
    MinLifetime,   \* the shortest life of a token IAM issues
    MaxLifetime,   \* the longest, 3600 s as a rule
    AnswerLag,     \* bound on the time a call of get takes
    MaxTime        \* bound on the clock, for model checking only

ASSUME SecretsAssumption ==
    /\ Buffer \in Nat
    /\ MinLifetime \in Nat /\ MaxLifetime \in Nat
    /\ MinLifetime <= MaxLifetime
    /\ Buffer < MinLifetime
    /\ AnswerLag \in Nat /\ AnswerLag < MinLifetime
    /\ MaxTime \in Nat

VARIABLES
    now,       \* SystemTime::now(), in whole units
    inner,     \* inner[b]: the token cached for bucket b, or NoToken
    pc,        \* pc[t]: where task t is
    bucket,    \* bucket[t]: the bucket task t asks a token for
    api_key,   \* api_key[t]: the API key the closure bearer_fetcher holds
    secret,    \* secret[t]: the token t has read, was issued, or returned
    keyOf,     \* keyOf[b]: the API key of b in the bucket map
    began,     \* history: when the call of t began
    left       \* history: left[b][k] is when k stopped being the key of b

envVars == <<now, keyOf, left>>
vars == <<now, inner, pc, bucket, api_key, secret, keyOf, began, left>>

\* "api_key" and "issued" are history: whose token it is, and since when.
SecretValue == [api_key : ApiKeys, issued : Nat, expiration : Nat]
NoToken == [expiration |-> -1]
Never == -1

PCs == {"idle", "read", "check", "fetch", "store"}

Goto(t, label) == pc' = [pc EXCEPT ![t] = label]

\* Fault: the token is used up to its very end.
IsExpired_NoBuffer(token) == now >= token.expiration

\* is_expired, with its five minutes to spare.
IsExpired(token) == now >= token.expiration - Buffer

Init ==
    /\ now = 0
    /\ inner = [b \in Buckets |-> NoToken]
    /\ pc = [t \in Tasks |-> "idle"]
    /\ bucket \in [Tasks -> Buckets]
    /\ keyOf \in [Buckets -> ApiKeys]
    /\ api_key = [t \in Tasks |-> keyOf[bucket[t]]]
    /\ secret = [t \in Tasks |-> NoToken]
    /\ began = [t \in Tasks |-> 0]
    /\ left = [b \in Buckets |-> [k \in ApiKeys |-> Never]]

\* A request for bucket b takes the bucket's API key, and calls get.
Get(t, b) ==
    /\ pc[t] = "idle"
    /\ Goto(t, "read")
    /\ bucket' = [bucket EXCEPT ![t] = b]
    /\ api_key' = [api_key EXCEPT ![t] = keyOf[b]]
    /\ secret' = [secret EXCEPT ![t] = NoToken]
    /\ began' = [began EXCEPT ![t] = now]
    /\ UNCHANGED <<envVars, inner>>

\* map.get(key).cloned() under the read lock.
Read(t) ==
    /\ pc[t] = "read"
    /\ Goto(t, "check")
    /\ secret' = [secret EXCEPT ![t] = inner[bucket[t]]]
    /\ UNCHANGED <<envVars, inner, bucket, api_key, began>>

\* A token that has not expired is returned; otherwise IAM is asked.
Check(t) ==
    /\ pc[t] = "check"
    /\ Goto(t, IF secret[t] # NoToken /\ ~IsExpired(secret[t]) THEN "idle"
                                                              ELSE "fetch")
    /\ UNCHANGED <<envVars, inner, bucket, api_key, secret, began>>

\* IAM issues a token; its answer is still on the way.
Issue(t) ==
    /\ pc[t] = "fetch"
    /\ Goto(t, "store")
    /\ \E life \in MinLifetime..MaxLifetime :
         secret' = [secret EXCEPT ![t] =
                      [api_key |-> api_key[t], issued |-> now,
                       expiration |-> now + life]]
    /\ UNCHANGED <<envVars, inner, bucket, api_key, began>>

\* Fault: the token that was to be renewed is put back when that fails.
Fail_PutsBack(t) ==
    /\ pc[t] = "fetch"
    /\ Goto(t, "idle")
    /\ inner' = [inner EXCEPT ![bucket[t]] = secret[t]]
    /\ secret' = [secret EXCEPT ![t] = NoToken]
    /\ UNCHANGED <<envVars, bucket, api_key, began>>

\* Fault: a refusal is stored as though it were a token.
Fail_Stores(t) ==
    /\ pc[t] = "fetch"
    /\ Goto(t, "store")
    /\ secret' = [secret EXCEPT ![t] = NoToken]
    /\ UNCHANGED <<envVars, inner, bucket, api_key, began>>

\* IAM refuses, or cannot be reached: get returns None and leaves the cache.
Fail(t) ==
    /\ pc[t] = "fetch"
    /\ Goto(t, "idle")
    /\ secret' = [secret EXCEPT ![t] = NoToken]
    /\ UNCHANGED <<envVars, inner, bucket, api_key, began>>

\* Fault: the answer is not stored when a token has come in the meantime,
\* which get then returns without a look at its expiry.
Store_KeepsOther(t) ==
    /\ pc[t] = "store"
    /\ Goto(t, "idle")
    /\ inner' = [inner EXCEPT ![bucket[t]] = IF @ = NoToken THEN secret[t] ELSE @]
    /\ secret' = [secret EXCEPT ![t] = inner'[bucket[t]]]
    /\ UNCHANGED <<envVars, bucket, api_key, began>>

\* insert under the write lock, over whatever is there, and the token is
\* returned as it came.
Store(t) ==
    /\ pc[t] = "store"
    /\ Goto(t, "idle")
    /\ inner' = [inner EXCEPT ![bucket[t]] = secret[t]]
    /\ UNCHANGED <<envVars, bucket, api_key, secret, began>>

\* invalidate, at any time and by anyone.
Invalidate(b) ==
    /\ inner' = [inner EXCEPT ![b] = NoToken]
    /\ UNCHANGED <<envVars, pc, bucket, api_key, secret, began>>

--------------------------------------------------------------------------------
(* The environment: the clock, and the bucket map other requests write.    *)

\* AnswerLag: no call of get takes longer.
Tick ==
    /\ now < MaxTime
    /\ \A t \in Tasks : pc[t] # "idle" => now < began[t] + AnswerLag
    /\ now' = now + 1
    /\ UNCHANGED <<inner, pc, bucket, api_key, secret, keyOf, began, left>>

\* Requests that fetched the credentials of b side by side write them back one
\* after the other, and the fetcher need not have given all of them one key
\* (FetchCredentials and WriteBack of ProxyRequest); here this may happen at
\* any time.
ChangeKey(b, k) ==
    /\ k # keyOf[b]
    /\ keyOf' = [keyOf EXCEPT ![b] = k]
    /\ left' = [left EXCEPT ![b][keyOf[b]] = now]
    /\ UNCHANGED <<now, inner, pc, bucket, api_key, secret, began>>

Step(t) == Read(t) \/ Check(t) \/ Issue(t) \/ Fail(t) \/ Store(t)

Next ==
    \/ \E t \in Tasks : Step(t)
    \/ \E t \in Tasks, b \in Buckets : Get(t, b)
    \/ \E b \in Buckets : Invalidate(b)
    \/ \E b \in Buckets, k \in ApiKeys : ChangeKey(b, k)
    \/ Tick

Spec == Init /\ [][Next]_vars

--------------------------------------------------------------------------------
(* Properties                                                              *)

\* Types of the variables, and that whoever stores has a token.
TypeOK ==
    /\ now \in 0..MaxTime
    /\ inner \in [Buckets -> SecretValue \cup {NoToken}]
    /\ pc \in [Tasks -> PCs]
    /\ bucket \in [Tasks -> Buckets]
    /\ api_key \in [Tasks -> ApiKeys]
    /\ secret \in [Tasks -> SecretValue \cup {NoToken}]
    /\ keyOf \in [Buckets -> ApiKeys]
    /\ began \in [Tasks -> 0..now]
    /\ left \in [Buckets -> [ApiKeys -> 0..now \cup {Never}]]
    /\ \A t \in Tasks : pc[t] = "store" => secret[t] # NoToken

\* get returns a token to t.
Serves(t) == pc[t] # "idle" /\ pc'[t] = "idle" /\ secret'[t] # NoToken

\* Whoever renews, fails or is slow meanwhile: a token that get returns has not
\* come to its end (credentials/secrets_proxy.rs:34-41, 76-131).
ServedAlive == [][\A t \in Tasks : Serves(t) => now < secret'[t].expiration]_vars

\* The last instant at which k was the API key of b.
LastHeld(b, k) == IF keyOf[b] = k THEN now ELSE left[b][k]

\* The cache does not look at API keys: a token lives on when its bucket is
\* given another key.  But its key was the bucket's less than a lifetime, short
\* of the buffer, and the time of one call ago.
OwnApiKey ==
    [][\A t \in Tasks : Serves(t) =>
         LET held == LastHeld(bucket[t], secret'[t].api_key) IN
         /\ held # Never
         /\ now < held + MaxLifetime - Buffer + AnswerLag]_vars

\* Renewals that cross may leave the older token in the cache, but never one
\* that was issued more than the time of one call before the other.
NeverMuchOlder ==
    [][\A b \in Buckets :
         inner[b] # NoToken /\ inner'[b] # NoToken =>
           inner'[b].issued >= inner[b].issued - AnswerLag]_vars
================================================================================
