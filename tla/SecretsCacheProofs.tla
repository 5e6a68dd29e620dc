--------------------------- MODULE SecretsCacheProofs --------------------------
(***************************************************************************)
(* Theorems of SecretsCache: for any number of requests, buckets and API   *)
(* keys, and whatever lives IAM gives its tokens.                          *)
(***************************************************************************)
EXTENDS SecretsCache, TLAPS

LEMMA NoTokenDistinct == \A e \in SecretValue : e # NoToken
  BY DEF SecretValue, NoToken

--------------------------------------------------------------------------------
(* Types                                                                   *)

LEMMA TypeInit == Init => TypeOK
  BY SecretsAssumption DEF Init, TypeOK, PCs

LEMMA TypeTask ==
  ASSUME TypeOK, NEW t \in Tasks, Step(t)
  PROVE  TypeOK'
  <1> USE NoTokenDistinct DEF TypeOK, PCs, Goto, envVars
  <1>1. CASE Read(t) BY <1>1 DEF Read
  <1>2. CASE Check(t) BY <1>2 DEF Check
  <1>3. CASE Issue(t)
    <2>1. PICK life \in MinLifetime..MaxLifetime :
            secret' = [secret EXCEPT ![t] =
              [api_key |-> api_key[t], issued |-> now, expiration |-> now + life]]
      BY <1>3 DEF Issue
    <2>2. [api_key |-> api_key[t], issued |-> now, expiration |-> now + life]
            \in SecretValue
      BY SecretsAssumption DEF SecretValue
    <2> QED BY <1>3, <2>1, <2>2 DEF Issue
  <1>4. CASE Fail(t) BY <1>4 DEF Fail
  <1>5. CASE Store(t) BY <1>5 DEF Store
  <1> QED BY <1>1, <1>2, <1>3, <1>4, <1>5 DEF Step

LEMMA TypeStep == TypeOK /\ [Next]_vars => TypeOK'
  <1> SUFFICES ASSUME TypeOK, [Next]_vars PROVE TypeOK'
    OBVIOUS
  <1> USE DEF TypeOK, PCs, Goto, envVars
  <1>1. ASSUME NEW t \in Tasks, NEW b \in Buckets, Get(t, b) PROVE TypeOK'
    BY <1>1 DEF Get
  <1>2. ASSUME NEW b \in Buckets, Invalidate(b) PROVE TypeOK'
    BY <1>2 DEF Invalidate
  <1>3. ASSUME NEW b \in Buckets, NEW k \in ApiKeys, ChangeKey(b, k) PROVE TypeOK'
    BY <1>3 DEF ChangeKey
  <1>4. CASE Tick
    <2>1. now' \in 0..MaxTime /\ 0..now \subseteq 0..now'
      BY <1>4, SecretsAssumption DEF Tick
    <2> QED BY <1>4, <2>1 DEF Tick
  <1>5. CASE UNCHANGED vars BY <1>5 DEF vars
  <1> HIDE DEF TypeOK, PCs, Goto, envVars
  <1> QED BY <1>1, <1>2, <1>3, <1>4, <1>5, TypeTask DEF Next

\* Every variable keeps its type, and no request stores a token it was not
\* given: a refusal of IAM never reaches the cache (secrets_proxy.rs:102-128).
THEOREM TypeCorrect == Spec => []TypeOK
  BY TypeInit, TypeStep, PTL DEF Spec

--------------------------------------------------------------------------------
(* What is known of a call under way, and of a token                       *)

\* A call of t is young, its API key was its bucket's when it began, and what
\* it is about to store was issued to it since.
Young(t) ==
    /\ pc[t] # "idle" =>
         /\ began[t] <= now /\ now <= began[t] + AnswerLag
         /\ began[t] <= LastHeld(bucket[t], api_key[t])
    /\ pc[t] = "store" =>
         began[t] <= secret[t].issued /\ secret[t].api_key = api_key[t]

\* A token of bucket b has the life IAM gives, and was issued to an API key
\* that was b's until the time of one call before that, or longer.
Genuine(b, e) ==
    /\ e.issued <= now
    /\ e.issued + MinLifetime <= e.expiration
    /\ e.expiration <= e.issued + MaxLifetime
    /\ LastHeld(b, e.api_key) # Never
    /\ e.issued <= LastHeld(b, e.api_key) + AnswerLag

TokenInv ==
    /\ \A t \in Tasks : Young(t)
    /\ \A b \in Buckets : inner[b] # NoToken => Genuine(b, inner[b])
    /\ \A t \in Tasks : secret[t] # NoToken => Genuine(bucket[t], secret[t])

\* What a step does to the clock and to the API keys.
EnvMoves ==
    \/ Tick
    \/ \E b \in Buckets, k \in ApiKeys : ChangeKey(b, k)
    \/ UNCHANGED envVars

LEMMA EnvStep == ASSUME [Next]_vars PROVE EnvMoves
  <1>1. ASSUME NEW t \in Tasks, Step(t) PROVE UNCHANGED envVars
    BY <1>1 DEF Step, Read, Check, Issue, Fail, Store
  <1>2. ASSUME NEW t \in Tasks, NEW b \in Buckets, Get(t, b) PROVE UNCHANGED envVars
    BY <1>2 DEF Get
  <1>3. ASSUME NEW b \in Buckets, Invalidate(b) PROVE UNCHANGED envVars
    BY <1>3 DEF Invalidate
  <1>4. CASE UNCHANGED vars BY <1>4 DEF vars, envVars, EnvMoves
  <1> QED BY <1>1, <1>2, <1>3, <1>4 DEF Next, EnvMoves

LEMMA LastHeldType ==
  ASSUME TypeOK, NEW b \in Buckets, NEW k \in ApiKeys
  PROVE  LastHeld(b, k) \in Int /\ LastHeld(b, k) >= Never
  <1>1. now \in Nat BY DEF TypeOK
  <1>2. left[b][k] \in 0..now \cup {Never} BY DEF TypeOK
  <1>3. left[b][k] \in Int /\ left[b][k] >= Never
    BY <1>1, <1>2 DEF Never
  <1>4. now \in Int /\ now >= Never
    BY <1>1 DEF Never
  <1> QED BY <1>3, <1>4 DEF LastHeld

\* The instant at which a key was last a bucket's never moves back.
LEMMA LastHeldGrows ==
  ASSUME TypeOK, EnvMoves, NEW b \in Buckets, NEW k \in ApiKeys
  PROVE  LastHeld(b, k)' >= LastHeld(b, k) /\ now' >= now
  <1> USE SecretsAssumption DEF TypeOK, LastHeld, Never
  <1>1. CASE Tick BY <1>1 DEF Tick
  <1>2. ASSUME NEW c \in Buckets, NEW j \in ApiKeys, ChangeKey(c, j)
        PROVE  LastHeld(b, k)' >= LastHeld(b, k) /\ now' >= now
    <2>1. now' = now /\ now \in Nat
      BY <1>2 DEF ChangeKey
    <2>2. CASE c = b
      <3>1. left'[b] = [left[b] EXCEPT ![keyOf[b]] = now] /\ keyOf'[b] = j
        BY <1>2, <2>2 DEF ChangeKey
      <3>2. left[b][k] \in 0..now \cup {Never}
        OBVIOUS
      <3>3. left'[b][k] = IF k = keyOf[b] THEN now ELSE left[b][k]
        BY <3>1
      <3> HIDE DEF TypeOK
      <3>4. CASE k = keyOf[b] BY <2>1, <3>1, <3>3, <3>4
      <3>5. CASE k # keyOf[b] BY <2>1, <3>1, <3>2, <3>3, <3>5
      <3> QED BY <3>4, <3>5
    <2>3. CASE c # b BY <1>2, <2>1, <2>3 DEF ChangeKey
    <2> QED BY <2>2, <2>3
  <1>3. CASE UNCHANGED envVars BY <1>3 DEF envVars
  <1> QED BY <1>1, <1>2, <1>3 DEF EnvMoves

\* So a genuine token stays one.
LEMMA GenuineKept ==
  ASSUME TypeOK, TypeOK', EnvMoves, NEW b \in Buckets, NEW e \in SecretValue, Genuine(b, e)
  PROVE  Genuine(b, e)'
  <1>1. e.api_key \in ApiKeys /\ e.issued \in Nat /\ now \in Nat /\ now' \in Nat
    BY DEF SecretValue, TypeOK
  <1>2. /\ LastHeld(b, e.api_key) \in Int /\ LastHeld(b, e.api_key) >= Never
        /\ LastHeld(b, e.api_key)' \in Int
    BY <1>1, LastHeldType, SecretsAssumption DEF LastHeld, TypeOK, Never
  <1>3. LastHeld(b, e.api_key)' >= LastHeld(b, e.api_key) /\ now' >= now
    BY <1>1, LastHeldGrows
  <1> QED BY <1>1, <1>2, <1>3, SecretsAssumption DEF Genuine, Never

--------------------------------------------------------------------------------
(* Each part of TokenInv is kept                                           *)

\* A cached token was cached before, or was in the hand of who stores it.
LEMMA CachedStep ==
  ASSUME TypeOK, TokenInv, [Next]_vars, NEW b \in Buckets, inner'[b] # NoToken
  PROVE  Genuine(b, inner'[b])
  <1> USE DEF TypeOK, TokenInv
  <1>1. ASSUME NEW t \in Tasks, Store(t) PROVE Genuine(b, inner'[b])
    BY <1>1 DEF Store
  <1>2. ASSUME NEW t \in Tasks, Read(t) \/ Check(t) \/ Issue(t) \/ Fail(t)
        PROVE  Genuine(b, inner'[b])
    BY <1>2 DEF Read, Check, Issue, Fail
  <1>3. ASSUME NEW t \in Tasks, NEW c \in Buckets, Get(t, c)
        PROVE  Genuine(b, inner'[b])
    BY <1>3 DEF Get
  <1>4. ASSUME NEW c \in Buckets, Invalidate(c) PROVE Genuine(b, inner'[b])
    BY <1>4 DEF Invalidate
  <1>5. ASSUME NEW c \in Buckets, NEW k \in ApiKeys, ChangeKey(c, k)
        PROVE  Genuine(b, inner'[b])
    BY <1>5 DEF ChangeKey
  <1>6. CASE Tick \/ UNCHANGED vars BY <1>6 DEF Tick, vars
  <1> QED BY <1>1, <1>2, <1>3, <1>4, <1>5, <1>6 DEF Next, Step

\* A token in hand was there before, comes from the cache, or is issued now.
LEMMA HandStep ==
  ASSUME TypeOK, TokenInv, [Next]_vars, NEW t \in Tasks, secret'[t] # NoToken
  PROVE  Genuine(bucket'[t], secret'[t])
  <1> USE DEF TypeOK, TokenInv
  <1>1. ASSUME NEW u \in Tasks, Read(u) PROVE Genuine(bucket'[t], secret'[t])
    BY <1>1 DEF Read
  <1>2. ASSUME NEW u \in Tasks, Issue(u) PROVE Genuine(bucket'[t], secret'[t])
    <2>1. PICK life \in MinLifetime..MaxLifetime :
            secret' = [secret EXCEPT ![u] =
              [api_key |-> api_key[u], issued |-> now, expiration |-> now + life]]
      BY <1>2 DEF Issue
    <2>2. bucket' = bucket BY <1>2 DEF Issue
    <2>3. CASE t = u
      <3> DEFINE held == LastHeld(bucket[u], api_key[u])
      <3>1. /\ began[u] \in Nat /\ now \in Nat
            /\ held \in Int
        BY SecretsAssumption, LastHeldType
      <3>2. began[u] <= held /\ now <= began[u] + AnswerLag
        BY <1>2 DEF Issue, Young
      <3>3. held # Never /\ now <= held + AnswerLag
        <4> HIDE DEF held
        <4> QED BY <3>1, <3>2, SecretsAssumption DEF Never
      <3>4. secret'[t] = [api_key |-> api_key[u], issued |-> now,
                          expiration |-> now + life]
        BY <2>1, <2>3
      <3> QED BY <2>2, <2>3, <3>1, <3>3, <3>4, SecretsAssumption DEF Genuine
    <2>4. CASE t # u BY <2>1, <2>2, <2>4
    <2> QED BY <2>3, <2>4
  <1>3. ASSUME NEW u \in Tasks, Check(u) \/ Fail(u) \/ Store(u)
        PROVE  Genuine(bucket'[t], secret'[t])
    BY <1>3 DEF Check, Fail, Store
  <1>4. ASSUME NEW u \in Tasks, NEW b \in Buckets, Get(u, b)
        PROVE  Genuine(bucket'[t], secret'[t])
    BY <1>4 DEF Get
  <1>5. ASSUME NEW b \in Buckets, NEW k \in ApiKeys, ChangeKey(b, k)
        PROVE  Genuine(bucket'[t], secret'[t])
    BY <1>5 DEF ChangeKey
  <1>6. ASSUME NEW b \in Buckets, Invalidate(b) PROVE Genuine(bucket'[t], secret'[t])
    BY <1>6 DEF Invalidate
  <1>7. CASE Tick \/ UNCHANGED vars BY <1>7 DEF Tick, vars
  <1> QED BY <1>1, <1>2, <1>3, <1>4, <1>5, <1>6, <1>7 DEF Next, Step

\* A call that has not ended is as young as before, or begins now.
LEMMA YoungStep ==
  ASSUME TypeOK, TokenInv, [Next]_vars, NEW t \in Tasks
  PROVE  Young(t)'
  <1> USE SecretsAssumption DEF TypeOK, TokenInv
  <1>1. ASSUME NEW u \in Tasks, Step(u) PROVE Young(t)'
    <2>1. /\ now' = now /\ began' = began /\ bucket' = bucket
          /\ api_key' = api_key /\ keyOf' = keyOf /\ left' = left
          /\ pc[u] # "idle" /\ (t # u => pc'[t] = pc[t] /\ secret'[t] = secret[t])
          /\ (pc'[u] = "store" => secret'[u].issued = now /\ secret'[u].api_key = api_key[u])
      <3>1. CASE Read(u) BY <3>1 DEF Read, Goto, envVars
      <3>2. CASE Check(u) BY <3>2 DEF Check, Goto, envVars
      <3>3. CASE Issue(u) BY <3>3 DEF Issue, Goto, envVars
      <3>4. CASE Fail(u) BY <3>4 DEF Fail, Goto, envVars
      <3>5. CASE Store(u) BY <3>5 DEF Store, Goto, envVars
      <3> QED BY <1>1, <3>1, <3>2, <3>3, <3>4, <3>5 DEF Step
    <2>2. LastHeld(bucket[t], api_key[t])' = LastHeld(bucket[t], api_key[t])
      BY <2>1 DEF LastHeld
    <2> QED BY <2>1, <2>2 DEF Young
  <1>2. ASSUME NEW u \in Tasks, NEW b \in Buckets, Get(u, b) PROVE Young(t)'
    <2>1. CASE t = u
      BY <1>2, <2>1 DEF Get, Goto, Young, LastHeld, envVars
    <2>2. CASE t # u
      BY <1>2, <2>2 DEF Get, Goto, Young, LastHeld, envVars
    <2> QED BY <2>1, <2>2
  <1>3. ASSUME NEW b \in Buckets, Invalidate(b) PROVE Young(t)'
    BY <1>3 DEF Invalidate, Young, LastHeld, envVars
  <1>4. CASE Tick \/ \E b \in Buckets, k \in ApiKeys : ChangeKey(b, k)
    <2>1. /\ pc' = pc /\ began' = began /\ secret' = secret
          /\ bucket' = bucket /\ api_key' = api_key
      BY <1>4 DEF Tick, ChangeKey
    <2>2. LastHeld(bucket[t], api_key[t])' >= LastHeld(bucket[t], api_key[t])
      BY <1>4, <2>1, LastHeldGrows DEF EnvMoves, LastHeld
    <2>3. /\ LastHeld(bucket[t], api_key[t]) \in Int
          /\ LastHeld(bucket[t], api_key[t])' \in Int
      BY <2>1, TypeStep, LastHeldType DEF LastHeld, Never
    <2>4. pc[t] # "idle" => now' >= now /\ now' <= began[t] + AnswerLag
      BY <1>4 DEF Tick, ChangeKey, Young
    <2>5. began[t] \in Nat /\ now \in Nat /\ now' \in Nat
      BY <1>4 DEF Tick, ChangeKey
    <2> HIDE DEF TypeOK, TokenInv
    <2>6. Young(t) BY DEF TokenInv
    <2> QED BY <2>1, <2>2, <2>3, <2>4, <2>5, <2>6 DEF Young
  <1>5. CASE UNCHANGED vars BY <1>5 DEF vars, Young, LastHeld
  <1> QED BY <1>1, <1>2, <1>3, <1>4, <1>5 DEF Next

LEMMA TokenStep == TypeOK /\ TokenInv /\ [Next]_vars => TokenInv'
  <1> SUFFICES ASSUME TypeOK, TokenInv, [Next]_vars PROVE TokenInv'
    OBVIOUS
  <1>0. TypeOK' BY TypeStep
  <1>1. ASSUME NEW t \in Tasks PROVE Young(t)'
    BY YoungStep
  <1>2. ASSUME NEW b \in Buckets, inner'[b] # NoToken PROVE Genuine(b, inner[b])'
    <2>1. PICK e \in SecretValue : e = inner'[b] BY <1>0, <1>2 DEF TypeOK
    <2>2. Genuine(b, e) BY <1>2, <2>1, CachedStep
    <2>3. Genuine(b, e)' BY <1>0, <2>2, EnvStep, GenuineKept
    <2> QED BY <2>1, <2>3 DEF Genuine, LastHeld
  <1>3. ASSUME NEW t \in Tasks, secret'[t] # NoToken
        PROVE  Genuine(bucket[t], secret[t])'
    <2>1. PICK e \in SecretValue : e = secret'[t] BY <1>0, <1>3 DEF TypeOK
    <2>2. PICK b \in Buckets : b = bucket'[t] BY <1>0 DEF TypeOK
    <2>3. Genuine(b, e) BY <1>3, <2>1, <2>2, HandStep
    <2>4. Genuine(b, e)' BY <1>0, <2>3, EnvStep, GenuineKept
    <2> QED BY <2>1, <2>2, <2>4 DEF Genuine, LastHeld
  <1> QED BY <1>1, <1>2, <1>3 DEF TokenInv

LEMMA TokenInvariant == Spec => []TokenInv
  <1>1. Init => TokenInv BY DEF Init, TokenInv, Young
  <1> QED BY <1>1, TokenStep, TypeCorrect, PTL DEF Spec

--------------------------------------------------------------------------------
(* The properties                                                          *)

\* A token is returned from the cache, unexpired, or from IAM's answer.
LEMMA WhatIsServed ==
  ASSUME TypeOK, Next, NEW t \in Tasks, Serves(t)
  PROVE  /\ secret'[t] = secret[t] /\ secret[t] \in SecretValue
         /\ pc[t] = "store" \/ ~IsExpired(secret[t])
         /\ pc[t] # "idle"
  <1> USE DEF TypeOK, Serves, Goto
  <1>1. ASSUME NEW u \in Tasks, Check(u) \/ Store(u)
        PROVE  /\ secret' = secret
               /\ pc[t] = "store" \/ ~IsExpired(secret[t])
    BY <1>1 DEF Check, Store
  <1>2. ASSUME NEW u \in Tasks, Read(u) \/ Issue(u) \/ Fail(u) PROVE FALSE
    BY <1>2 DEF Read, Issue, Fail
  <1>3. ASSUME NEW u \in Tasks, NEW b \in Buckets, Get(u, b) PROVE FALSE
    BY <1>3 DEF Get
  <1>4. ASSUME NEW b \in Buckets, Invalidate(b) PROVE FALSE
    BY <1>4 DEF Invalidate
  <1>5. CASE Tick \/ \E b \in Buckets, k \in ApiKeys : ChangeKey(b, k)
    BY <1>5 DEF Tick, ChangeKey
  <1> QED BY <1>1, <1>2, <1>3, <1>4, <1>5 DEF Next, Step

\* The facts of arithmetic both theorems about served tokens rest on.
LEMMA ServedFacts ==
  ASSUME TypeOK, TokenInv, Next, NEW t \in Tasks, Serves(t)
  PROVE  LET e == secret'[t]
             held == LastHeld(bucket[t], e.api_key)
         IN  /\ now < e.expiration
             /\ held # Never
             /\ now < held + MaxLifetime - Buffer + AnswerLag
  <1> DEFINE e == secret[t]
             held == LastHeld(bucket[t], e.api_key)
  <1>1. secret'[t] = e /\ e \in SecretValue /\ pc[t] # "idle"
    BY WhatIsServed
  <1>2. /\ e.issued \in Nat /\ e.expiration \in Nat /\ e.api_key \in ApiKeys
        /\ now \in Nat /\ began[t] \in Nat /\ bucket[t] \in Buckets
    BY <1>1 DEF SecretValue, TypeOK
  <1>3. held \in Int BY <1>2, LastHeldType
  <1>4. /\ e.issued + MinLifetime <= e.expiration
        /\ e.expiration <= e.issued + MaxLifetime
        /\ held # Never /\ e.issued <= held + AnswerLag
    BY <1>1, NoTokenDistinct DEF TokenInv, Genuine
  <1>5. CASE pc[t] = "store"
    <2>1. /\ began[t] <= e.issued /\ now <= began[t] + AnswerLag
          /\ began[t] <= held
      BY <1>5 DEF TokenInv, Young
    <2> HIDE DEF e, held
    <2>2. now < e.expiration /\ now < held + MaxLifetime - Buffer + AnswerLag
      BY <1>2, <1>3, <1>4, <2>1, SecretsAssumption
    <2> QED BY <1>1, <1>4, <2>2 DEF held
  <1>6. CASE ~IsExpired(e)
    <2>1. now < e.expiration - Buffer
      BY <1>2, <1>6, SecretsAssumption DEF IsExpired
    <2> HIDE DEF e, held
    <2>2. now < e.expiration /\ now < held + MaxLifetime - Buffer + AnswerLag
      BY <1>2, <1>3, <1>4, <2>1, SecretsAssumption
    <2> QED BY <1>1, <1>4, <2>2 DEF held
  <1> QED BY <1>1, <1>5, <1>6, WhatIsServed

\* For any lives of tokens longer than a call takes, get returns none that has
\* come to its end, however renewals, refusals and evictions interleave
\* (secrets_proxy.rs:76-131).
THEOREM ServedAliveHolds == Spec => ServedAlive
  <1>1. TypeOK /\ TokenInv /\ [Next]_vars =>
          [\A t \in Tasks : Serves(t) => now < secret'[t].expiration]_vars
    BY ServedFacts
  <1> QED BY <1>1, TokenInvariant, TypeCorrect, PTL DEF Spec, ServedAlive

\* A token is never used much longer than a lifetime after its API key was
\* taken from the bucket, though the cache never hears of that
\* (secrets_proxy.rs:76-131, lib.rs:1255-1281).
THEOREM OwnApiKeyHolds == Spec => OwnApiKey
  <1>1. TypeOK /\ TokenInv /\ [Next]_vars =>
          [\A t \in Tasks : Serves(t) =>
             LET held == LastHeld(bucket[t], secret'[t].api_key) IN
             /\ held # Never
             /\ now < held + MaxLifetime - Buffer + AnswerLag]_vars
    BY ServedFacts
  <1> QED BY <1>1, TokenInvariant, TypeCorrect, PTL DEF Spec, OwnApiKey

\* The last of any number of renewals that cross wins, but all of them began
\* when the token they replace was issued, or later, but for the time of one
\* call (secrets_proxy.rs:69-74, 92-98).
THEOREM NeverMuchOlderHolds == Spec => NeverMuchOlder
  <1>1. TypeOK /\ TokenInv /\ [Next]_vars =>
          [\A b \in Buckets : inner[b] # NoToken /\ inner'[b] # NoToken =>
             inner'[b].issued >= inner[b].issued - AnswerLag]_vars
    <2> SUFFICES ASSUME TypeOK, TokenInv, Next, NEW b \in Buckets,
                        inner[b] # NoToken, inner'[b] # NoToken
                 PROVE  inner'[b].issued >= inner[b].issued - AnswerLag
      OBVIOUS
    <2>1. inner[b].issued \in Nat /\ inner[b].issued <= now /\ now \in Nat
      BY DEF TypeOK, TokenInv, Genuine, SecretValue
    <2>2. CASE inner'[b] = inner[b]
      BY <2>1, <2>2, SecretsAssumption
    <2>3. ASSUME NEW t \in Tasks, Store(t), bucket[t] = b
          PROVE  inner'[b].issued >= inner[b].issued - AnswerLag
      <3>1. inner'[b] = secret[t] /\ secret[t] \in SecretValue /\ pc[t] = "store"
        BY <2>3 DEF Store, TypeOK
      <3>2. began[t] <= secret[t].issued /\ now <= began[t] + AnswerLag
        BY <3>1 DEF TokenInv, Young
      <3>3. secret[t].issued \in Nat /\ began[t] \in Nat
        BY <3>1 DEF TypeOK, SecretValue
      <3>4. secret[t].issued >= inner[b].issued - AnswerLag
        BY <2>1, <3>2, <3>3, SecretsAssumption
      <3> QED BY <3>1, <3>4
    <2>4. inner'[b] = inner[b] \/ \E t \in Tasks : Store(t) /\ bucket[t] = b
      <3> USE DEF TypeOK
      <3>1. ASSUME NEW t \in Tasks, Read(t) \/ Check(t) \/ Issue(t) \/ Fail(t)
            PROVE  inner' = inner
        BY <3>1 DEF Read, Check, Issue, Fail
      <3>2. ASSUME NEW t \in Tasks, Store(t), bucket[t] # b
            PROVE  inner'[b] = inner[b]
        BY <3>2 DEF Store
      <3>3. ASSUME NEW t \in Tasks, NEW c \in Buckets, Get(t, c)
            PROVE  inner' = inner
        BY <3>3 DEF Get
      <3>4. ASSUME NEW c \in Buckets, Invalidate(c) PROVE inner'[b] = inner[b]
        BY <3>4 DEF Invalidate
      <3>5. CASE Tick \/ \E c \in Buckets, k \in ApiKeys : ChangeKey(c, k)
        BY <3>5 DEF Tick, ChangeKey
      <3> QED BY <3>1, <3>2, <3>3, <3>4, <3>5 DEF Next, Step
    <2> QED BY <2>2, <2>3, <2>4
  <1> QED BY <1>1, TokenInvariant, TypeCorrect, PTL DEF Spec, NeverMuchOlder
================================================================================
