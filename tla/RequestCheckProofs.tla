--------------------------- MODULE RequestCheckProofs ---------------------------
(***************************************************************************)
(* Proofs about the check of a client's signature, for any number of       *)
(* requests, any clients and any clock: what passes was signed by the      *)
(* client and is untouched as far as the check sees, what the client       *)
(* signed passes if it can be rebuilt, and what goes on carries no second  *)
(* signature.                                                              *)
(***************************************************************************)
EXTENDS RequestSigningProofs

(* The invariant, one request at a time                                    *)

\* What arrived is what the client sent at some time, as it was altered.
Arrived(w) ==
    \E t \in 0..MaxClock :
        /\ original[w] = ClientRequest(shape[w], t)
        /\ request[w] = Altered(original[w], shape[w].altered)

FromClient(w) ==
    /\ stage[w] # "idle" => IsClientShape(shape[w])
    /\ stage[w] \notin {"idle", "client"} => Arrived(w)

\* A request whose signature is being checked is known for what it is, and has
\* asked for the key of the secret that goes with its access key.
AskedForItsKey(w) ==
    stage[w] = "verifying" =>
        /\ is_presigned[w] = InQuery(request[w])
        /\ IF InQuery(request[w])
             THEN asked[w] = PresignedKeyArgs(request[w], ClientSecret)
             ELSE /\ CanCheckHeader(request[w])
                  /\ asked[w] = HeaderKeyArgs(request[w], ClientSecret)

\* A request that has been let through.
Through == {"forward", "unsigned", "signing", "sent"}

\* Before its signature is looked at nothing counts as presigned, and behind it
\* a presigned URL is known for one.
KnownPresigned(w) ==
    /\ stage[w] \in {"client", "filter"} => ~is_presigned[w]
    /\ stage[w] \in Through /\ ToCheck(request[w]) => is_presigned[w] = InQuery(request[w])

Untouched(w) ==
    w \in verified =>
        /\ stage[w] \in Through
        /\ shape[w].own_secret
        /\ CoveredAsRead(request[w]) = Covered(original[w])

TurnedAway(w) ==
    /\ stage[w] \in {"rejected", "unreadable"}
    /\ shape[w].kind # "unsigned" /\ shape[w].own_secret
    /\ request[w] = original[w]
    => \/ InQuery(request[w]) /\ Expired(request[w], clock)
       \/ NotRebuilt(request[w])

\* Already when the upstream request waits for its key.
OneSignatureOn(w) ==
    stage[w] \in Onward =>
        /\ "query" \in DOMAIN upstream[w]
        /\ ToCheck(request[w]) => Names(upstream[w].query) \cap PresignParams = {}

RequestInv(w) ==
    /\ FromClient(w) /\ AskedForItsKey(w) /\ KnownPresigned(w)
    /\ Untouched(w) /\ TurnedAway(w) /\ OneSignatureOn(w)

\* The variables that are indexed by workers are so for good.
Indexed ==
    /\ DOMAIN stage = Workers /\ DOMAIN original = Workers
    /\ DOMAIN request = Workers /\ DOMAIN is_presigned = Workers
    /\ DOMAIN upstream = Workers
    /\ verified \subseteq Workers
    /\ clock \in 0..MaxClock

CheckInv == Indexed /\ \A w \in Workers : RequestInv(w)

--------------------------------------------------------------------------------
(* Queries                                                                 *)

\* A parameter that a query has once, so that its value is no matter of order.
Carries(q, name, value) ==
    \E i \in 1..Len(q) :
        /\ q[i].name = name /\ q[i].value = value
        /\ \A j \in 1..Len(q) : q[j].name = name => j = i

LEMMA CarriedValue ==
  ASSUME NEW S, NEW q \in Seq(S), NEW name, NEW value, Carries(q, name, value)
  PROVE  ValueOf(q, name) = value /\ name \in Names(q)
  <1>1. PICK i \in 1..Len(q) :
          /\ q[i].name = name /\ q[i].value = value
          /\ \A j \in 1..Len(q) : q[j].name = name => j = i
    BY DEF Carries
  <1>2. Len(q) \in Nat /\ DOMAIN q = 1..Len(q)
    BY LenProperties
  <1>3. {j \in 1..Len(q) : q[j].name = name} = {i}
    BY <1>1
  <1>4. Max({i}) = i
    <2>1. i \in Int BY <1>1, <1>2
    <2> QED BY <2>1 DEF Max
  <1>5. SelectLastInSeq(q, LAMBDA p : p.name = name) = i
    BY <1>3, <1>4 DEF SelectLastInSeq
  <1> QED BY <1>1, <1>2, <1>5 DEF ValueOf, Names

\* What a query has once it has once in any order, and with another parameter.
LEMMA CarriedInReverse ==
  ASSUME NEW S, NEW q \in Seq(S), NEW name, NEW value, Carries(q, name, value)
  PROVE  Carries(Reverse(q), name, value)
  <1> DEFINE r == Reverse(q)
             n == Len(q)
  <1>1. PICK i \in 1..Len(q) :
          /\ q[i].name = name /\ q[i].value = value
          /\ \A j \in 1..Len(q) : q[j].name = name => j = i
    BY DEF Carries
  <1>2. n \in Nat /\ \A j \in 1..n : q[j] \in S
    BY LenProperties, ElementOfSeq
  <1>3. r = [j \in 1..n |-> q[(n - j) + 1]]
    BY DEF Reverse
  <1>4. \A j \in 1..n : (n - j) + 1 \in 1..n
    BY <1>2
  <1>5. r \in Seq(S) /\ Len(r) = n
    <2> HIDE DEF n, r
    <2>1. r \in [1..n -> S] BY <1>2, <1>3, <1>4
    <2> QED BY <1>2, <2>1, SeqDef, LenProperties
  <1>6. (n - i) + 1 \in 1..n /\ r[(n - i) + 1] = q[i]
    <2>1. (n - ((n - i) + 1)) + 1 = i
      BY <1>1, <1>2
    <2> QED BY <1>1, <1>3, <1>4, <2>1
  <1>7. ASSUME NEW j \in 1..n, r[j].name = name PROVE j = (n - i) + 1
    <2>1. (n - j) + 1 = i
      BY <1>1, <1>3, <1>4, <1>7
    <2> QED BY <1>2, <2>1
  <1> QED BY <1>1, <1>5, <1>6, <1>7 DEF Carries

LEMMA CarriedBeside ==
  ASSUME NEW S, NEW q \in Seq(S), NEW name, NEW value, Carries(q, name, value),
         NEW p \in S, p.name # name
  PROVE  Carries(Append(q, p), name, value)
  <1>1. PICK i \in 1..Len(q) :
          /\ q[i].name = name /\ q[i].value = value
          /\ \A j \in 1..Len(q) : q[j].name = name => j = i
    BY DEF Carries
  <1>2. /\ Len(q) \in Nat /\ Len(Append(q, p)) = Len(q) + 1
        /\ \A j \in 1..Len(q) : Append(q, p)[j] = q[j]
        /\ Append(q, p)[Len(q) + 1] = p
    BY AppendProperties, LenProperties
  <1> QED BY <1>1, <1>2 DEF Carries

\* Neither gives a query a name it did not have, but for the added one.
LEMMA ReversedNames ==
  ASSUME NEW S, NEW q \in Seq(S)
  PROVE  Names(Reverse(q)) = Names(q)
  <1> DEFINE r == Reverse(q)
             n == Len(q)
  <1>1. n \in Nat /\ DOMAIN q = 1..n
    BY LenProperties
  <1>2. \A i \in 1..n : (n - i) + 1 \in 1..n /\ (n - ((n - i) + 1)) + 1 = i
    BY <1>1
  <1>3. DOMAIN r = 1..n /\ \A i \in 1..n : r[i] = q[(n - i) + 1]
    BY DEF Reverse
  <1>4. \A i \in 1..n : \E j \in 1..n : r[j] = q[i]
    BY <1>2, <1>3
  <1>5. \A i \in 1..n : \E j \in 1..n : r[i] = q[j]
    BY <1>2, <1>3
  <1> HIDE DEF r, n
  <1>6. {r[i].name : i \in 1..n} \subseteq {q[i].name : i \in 1..n}
    BY <1>5
  <1>7. {q[i].name : i \in 1..n} \subseteq {r[i].name : i \in 1..n}
    BY <1>4
  <1>8. Names(r) = Names(q)
    BY <1>1, <1>3, <1>6, <1>7 DEF Names
  <1> QED BY <1>8 DEF r

LEMMA AppendedNames ==
  ASSUME NEW S, NEW q \in Seq(S), NEW p \in S
  PROVE  Names(Append(q, p)) = Names(q) \cup {p.name}
  <1>1. /\ Len(q) \in Nat /\ DOMAIN q = 1..Len(q)
        /\ DOMAIN Append(q, p) = 1..(Len(q) + 1)
        /\ \A j \in 1..Len(q) : Append(q, p)[j] = q[j]
        /\ Append(q, p)[Len(q) + 1] = p
    BY AppendProperties, LenProperties
  <1> QED BY <1>1 DEF Names

\* Every member is a parameter.
OfParams(q) == \A i \in DOMAIN q : q[i] = Param(q[i].name, q[i].value, q[i].form)

\* What may become of a query on the way.
MayBecome(q, a) ==
    \/ a = q
    \/ a = Append(q, Param("p", "added", "pair"))
    \/ a = Reverse(q)
    \/ a = [i \in DOMAIN q |-> PlusForBlank(q[i])]

LEMMA QueryOnTheWay ==
  ASSUME NEW S, NEW q \in Seq(S), OfParams(q), NEW a, MayBecome(q, a)
  PROVE  /\ Names(a) \cap PresignParams = Names(q) \cap PresignParams
         /\ OfParams(a)
         /\ \A name \in PresignParams : \A value :
              Carries(q, name, value) => ValueOf(a, name) = value
  <1> DEFINE added == Param("p", "added", "pair")
             T == S \cup {added}
  <1>1. q \in Seq(T) /\ added \in T
    <2>1. S \subseteq T
      OBVIOUS
    <2> QED BY <2>1, SeqMonotonic
  <1>2. added.name = "p" /\ added = Param(added.name, added.value, added.form)
    BY DEF Param
  <1>3. "p" \notin PresignParams
    BY DEF PresignParams
  <1>4. Len(q) \in Nat /\ DOMAIN q = 1..Len(q)
    BY LenProperties
  <1> HIDE DEF added, T
  <1>5. CASE a = q
    BY <1>5, CarriedValue
  <1>6. CASE a = Append(q, added)
    <2>1. Names(a) = Names(q) \cup {"p"}
      BY <1>1, <1>2, <1>6, AppendedNames
    <2>2. /\ DOMAIN a = 1..(Len(q) + 1) /\ a[Len(q) + 1] = added
          /\ \A i \in 1..Len(q) : a[i] = q[i]
          /\ a \in Seq(T)
      BY <1>1, <1>6, AppendProperties, LenProperties
    <2>3. OfParams(a)
      BY <1>2, <1>4, <2>2 DEF OfParams
    <2>4. ASSUME NEW name \in PresignParams, NEW value, Carries(q, name, value)
          PROVE  ValueOf(a, name) = value
      <3>1. Carries(a, name, value)
        BY <1>1, <1>2, <1>3, <1>6, <2>4, CarriedBeside
      <3> QED BY <2>2, <3>1, CarriedValue
    <2> QED BY <1>3, <2>1, <2>3, <2>4
  <1>7. CASE a = Reverse(q)
    <2>1. Names(a) = Names(q)
      BY <1>7, ReversedNames
    <2>2. /\ DOMAIN a = 1..Len(q)
          /\ \A i \in 1..Len(q) : a[i] = q[(Len(q) - i) + 1]
      BY <1>7 DEF Reverse
    <2>3. \A i \in 1..Len(q) : (Len(q) - i) + 1 \in 1..Len(q)
      BY <1>4
    <2>4. OfParams(a)
      BY <1>4, <2>2, <2>3 DEF OfParams
    <2>5. a \in Seq(S)
      <3>1. \A i \in 1..Len(q) : a[i] \in S
        BY <2>2, <2>3, ElementOfSeq
      <3>2. a = [i \in 1..Len(q) |-> q[(Len(q) - i) + 1]]
        BY <1>7 DEF Reverse
      <3>3. a \in [1..Len(q) -> S]
        BY <3>1, <3>2
      <3> QED BY <1>4, <3>3, SeqDef
    <2>6. ASSUME NEW name \in PresignParams, NEW value, Carries(q, name, value)
          PROVE  ValueOf(a, name) = value
      BY <1>7, <2>5, <2>6, CarriedInReverse, CarriedValue
    <2> QED BY <2>1, <2>4, <2>6
  <1>8. CASE a = [i \in DOMAIN q |-> PlusForBlank(q[i])]
    <2>1. /\ DOMAIN a = 1..Len(q)
          /\ \A i \in 1..Len(q) : a[i] = PlusForBlank(q[i])
      BY <1>4, <1>8
    <2>2. \A i \in 1..Len(q) : q[i].name \in PresignParams => a[i] = q[i]
      BY <2>1 DEF PlusForBlank
    <2>3. ASSUME NEW i \in 1..Len(q)
          PROVE  a[i] = Param(a[i].name, a[i].value, a[i].form) /\ a[i].name = q[i].name
      <3>1. q[i] = Param(q[i].name, q[i].value, q[i].form)
        BY <1>4 DEF OfParams
      <3>2. CASE PlusForBlank(q[i]) = q[i]
        BY <2>1, <3>1, <3>2
      <3>3. CASE PlusForBlank(q[i]) = [q[i] EXCEPT !.value = "+"]
        BY <2>1, <3>1, <3>3 DEF Param
      <3> QED BY <3>2, <3>3 DEF PlusForBlank
    <2>4. OfParams(a) /\ Names(a) = Names(q)
      BY <1>4, <2>1, <2>3 DEF OfParams, Names
    <2>5. a \in Seq({a[i] : i \in 1..Len(q)}) /\ Len(a) = Len(q)
      <3> DEFINE V == {a[i] : i \in 1..Len(q)}
      <3>1. a \in [1..Len(q) -> V]
        BY <1>4, <1>8
      <3> HIDE DEF V
      <3>2. a \in Seq(V)
        BY <1>4, <3>1, SeqDef
      <3>3. Len(a) = Len(q)
        BY <1>4, <2>1, <3>2, LenProperties
      <3> QED BY <3>2, <3>3 DEF V
    <2>6. ASSUME NEW name \in PresignParams, NEW value, Carries(q, name, value)
          PROVE  ValueOf(a, name) = value
      <3>1. Carries(a, name, value)
        BY <2>2, <2>3, <2>5, <2>6 DEF Carries
      <3> QED BY <2>5, <3>1, CarriedValue
    <2> QED BY <2>4, <2>6
  <1> QED BY <1>5, <1>6, <1>7, <1>8 DEF MayBecome, added

\* The parameters a client puts into the query when it signs a URL, and the
\* query behind them.
OwnParams(credential, t, expires, listed) ==
    <<Param("X-Amz-Algorithm", "AWS4-HMAC-SHA256", "pair"),
      Param("X-Amz-Credential", credential, "pair"),
      Param("X-Amz-Date", t, "pair"),
      Param("X-Amz-Expires", expires, "pair"),
      Param("X-Amz-SignedHeaders", listed, "pair")>>

SignatureParam(signature) == Param("X-Amz-Signature", signature, "pair")

LEMMA ParamFields ==
  \A a, b, c : /\ Param(a, b, c).name = a /\ Param(a, b, c).value = b
               /\ Param(a, b, c) = Param(Param(a, b, c).name, Param(a, b, c).value, Param(a, b, c).form)
  BY DEF Param

LEMMA Joined ==
  ASSUME NEW S, NEW a \in Seq(S), NEW b \in Seq(S)
  PROVE  /\ a \o b \in Seq(S) /\ Len(a \o b) = Len(a) + Len(b)
         /\ \A i \in 1..Len(a) : (a \o b)[i] = a[i]
         /\ \A i \in 1..Len(b) : (a \o b)[Len(a) + i] = b[i]
  <1> DEFINE m == Len(a)
             n == Len(b)
  <1>1. m \in Nat /\ n \in Nat
    BY LenProperties
  <1>2. /\ a \o b \in Seq(S) /\ Len(a \o b) = m + n
        /\ \A i \in 1..(m + n) : (a \o b)[i] = IF i <= m THEN a[i] ELSE b[i - m]
    BY ConcatProperties
  <1>3. \A i \in 1..m : i \in 1..(m + n) /\ i <= m
    BY <1>1
  <1>4. \A i \in 1..n : m + i \in 1..(m + n) /\ ~(m + i <= m) /\ (m + i) - m = i
    BY <1>1
  <1> QED BY <1>2, <1>3, <1>4

\* Where the members of base, own and last are in q, which begins with signed.
Layout(S, base, own, last, signed, q) ==
    LET n == Len(base)
        m == n + Len(own) IN
    /\ n \in Nat /\ q \in Seq(S) /\ Len(q) = m + 1 /\ DOMAIN q = 1..(m + 1)
    /\ \A i \in 1..n : q[i] = base[i]
    /\ \A i \in 1..Len(own) : q[n + i] = own[i]
    /\ q[m + 1] = last
    /\ signed = [i \in 1..m |-> q[i]]

LEMMA JoinedTwice ==
  ASSUME NEW S, NEW base, base \in Seq(S), NEW own, own \in Seq(S), NEW last, last \in S
  PROVE  Layout(S, base, own, last, base \o own, (base \o own) \o <<last>>)
  <1> DEFINE signed == base \o own
             q == Append(signed, last)
             n == Len(base)
             k == Len(own)
             m == n + k
  <1>1. n \in Nat /\ k \in Nat
    BY LenProperties
  <1>2. /\ signed \in Seq(S) /\ Len(signed) = m
        /\ \A i \in 1..n : signed[i] = base[i]
        /\ \A i \in 1..k : signed[n + i] = own[i]
    <2>1. signed \in Seq(S) /\ Len(signed) = m
      BY Joined
    <2>2. \A i \in 1..n : signed[i] = base[i]
      BY Joined
    <2>3. \A i \in 1..k : signed[n + i] = own[i]
      BY Joined
    <2> QED BY <2>1, <2>2, <2>3
  <1> HIDE DEF signed, n, k
  <1>3. signed \o <<last>> = q
    BY <1>2, AppendIsConcat
  <1>4. /\ q \in Seq(S) /\ Len(q) = m + 1
        /\ \A i \in 1..m : q[i] = signed[i]
        /\ q[m + 1] = last
    BY <1>2, AppendProperties
  <1> HIDE DEF q
  <1>5. DOMAIN q = 1..(m + 1)
    BY <1>4, LenProperties
  <1>6. (\A i \in 1..n : i \in 1..m) /\ \A i \in 1..k : n + i \in 1..m
    BY <1>1
  <1> HIDE DEF m
  <1>7. \A i \in 1..n : q[i] = base[i]
    BY <1>2, <1>4, <1>6
  <1>8. \A i \in 1..k : q[n + i] = own[i]
    BY <1>2, <1>4, <1>6
  <1>9. signed = [i \in 1..m |-> q[i]]
    <2>1. DOMAIN signed = 1..m /\ signed = [i \in DOMAIN signed |-> signed[i]]
      BY <1>2, LenProperties, SeqDef
    <2> QED BY <1>4, <2>1
  <1>10. /\ n \in Nat /\ q \in Seq(S) /\ Len(q) = m + 1 /\ DOMAIN q = 1..(m + 1)
         /\ \A i \in 1..n : q[i] = base[i]
         /\ \A i \in 1..k : q[n + i] = own[i]
         /\ q[m + 1] = last
         /\ signed = [i \in 1..m |-> q[i]]
    BY <1>1, <1>4, <1>5, <1>7, <1>8, <1>9
  <1> QED BY <1>3, <1>10 DEF signed, n, k, m, Layout

\* Where the parameters are in a presigned query of n others.
Placed(q, n, credential, t, expires, listed, signature) ==
    /\ n \in Nat /\ Len(q) = n + 6 /\ DOMAIN q = 1..(n + 6)
    /\ \A i \in 1..n : /\ q[i] = Param(q[i].name, q[i].value, q[i].form)
                       /\ q[i].name \notin PresignParams
    /\ q[n + 1] = Param("X-Amz-Algorithm", "AWS4-HMAC-SHA256", "pair")
    /\ q[n + 2] = Param("X-Amz-Credential", credential, "pair")
    /\ q[n + 3] = Param("X-Amz-Date", t, "pair")
    /\ q[n + 4] = Param("X-Amz-Expires", expires, "pair")
    /\ q[n + 5] = Param("X-Amz-SignedHeaders", listed, "pair")
    /\ q[n + 6] = SignatureParam(signature)

PresignedLayout(signed, q, n, credential, t, expires, listed, signature) ==
    /\ \E S : q \in Seq(S)
    /\ Placed(q, n, credential, t, expires, listed, signature)
    /\ signed = [i \in 1..(n + 5) |-> q[i]]

LEMMA PresignedPlaces ==
  ASSUME NEW base, base \in Seq(Range(base)),
         \A p \in Range(base) :
            p = Param(p.name, p.value, p.form) /\ p.name \notin PresignParams,
         NEW credential, NEW t, NEW expires, NEW listed, NEW signature,
         NEW n, n = Len(base)
  PROVE  LET signed == base \o OwnParams(credential, t, expires, listed) IN
         PresignedLayout(signed, signed \o <<SignatureParam(signature)>>, n,
                         credential, t, expires, listed, signature)
  <1> DEFINE own == OwnParams(credential, t, expires, listed)
             last == SignatureParam(signature)
             S == Range(base) \cup {own[i] : i \in 1..5} \cup {last}
  <1>1. \A i \in 1..Len(base) : base[i] \in Range(base)
    BY ElementOfSeq
  <1>2. base \in Seq(S)
    <2>1. Range(base) \subseteq S OBVIOUS
    <2> QED BY <2>1, SeqMonotonic
  <1>3. Len(own) = 5 /\ own \in Seq(S)
    <2>1. Len(own) = 5 /\ own = [i \in 1..5 |-> own[i]]
      BY DEF OwnParams
    <2>2. \A i \in 1..5 : own[i] \in S
      OBVIOUS
    <2> HIDE DEF own, S
    <2>3. own \in [1..5 -> S]
      BY <2>1, <2>2
    <2> QED BY <2>1, <2>3, SeqDef
  <1>4. /\ own[1] = Param("X-Amz-Algorithm", "AWS4-HMAC-SHA256", "pair")
        /\ own[2] = Param("X-Amz-Credential", credential, "pair")
        /\ own[3] = Param("X-Amz-Date", t, "pair")
        /\ own[4] = Param("X-Amz-Expires", expires, "pair")
        /\ own[5] = Param("X-Amz-SignedHeaders", listed, "pair")
    BY DEF OwnParams
  <1>5. last \in S
    OBVIOUS
  <1> HIDE DEF own, last, S
  <1> DEFINE signed == base \o own
             q == signed \o <<last>>
             m == n + Len(own)
  <1>6. /\ n \in Nat /\ q \in Seq(S) /\ Len(q) = m + 1 /\ DOMAIN q = 1..(m + 1)
        /\ \A i \in 1..n : q[i] = base[i]
        /\ \A i \in 1..Len(own) : q[n + i] = own[i]
        /\ q[m + 1] = last
        /\ signed = [i \in 1..m |-> q[i]]
    <2>1. Layout(S, base, own, last, signed, q)
      BY <1>2, <1>3, <1>5, JoinedTwice
    <2> HIDE DEF signed, q
    <2> QED BY <2>1 DEF Layout
  <1> HIDE DEF signed, q
  <1>7. m = n + 5 /\ m + 1 = n + 6
    BY <1>3, <1>6
  <1> HIDE DEF m
  <1>8. \A i \in 1..5 : q[n + i] = own[i]
    BY <1>3, <1>6
  <1>9. q[n + 1] = own[1] /\ q[n + 2] = own[2] /\ q[n + 3] = own[3] /\ q[n + 4] = own[4]
        /\ q[n + 5] = own[5]
    BY <1>8
  <1>10. Placed(q, n, credential, t, expires, listed, signature)
    <2>1. \A i \in 1..n : /\ q[i] = Param(q[i].name, q[i].value, q[i].form)
                         /\ q[i].name \notin PresignParams
      BY <1>1, <1>6
    <2> QED BY <1>4, <1>6, <1>7, <1>9, <2>1 DEF Placed, last
  <1>11. signed = [i \in 1..(n + 5) |-> q[i]]
    BY <1>6, <1>7
  <1>12. PresignedLayout(signed, q, n, credential, t, expires, listed, signature)
    BY <1>6, <1>10, <1>11 DEF PresignedLayout
  <1> QED BY <1>12 DEF q, signed, own, last

\* A presigned query has each parameter of the signature once, and without the
\* signature it is what was signed.
LEMMA PresignedQueryFields ==
  ASSUME NEW q, NEW n, NEW credential, NEW t, NEW expires, NEW listed, NEW signature,
         Placed(q, n, credential, t, expires, listed, signature)
  PROVE  /\ OfParams(q)
         /\ PresignParams \subseteq Names(q)
         /\ Carries(q, "X-Amz-Credential", credential)
         /\ Carries(q, "X-Amz-Date", t)
         /\ Carries(q, "X-Amz-Expires", expires)
         /\ Carries(q, "X-Amz-SignedHeaders", listed)
         /\ Carries(q, "X-Amz-Signature", signature)
         /\ {j \in DOMAIN q : q[j].name # "X-Amz-Signature"} = 1..(n + 5)
  <1>1. n \in Nat /\ Len(q) = n + 6 /\ DOMAIN q = 1..(n + 6)
    BY DEF Placed
  <1>2. \A i \in 1..(n + 6) :
          i \in 1..n \/ i = n + 1 \/ i = n + 2 \/ i = n + 3 \/ i = n + 4 \/ i = n + 5 \/ i = n + 6
    BY <1>1
  <1>3. /\ n + 1 \in 1..(n + 6) /\ n + 2 \in 1..(n + 6) /\ n + 3 \in 1..(n + 6)
        /\ n + 4 \in 1..(n + 6) /\ n + 5 \in 1..(n + 6) /\ n + 6 \in 1..(n + 6)
    BY <1>1
  <1>4. /\ q[n + 1].name = "X-Amz-Algorithm"
        /\ q[n + 2].name = "X-Amz-Credential" /\ q[n + 2].value = credential
        /\ q[n + 3].name = "X-Amz-Date" /\ q[n + 3].value = t
        /\ q[n + 4].name = "X-Amz-Expires" /\ q[n + 4].value = expires
        /\ q[n + 5].name = "X-Amz-SignedHeaders" /\ q[n + 5].value = listed
        /\ q[n + 6].name = "X-Amz-Signature" /\ q[n + 6].value = signature
    BY ParamFields DEF Placed, SignatureParam
  <1>5. \A i \in 1..n : q[i].name \notin PresignParams
    BY DEF Placed
  <1>6. \A i \in 1..(n + 6) :
          /\ q[i].name = "X-Amz-Credential" => i = n + 2
          /\ q[i].name = "X-Amz-Date" => i = n + 3
          /\ q[i].name = "X-Amz-Expires" => i = n + 4
          /\ q[i].name = "X-Amz-SignedHeaders" => i = n + 5
          /\ q[i].name = "X-Amz-Signature" <=> i = n + 6
    BY <1>2, <1>4, <1>5 DEF PresignParams
  <1>7. /\ Carries(q, "X-Amz-Credential", credential)
        /\ Carries(q, "X-Amz-Date", t)
        /\ Carries(q, "X-Amz-Expires", expires)
        /\ Carries(q, "X-Amz-SignedHeaders", listed)
        /\ Carries(q, "X-Amz-Signature", signature)
    BY <1>1, <1>3, <1>4, <1>6 DEF Carries
  <1>8. PresignParams \subseteq Names(q)
    BY <1>1, <1>3, <1>4 DEF Names, PresignParams
  <1>9. OfParams(q)
    <2>1. \A i \in 1..n : q[i] = Param(q[i].name, q[i].value, q[i].form)
      BY DEF Placed
    <2>2. /\ q[n + 1] = Param(q[n + 1].name, q[n + 1].value, q[n + 1].form)
          /\ q[n + 2] = Param(q[n + 2].name, q[n + 2].value, q[n + 2].form)
          /\ q[n + 3] = Param(q[n + 3].name, q[n + 3].value, q[n + 3].form)
          /\ q[n + 4] = Param(q[n + 4].name, q[n + 4].value, q[n + 4].form)
          /\ q[n + 5] = Param(q[n + 5].name, q[n + 5].value, q[n + 5].form)
          /\ q[n + 6] = Param(q[n + 6].name, q[n + 6].value, q[n + 6].form)
      BY ParamFields DEF Placed, SignatureParam
    <2> QED BY <1>1, <1>2, <2>1, <2>2 DEF OfParams
  <1>10. {j \in DOMAIN q : q[j].name # "X-Amz-Signature"} = 1..(n + 5)
    <2>1. \A i \in 1..(n + 6) : i # n + 6 <=> i \in 1..(n + 5)
      BY <1>1
    <2>2. 1..(n + 5) \subseteq 1..(n + 6)
      BY <1>1
    <2> QED BY <1>1, <1>6, <2>1, <2>2
  <1> QED BY <1>7, <1>8, <1>9, <1>10

--------------------------------------------------------------------------------
(* What a client sends, and what may happen to it                          *)

ClientArgs(s, t) ==
    KeyArgs(t, ClientRegion, "s3", IF s.own_secret THEN ClientSecret ELSE OtherSecret)
ClientScope(t) == Scope(t, ClientRegion, "s3")

Fields == {"method", "path", "query", "headers", "auth"}
DatedHeaders == {"host", "x-amz-date", "x-amz-content-sha256"}

\* Its query has no part in a signature.
PlainQuery(o) ==
    /\ \E S : o.query \in Seq(S)
    /\ OfParams(o.query)
    /\ Names(o.query) \cap PresignParams = {}

SignedInHeader(s, t, o) ==
    LET listed == s.signs \cup DatedHeaders IN
    /\ DOMAIN o = Fields
    /\ PlainQuery(o)
    /\ listed \subseteq DOMAIN o.headers
    /\ o.headers["x-amz-date"] = t
    /\ o.auth.scheme = "AWS4-HMAC-SHA256"
    /\ o.auth.scope = ClientScope(t)
    /\ o.auth.signed_headers = listed
    /\ o.auth.signature =
         Signature(Derive(ClientArgs(s, t)), t, ClientScope(t),
           CanonicalRequest(o.method, AwsPath(o.path), o.query, Restrict(o.headers, listed),
                            o.headers["x-amz-content-sha256"]))

SignedPart(q) == [i \in {j \in DOMAIN q : q[j].name # "X-Amz-Signature"} |-> q[i]]

ClientCredential(t) == [access_key |-> ClientAccessKey, day |-> Day(t),
                        region |-> ClientRegion, service |-> "s3"]

ClientUrlSignature(s, t, o) ==
    Signature(Derive(ClientArgs(s, t)), t, ClientScope(t),
      CanonicalRequest(o.method, AwsPath(o.path), SignedPart(o.query),
                       Restrict(o.headers, s.signs \cup {"host"}), Unsigned))

SignedInQuery(s, t, o) ==
    /\ DOMAIN o = Fields
    /\ o.auth = NoAuth
    /\ s.signs \cup {"host"} \subseteq DOMAIN o.headers
    /\ \E S : o.query \in Seq(S)
    /\ OfParams(o.query) /\ PresignParams \subseteq Names(o.query)
    /\ Carries(o.query, "X-Amz-Credential", ClientCredential(t))
    /\ Carries(o.query, "X-Amz-Date", t)
    /\ Carries(o.query, "X-Amz-Expires", s.expires)
    /\ Carries(o.query, "X-Amz-SignedHeaders", s.signs \cup {"host"})
    /\ Carries(o.query, "X-Amz-Signature", ClientUrlSignature(s, t, o))

NotSigned(o) == DOMAIN o = Fields /\ o.auth = NoAuth /\ PlainQuery(o)

LEMMA BaseQueryIsPlain ==
  ASSUME NEW r, IsUnsignedRequest(r)
  PROVE  PlainQuery(r) /\ DOMAIN r = Fields /\ r.auth = NoAuth
  <1>1. r.query \in Seq(Range(r.query))
    BY DEF IsUnsignedRequest
  <1>2. \A i \in DOMAIN r.query :
          /\ r.query[i].name \notin PresignParams
          /\ r.query[i] = Param(r.query[i].name, r.query[i].value, r.query[i].form)
    BY DEF IsUnsignedRequest, Range
  <1>3. Names(r.query) \cap PresignParams = {} /\ OfParams(r.query)
    BY <1>2 DEF Names, OfParams
  <1> QED BY <1>1, <1>3 DEF IsUnsignedRequest, PlainQuery, Fields

LEMMA HeaderRequest ==
  ASSUME NEW s, IsClientShape(s), s.kind = "header", NEW t
  PROVE  SignedInHeader(s, t, ClientRequest(s, t))
  <1> DEFINE r == s.request
             o == ClientRequest(s, t)
             listed == s.signs \cup DatedHeaders
             headers == Set(r.headers, "x-amz-date", t)
             key == Derive(ClientArgs(s, t))
             canonical == CanonicalRequest(r.method, AwsPath(r.path), r.query,
                            Restrict(headers, listed), r.headers["x-amz-content-sha256"])
             auth == Authorization(ClientAccessKey, key, t, ClientScope(t), canonical)
  <1>1. DOMAIN r = Fields /\ PlainQuery(r)
    BY BaseQueryIsPlain DEF IsClientShape
  <1>2. o = [[r EXCEPT !.headers = headers] EXCEPT !.auth = auth]
    <2>1. listed = s.signs \cup {"host", "x-amz-date", "x-amz-content-sha256"}
      BY DEF DatedHeaders
    <2>2. [r EXCEPT !.headers = headers].headers = headers
      BY <1>1 DEF Fields
    <2> QED BY <2>1, <2>2 DEF ClientRequest, WithAuthorization, ClientArgs, ClientScope
  <1>3. /\ DOMAIN o = Fields /\ o.method = r.method /\ o.path = r.path /\ o.query = r.query
        /\ o.headers = headers /\ o.auth = auth
    <2> HIDE DEF o, headers, auth
    <2> QED BY <1>1, <1>2 DEF Fields
  <1>4. /\ listed \subseteq DOMAIN headers
        /\ headers["x-amz-date"] = t
        /\ headers["x-amz-content-sha256"] = r.headers["x-amz-content-sha256"]
    BY DEF IsClientShape, IsUnsignedRequest, Set, DatedHeaders
  <1>5. /\ auth.scheme = "AWS4-HMAC-SHA256" /\ auth.scope = ClientScope(t)
        /\ auth.signed_headers = DOMAIN canonical.headers
        /\ auth.signature = Signature(key, t, ClientScope(t), canonical)
    <2> HIDE DEF canonical, key
    <2> QED BY DEF Authorization
  <1>6. DOMAIN canonical.headers = listed
    BY DEF CanonicalRequest, Restrict
  <1> HIDE DEF o, headers, auth, key
  <1>7. SignedInHeader(s, t, o)
    <2>1. canonical = CanonicalRequest(o.method, AwsPath(o.path), o.query, Restrict(o.headers, listed),
                                       o.headers["x-amz-content-sha256"])
      BY <1>3, <1>4
    <2> HIDE DEF canonical
    <2> QED BY <1>1, <1>3, <1>4, <1>5, <1>6, <2>1 DEF SignedInHeader, PlainQuery, key
  <1> QED BY <1>7 DEF o

LEMMA PresignedRequest ==
  ASSUME NEW s, IsClientShape(s), s.kind = "presigned", NEW t
  PROVE  SignedInQuery(s, t, ClientRequest(s, t))
  <1> DEFINE r == s.request
             o == ClientRequest(s, t)
             listed == s.signs \cup {"host"}
             signed == r.query \o OwnParams(ClientCredential(t), t, s.expires, listed)
             signature == Signature(Derive(ClientArgs(s, t)), t, ClientScope(t),
                            CanonicalRequest(r.method, AwsPath(r.path), signed,
                                             Restrict(r.headers, listed), Unsigned))
             q == signed \o <<SignatureParam(signature)>>
             n == Len(r.query)
  <1>1. DOMAIN r = Fields /\ r.auth = NoAuth
    BY BaseQueryIsPlain DEF IsClientShape
  <1>2. o = [r EXCEPT !.query = q]
    BY DEF ClientRequest, Presigned, OwnParams, SignatureParam, ClientCredential,
           ClientArgs, ClientScope
  <1>3. /\ r.query \in Seq(Range(r.query))
        /\ \A p \in Range(r.query) :
             p = Param(p.name, p.value, p.form) /\ p.name \notin PresignParams
    BY DEF IsClientShape, IsUnsignedRequest
  <1>4. /\ \E S : q \in Seq(S)
        /\ Placed(q, n, ClientCredential(t), t, s.expires, listed, signature)
        /\ signed = [i \in 1..(n + 5) |-> q[i]]
    <2>1. PresignedLayout(signed, q, n, ClientCredential(t), t, s.expires, listed, signature)
      <3> HIDE DEF signature, listed
      <3> QED BY <1>3, PresignedPlaces
    <2> HIDE DEF q, signed, n
    <2> QED BY <2>1 DEF PresignedLayout
  <1>5. /\ DOMAIN o = Fields /\ o.method = r.method /\ o.path = r.path /\ o.query = q
        /\ o.headers = r.headers /\ o.auth = NoAuth
    <2> HIDE DEF o, q
    <2> QED BY <1>1, <1>2 DEF Fields
  <1>6. listed \subseteq DOMAIN r.headers
    BY DEF IsClientShape, IsUnsignedRequest
  <1> HIDE DEF o, q, n, signed
  <1>7. signed = SignedPart(q)
    BY <1>4, PresignedQueryFields DEF SignedPart
  <1>8. signature = ClientUrlSignature(s, t, o)
    BY <1>5, <1>7 DEF ClientUrlSignature
  <1> HIDE DEF signature
  <1>9. /\ OfParams(q) /\ PresignParams \subseteq Names(q)
        /\ Carries(q, "X-Amz-Credential", ClientCredential(t))
        /\ Carries(q, "X-Amz-Date", t)
        /\ Carries(q, "X-Amz-Expires", s.expires)
        /\ Carries(q, "X-Amz-SignedHeaders", listed)
        /\ Carries(q, "X-Amz-Signature", signature)
    BY <1>4, PresignedQueryFields
  <1>10. SignedInQuery(s, t, o)
    BY <1>4, <1>5, <1>6, <1>8, <1>9 DEF SignedInQuery
  <1> QED BY <1>10 DEF o

LEMMA UnsignedRequest ==
  ASSUME NEW s, IsClientShape(s), s.kind = "unsigned", NEW t
  PROVE  NotSigned(ClientRequest(s, t))
  BY BaseQueryIsPlain DEF IsClientShape, ClientRequest, NotSigned

\* On the way the Authorization header and the date of a request stay, no header
\* goes, and its query is one it may become.
Kept(o, a) ==
    /\ a.auth = o.auth
    /\ MayBecome(o.query, a.query)
    /\ DOMAIN o.headers \subseteq DOMAIN a.headers
    /\ "x-amz-date" \in DOMAIN o.headers => a.headers["x-amz-date"] = o.headers["x-amz-date"]

LEMMA AlteredKeeps ==
  ASSUME NEW o, DOMAIN o = Fields, NEW s, IsClientShape(s)
  PROVE  Kept(o, Altered(o, s.altered))
  <1> DEFINE a == Altered(o, s.altered)
  <1>1. CASE s.altered \in {"none", "method", "path", "dots"}
    BY <1>1 DEF Altered, Fields, Kept, MayBecome
  <1>2. CASE s.altered \in {"parameter", "order", "plus"}
    BY <1>2 DEF Altered, Fields, Kept, MayBecome
  <1>3. CASE s.altered \in {"port", "case", "range", "payload", "agent"}
    <2>1. PICK name \in {"host", "range", "x-amz-content-sha256", "user-agent"} : \E value :
            a = [o EXCEPT !.headers = Set(@, name, value)]
      BY <1>3 DEF Altered
    <2>2. PICK value : a = [o EXCEPT !.headers = Set(@, name, value)]
      BY <2>1
    <2>3. a.auth = o.auth /\ a.query = o.query /\ a.headers = Set(o.headers, name, value)
      BY <2>2 DEF Fields
    <2> QED BY <2>3 DEF Kept, MayBecome, Set
  <1> QED BY <1>1, <1>2, <1>3 DEF IsClientShape

--------------------------------------------------------------------------------
(* What the proxy sees of it                                               *)

\* The key that goes with the client's access key, which the proxy asks for.
ProxyArgs(t) == KeyArgs(t, ClientRegion, "s3", ClientSecret)

SeenInHeader(t, a) ==
    /\ ~InQuery(a) /\ CanCheckHeader(a)
    /\ Names(a.query) \cap PresignParams = {}
    /\ a.headers["x-amz-date"] = t
    /\ HeaderKeyArgs(a, ClientSecret) = ProxyArgs(t)

LEMMA HeaderSeen ==
  ASSUME NEW s, NEW t, NEW o, SignedInHeader(s, t, o), NEW a, Kept(o, a)
  PROVE  SeenInHeader(t, a)
  <1>1. /\ DatedHeaders \subseteq DOMAIN o.headers /\ o.headers["x-amz-date"] = t
        /\ o.auth.scheme = "AWS4-HMAC-SHA256" /\ o.auth.scope = ClientScope(t)
        /\ PlainQuery(o)
    BY DEF SignedInHeader
  <1>2. /\ a.auth = o.auth /\ DatedHeaders \subseteq DOMAIN a.headers
        /\ a.headers["x-amz-date"] = t /\ MayBecome(o.query, a.query)
    BY <1>1 DEF Kept, DatedHeaders
  <1>3. a.auth # NoAuth
    BY <1>1, <1>2 DEF NoAuth
  <1>4. Names(a.query) \cap PresignParams = {}
    BY <1>1, <1>2, QueryOnTheWay DEF PlainQuery
  <1>5. HeaderKeyArgs(a, ClientSecret) = ProxyArgs(t)
    BY <1>1, <1>2 DEF HeaderKeyArgs, ProxyArgs, ClientScope, Scope
  <1> QED BY <1>1, <1>2, <1>3, <1>4, <1>5
          DEF SeenInHeader, InQuery, CanCheckHeader, DatedHeaders

SeenInQuery(s, t, o, a) ==
    /\ InQuery(a)
    /\ ValueOf(a.query, "X-Amz-Date") = t
    /\ ValueOf(a.query, "X-Amz-Expires") = s.expires
    /\ ValueOf(a.query, "X-Amz-SignedHeaders") = s.signs \cup {"host"}
    /\ ValueOf(a.query, "X-Amz-Signature") = ClientUrlSignature(s, t, o)
    /\ ValueOf(a.query, "X-Amz-Credential") = ClientCredential(t)
    /\ OfParams(a.query)

LEMMA PresignedSeen ==
  ASSUME NEW s, NEW t, NEW o, SignedInQuery(s, t, o), NEW a, Kept(o, a)
  PROVE  SeenInQuery(s, t, o, a)
  <1>1. PICK S : o.query \in Seq(S)
    BY DEF SignedInQuery
  <1>2. MayBecome(o.query, a.query) /\ a.auth = NoAuth
    BY DEF SignedInQuery, Kept
  <1>3. {"X-Amz-Date", "X-Amz-Expires", "X-Amz-SignedHeaders", "X-Amz-Signature",
         "X-Amz-Credential"} \subseteq PresignParams
    BY DEF PresignParams
  <1>4. /\ Names(a.query) \cap PresignParams = Names(o.query) \cap PresignParams
        /\ OfParams(a.query)
    BY <1>1, <1>2, QueryOnTheWay DEF SignedInQuery
  <1>5. \A name \in PresignParams : \A value :
          Carries(o.query, name, value) => ValueOf(a.query, name) = value
    BY <1>1, <1>2, QueryOnTheWay DEF SignedInQuery
  <1>6. "X-Amz-Signature" \in Names(a.query)
    BY <1>3, <1>4 DEF SignedInQuery
  <1> QED BY <1>2, <1>3, <1>4, <1>5, <1>6 DEF SeenInQuery, SignedInQuery, InQuery

LEMMA PresignedKey ==
  ASSUME NEW s, NEW t, NEW o, NEW a, SeenInQuery(s, t, o, a)
  PROVE  PresignedKeyArgs(a, ClientSecret) = ProxyArgs(t)
  BY DEF SeenInQuery, PresignedKeyArgs, ProxyArgs, ClientCredential

LEMMA UnsignedSeen ==
  ASSUME NEW o, NotSigned(o), NEW a, Kept(o, a)
  PROVE  /\ ~InQuery(a) /\ ~CanCheckHeader(a)
         /\ Names(a.query) \cap PresignParams = {}
  <1>1. /\ a.auth = NoAuth /\ MayBecome(o.query, a.query) /\ PlainQuery(o)
    BY DEF NotSigned, Kept
  <1>2. Names(a.query) \cap PresignParams = {}
    BY <1>1, QueryOnTheWay DEF PlainQuery
  <1> QED BY <1>1, <1>2 DEF InQuery, CanCheckHeader, NoAuth, PresignParams

\* The keys of two secrets for the same day, region and service differ.
LEMMA KeyTellsSecret ==
  ASSUME NEW s, IsClientShape(s), NEW t, Derive(ClientArgs(s, t)) = Derive(ProxyArgs(t))
  PROVE  s.own_secret
  BY ClientAssumption DEF Derive, ClientArgs, ProxyArgs, KeyArgs, IsClientShape

LEMMA SignatureTells ==
  ASSUME NEW k1, NEW k2, NEW t1, NEW t2, NEW s1, NEW s2, NEW c1, NEW c2,
         Signature(k1, t1, s1, c1) = Signature(k2, t2, s2, c2)
  PROVE  k1 = k2 /\ c1 = c2
  BY DEF Signature

LEMMA CanonicalTells ==
  ASSUME NEW m1, NEW m2, NEW p1, NEW p2, NEW q1, NEW q2, NEW h1, NEW h2, NEW b1, NEW b2,
         CanonicalRequest(m1, p1, q1, h1, b1) = CanonicalRequest(m2, p2, q2, h2, b2)
  PROVE  m1 = m2 /\ p1 = p2 /\ CanonicalQuery(q1) = CanonicalQuery(q2) /\ h1 = h2
  BY DEF CanonicalRequest

--------------------------------------------------------------------------------
(* The check of the Authorization header                                   *)

\* What passes was signed by the client, and what it signed is untouched.
LEMMA HeaderMatches ==
  ASSUME NEW s, IsClientShape(s), NEW t, NEW o, SignedInHeader(s, t, o),
         NEW a, Kept(o, a),
         HeaderSignatureIsValid(a, Derive(ProxyArgs(t)))
  PROVE  s.own_secret /\ CoveredAsRead(a) = Covered(o)
  <1> DEFINE listed == s.signs \cup DatedHeaders
             covered == Restrict(o.headers, listed)
             shown == ListedHeaders(a.headers, listed)
  <1>1. /\ a.auth = o.auth /\ a.auth.signed_headers = listed
        /\ a.headers["x-amz-date"] = t /\ a.auth.scope = ClientScope(t)
        /\ listed \subseteq DOMAIN o.headers
    <2>1. SeenInHeader(t, a)
      BY HeaderSeen
    <2> QED BY <2>1 DEF SignedInHeader, Kept, SeenInHeader
  <1>2. Signature(Derive(ProxyArgs(t)), t, ClientScope(t),
          CanonicalRequest(a.method, UrlPath(a.path), a.query, shown,
                           a.headers["x-amz-content-sha256"]))
        = Signature(Derive(ClientArgs(s, t)), t, ClientScope(t),
            CanonicalRequest(o.method, AwsPath(o.path), o.query, covered,
                             o.headers["x-amz-content-sha256"]))
    BY <1>1 DEF HeaderSignatureIsValid, SignedInHeader, ClientScope, Scope
  <1>3. /\ a.method = o.method /\ UrlPath(a.path) = AwsPath(o.path)
        /\ CanonicalQuery(a.query) = CanonicalQuery(o.query)
        /\ shown = covered
    <2> HIDE DEF shown, covered
    <2> QED BY <1>2, SignatureTells, CanonicalTells
  <1>4. s.own_secret
    BY <1>2, SignatureTells, KeyTellsSecret
  <1>5. ~InQuery(a) /\ ~InQuery(o)
    BY <1>1, HeaderSeen DEF SeenInHeader, SignedInHeader, InQuery, NoAuth
  <1>6. CoveredHeaders(o) = covered
    <2>1. DOMAIN o.headers \cap listed = listed
      BY <1>1
    <2> QED BY <1>1, <1>5, <2>1 DEF CoveredHeaders
  <1>7. CoveredHeaders(a) = covered
    BY <1>1, <1>3, <1>5 DEF CoveredHeaders, ListedHeaders
  <1> HIDE DEF covered, shown, listed
  <1>8. CoveredAsRead(a) = Covered(o)
    BY <1>3, <1>5, <1>6, <1>7 DEF Covered, CoveredAsRead
  <1> QED BY <1>4, <1>8

\* What the client signed with its secret passes, for a path that Url leaves.
LEMMA HeaderGenuine ==
  ASSUME NEW s, s.own_secret, NEW t, NEW o, SignedInHeader(s, t, o), UrlPath(o.path) = AwsPath(o.path)
  PROVE  HeaderSignatureIsValid(o, Derive(ProxyArgs(t)))
  <1> DEFINE listed == s.signs \cup DatedHeaders
  <1>1. ClientArgs(s, t) = ProxyArgs(t)
    BY DEF ClientArgs, ProxyArgs
  <1>2. ListedHeaders(o.headers, listed) = Restrict(o.headers, listed)
    <2>1. DOMAIN o.headers \cap listed = listed
      BY DEF SignedInHeader
    <2> QED BY <2>1 DEF ListedHeaders
  <1>3. /\ o.auth.signed_headers = listed /\ o.headers["x-amz-date"] = t
        /\ Scope(t, o.auth.scope.region, o.auth.scope.service) = ClientScope(t)
    BY DEF SignedInHeader, ClientScope, Scope
  <1> QED BY <1>1, <1>2, <1>3 DEF HeaderSignatureIsValid, SignedInHeader

--------------------------------------------------------------------------------
(* The check of a presigned URL                                            *)

LEMMA WithoutSignatureIs ==
  ASSUME NEW q
  PROVE  WithoutSignature(q) = SignedPart(q)
  BY DEF WithoutSignature, SignedPart, RestrictValues, Restrict

\* Parameters that are read back as they are leave the query canonically as it
\* was, though not at the same places.
LEMMA RereadIsSame ==
  ASSUME NEW q, IsFiniteSet(DOMAIN q), \A i \in DOMAIN q : Reread(q[i]) = <<q[i]>>
  PROVE  CanonicalQuery(RereadQuery(q)) = CanonicalQuery(q)
  <1> DEFINE D == DOMAIN q
             r == RereadQuery(q)
             f == [i \in D |-> <<q[i].name, q[i].value>>]
             g == [at \in DOMAIN r |-> <<r[at].name, r[at].value>>]
             Count(h, x) == Cardinality({i \in DOMAIN h : h[i] = x})
  <1>1. DOMAIN r = D \X {1} /\ \A i \in D : r[<<i, 1>>] = q[i]
    <2>1. \A i \in D : DOMAIN Reread(q[i]) = {1} /\ Reread(q[i])[1] = q[i]
      <3>1. \A p : DOMAIN <<p>> = {1} /\ <<p>>[1] = p
        OBVIOUS
      <3> QED BY <3>1
    <2>2. {{i} \X DOMAIN Reread(q[i]) : i \in D} = {{i} \X {1} : i \in D}
      BY <2>1
    <2>3. UNION {{i} \X {1} : i \in D} = D \X {1}
      OBVIOUS
    <2>4. DOMAIN r = D \X {1}
      BY <2>2, <2>3 DEF RereadQuery
    <2>5. \A at \in DOMAIN r : r[at] = Reread(q[at[1]])[at[2]]
      BY DEF RereadQuery
    <2> HIDE DEF r, D
    <2>6. ASSUME NEW i \in D PROVE r[<<i, 1>>] = q[i]
      <3>1. <<i, 1>> \in DOMAIN r
        BY <2>4
      <3> QED BY <2>1, <2>5, <3>1
    <2> QED BY <2>4, <2>6
  <1> HIDE DEF r
  <1>2. DOMAIN g = D \X {1} /\ \A i \in D : g[<<i, 1>>] = f[i]
    BY <1>1
  <1>3. CanonicalQuery(q) = ToBag(f) /\ CanonicalQuery(r) = ToBag(g)
    BY DEF CanonicalQuery
  <1> HIDE DEF g
  <1>4. Range(g) = Range(f)
    <2>1. DOMAIN f = D
      OBVIOUS
    <2> HIDE DEF f, D
    <2>2. \A at \in DOMAIN g : \E i \in D : g[at] = f[i]
      <3>1. ASSUME NEW at \in DOMAIN g PROVE \E i \in D : g[at] = f[i]
        <4>1. PICK i \in D : at = <<i, 1>>
          BY <1>2, <3>1
        <4> QED BY <1>2, <4>1
      <3> QED BY <3>1
    <2>3. \A i \in D : \E at \in DOMAIN g : f[i] = g[at]
      <3>1. ASSUME NEW i \in D PROVE \E at \in DOMAIN g : f[i] = g[at]
        <4>1. <<i, 1>> \in DOMAIN g
          BY <1>2
        <4> QED BY <1>2, <4>1
      <3> QED BY <3>1
    <2> QED BY <2>1, <2>2, <2>3 DEF Range
  <1>5. ASSUME NEW x PROVE Count(g, x) = Count(f, x)
    <2> DEFINE A == {i \in D : f[i] = x}
               B == {at \in D \X {1} : g[at] = x}
               m == [i \in A |-> <<i, 1>>]
    <2>1. DOMAIN f = D
      OBVIOUS
    <2> HIDE DEF f, D
    <2>2. IsFiniteSet(A)
      BY FS_Subset DEF D
    <2>3. \A i \in A : <<i, 1>> \in B
      BY <1>2
    <2>4. \A at \in B : \E i \in A : at = <<i, 1>>
      BY <1>2
    <2> HIDE DEF A, B
    <2>5. m \in Bijection(A, B)
      <3>1. m \in [A -> B]
        BY <2>3
      <3>2. \A i, j \in A : m[i] = m[j] => i = j
        OBVIOUS
      <3>3. \A at \in B : \E i \in A : m[i] = at
        BY <2>4
      <3> QED BY <3>1, <3>2, <3>3 DEF Bijection, Injection, Surjection, IsInjective
    <2>6. Cardinality(B) = Cardinality(A)
      BY <2>2, <2>5, FS_Bijection DEF ExistsBijection
    <2> QED BY <1>2, <2>1, <2>6 DEF A, B
  <1> HIDE DEF f
  <1>6. ToBag(g) = ToBag(f)
    BY <1>4, <1>5 DEF ToBag
  <1> QED BY <1>3, <1>6 DEF r

\* Headers that the check rebuilds as they were signed arrived as they were, but
\* for the host, which is shown as it was signed.
LEMMA RebuiltHeaders ==
  ASSUME NEW a, NEW h, NEW listed, "host" \in listed,
         PresignedHeaders(a, listed) = Restrict(h, listed)
  PROVE  Set(Restrict(a.headers, DOMAIN a.headers \cap listed), "host",
             ShownHost(a.headers["host"])) = Restrict(h, listed)
  <1> DEFINE copied == {"x-amz-date", "x-amz-content-sha256", "range", "x-amz-security-token"}
             f == Restrict(a.headers, DOMAIN a.headers \cap copied)
             shown == ShownHost(a.headers["host"])
             covered == Restrict(a.headers, DOMAIN a.headers \cap listed)
  <1>1. PresignedHeaders(a, listed) = ListedHeaders(Set(f, "host", shown), listed)
    BY DEF PresignedHeaders
  <1> HIDE DEF shown
  <1>2. DOMAIN ListedHeaders(Set(f, "host", shown), listed) = listed
    BY <1>1 DEF Restrict
  <1>3. DOMAIN Set(f, "host", shown) = (DOMAIN a.headers \cap copied) \cup {"host"}
    BY DEF Set, Restrict
  <1>4. listed \subseteq (DOMAIN a.headers \cap copied) \cup {"host"}
    BY <1>2, <1>3 DEF ListedHeaders, Restrict
  <1>5. ASSUME NEW n \in listed, n # "host"
        PROVE  n \in DOMAIN a.headers /\ a.headers[n] = h[n]
    <2>1. n \in DOMAIN a.headers \cap copied
      BY <1>4, <1>5
    <2>2. Set(f, "host", shown)[n] = a.headers[n]
      BY <1>5, <2>1 DEF Set, Restrict
    <2>3. ListedHeaders(Set(f, "host", shown), listed)[n] = Set(f, "host", shown)[n]
      BY <1>3, <1>5, <2>1 DEF ListedHeaders, Restrict
    <2>4. Restrict(h, listed)[n] = h[n]
      BY DEF Restrict
    <2> QED BY <1>1, <2>1, <2>2, <2>3, <2>4
  <1>6. shown = h["host"]
    <2>1. Set(f, "host", shown)["host"] = shown
      BY DEF Set
    <2>2. ListedHeaders(Set(f, "host", shown), listed)["host"] = Set(f, "host", shown)["host"]
      BY <1>3 DEF ListedHeaders, Restrict
    <2>3. Restrict(h, listed)["host"] = h["host"]
      BY DEF Restrict
    <2> QED BY <1>1, <2>1, <2>2, <2>3
  <1>7. DOMAIN covered \cup {"host"} = listed
    BY <1>5 DEF Restrict
  <1>8. \A n \in listed : n # "host" => covered[n] = h[n]
    BY <1>5 DEF Restrict
  <1> HIDE DEF covered
  <1>9. Set(covered, "host", shown) = Restrict(h, listed)
    BY <1>6, <1>7, <1>8 DEF Set, Restrict
  <1> QED BY <1>9 DEF covered, shown

LEMMA PresignedMatches ==
  ASSUME NEW s, IsClientShape(s), NEW t, NEW o, SignedInQuery(s, t, o),
         NEW a, Kept(o, a),
         PresignedSignatureIsValid(a, Derive(ProxyArgs(t)))
  PROVE  s.own_secret /\ CoveredAsRead(a) = Covered(o)
  <1> DEFINE listed == s.signs \cup {"host"}
  <1>1. SeenInQuery(s, t, o, a)
    BY PresignedSeen
  <1>2. SeenInQuery(s, t, o, o)
    BY PresignedSeen DEF Kept, MayBecome
  <1>3. Signature(Derive(ProxyArgs(t)), t, ClientScope(t),
          CanonicalRequest(a.method, UrlPath(a.path), PresignedQuery(a.query),
                           PresignedHeaders(a, listed), Unsigned))
        = ClientUrlSignature(s, t, o)
    BY <1>1 DEF PresignedSignatureIsValid, SeenInQuery, ClientCredential, ClientScope
  <1>4. s.own_secret
    BY <1>3, SignatureTells, KeyTellsSecret DEF ClientUrlSignature
  <1>5. /\ a.method = o.method /\ UrlPath(a.path) = AwsPath(o.path)
        /\ CanonicalQuery(PresignedQuery(a.query)) = CanonicalQuery(SignedPart(o.query))
        /\ PresignedHeaders(a, listed) = Restrict(o.headers, listed)
    <2> HIDE DEF listed
    <2>1. CanonicalRequest(a.method, UrlPath(a.path), PresignedQuery(a.query),
                           PresignedHeaders(a, listed), Unsigned)
          = CanonicalRequest(o.method, AwsPath(o.path), SignedPart(o.query),
                             Restrict(o.headers, listed), Unsigned)
      BY <1>3, SignatureTells DEF ClientUrlSignature, listed
    <2> QED BY <2>1, CanonicalTells
  <1>6. CanonicalQuery(RereadQuery(WithoutSignature(a.query)))
          = CanonicalQuery(WithoutSignature(o.query))
    BY <1>5, WithoutSignatureIs DEF PresignedQuery
  <1>7. Set(CoveredHeaders(a), "host", ShownHost(a.headers["host"]))
          = Restrict(o.headers, listed)
    <2>1. "host" \in listed
      OBVIOUS
    <2>2. CoveredHeaders(a) = Restrict(a.headers, DOMAIN a.headers \cap listed)
      BY <1>1 DEF CoveredHeaders, SeenInQuery
    <2> HIDE DEF listed
    <2> QED BY <1>5, <2>1, <2>2, RebuiltHeaders
  <1>8. CoveredHeaders(o) = Restrict(o.headers, listed)
    <2>1. DOMAIN o.headers \cap listed = listed
      BY DEF SignedInQuery
    <2> QED BY <1>2, <2>1 DEF CoveredHeaders, SeenInQuery
  <1> HIDE DEF listed
  <1>9. CoveredAsRead(a) = Covered(o)
    BY <1>1, <1>2, <1>5, <1>6, <1>7, <1>8 DEF Covered, CoveredAsRead, SeenInQuery
  <1> QED BY <1>4, <1>9

\* A URL the check can rebuild passes if the client signed it with its secret.
LEMMA PresignedGenuine ==
  ASSUME NEW s, s.own_secret, NEW t, NEW o, SignedInQuery(s, t, o), ~NotRebuilt(o)
  PROVE  PresignedSignatureIsValid(o, Derive(ProxyArgs(t)))
  <1> DEFINE listed == s.signs \cup {"host"}
  <1>1. SeenInQuery(s, t, o, o)
    BY PresignedSeen DEF Kept, MayBecome
  <1>2. ClientArgs(s, t) = ProxyArgs(t)
    BY DEF ClientArgs, ProxyArgs
  <1>3. CanonicalQuery(PresignedQuery(o.query)) = CanonicalQuery(SignedPart(o.query))
    <2> DEFINE q == SignedPart(o.query)
    <2>1. \A i \in DOMAIN o.query : Reread(o.query[i]) = <<o.query[i]>>
      BY <1>1 DEF NotRebuilt, SeenInQuery
    <2>2. \A i \in DOMAIN q : Reread(q[i]) = <<q[i]>>
      BY <2>1 DEF SignedPart
    <2>3. IsFiniteSet(DOMAIN q)
      <3>1. PICK S : o.query \in Seq(S)
        BY DEF SignedInQuery
      <3>2. DOMAIN o.query = 1..Len(o.query) /\ Len(o.query) \in Nat
        BY <3>1, LenProperties
      <3>3. IsFiniteSet(DOMAIN o.query)
        BY <3>2, FS_Interval
      <3>4. DOMAIN q \subseteq DOMAIN o.query
        BY DEF SignedPart
      <3> QED BY <3>3, <3>4, FS_Subset
    <2> HIDE DEF q
    <2>4. CanonicalQuery(RereadQuery(q)) = CanonicalQuery(q)
      BY <2>2, <2>3, RereadIsSame
    <2> QED BY <2>4, WithoutSignatureIs DEF PresignedQuery, q
  <1>4. PresignedHeaders(o, listed) = Restrict(o.headers, listed)
    <2> DEFINE copied == {"x-amz-date", "x-amz-content-sha256", "range", "x-amz-security-token"}
               f == Set(Restrict(o.headers, DOMAIN o.headers \cap copied), "host",
                        o.headers["host"])
    <2>1. PresignedHeaders(o, listed) = ListedHeaders(f, listed)
      BY <1>1 DEF PresignedHeaders, NotRebuilt, SeenInQuery
    <2>2. listed \subseteq {"host"} \cup copied
      BY <1>1 DEF NotRebuilt, SeenInQuery
    <2>3. DOMAIN f = (DOMAIN o.headers \cap copied) \cup {"host"}
      BY DEF Set, Restrict
    <2>4. listed \subseteq DOMAIN f
      BY <2>2, <2>3 DEF SignedInQuery
    <2>5. \A n \in listed : f[n] = o.headers[n]
      BY <2>3, <2>4 DEF Set, Restrict
    <2>6. DOMAIN f \cap listed = listed
      BY <2>4
    <2> HIDE DEF f, listed
    <2> QED BY <2>1, <2>5, <2>6 DEF ListedHeaders, Restrict
  <1>5. UrlPath(o.path) = AwsPath(o.path)
    BY DEF NotRebuilt
  <1>6. CanonicalRequest(o.method, UrlPath(o.path), PresignedQuery(o.query),
                         PresignedHeaders(o, listed), Unsigned)
        = CanonicalRequest(o.method, AwsPath(o.path), SignedPart(o.query),
                           Restrict(o.headers, listed), Unsigned)
    BY <1>3, <1>4, <1>5 DEF CanonicalRequest
  <1> QED BY <1>1, <1>2, <1>6
          DEF PresignedSignatureIsValid, SeenInQuery, ClientUrlSignature, ClientCredential,
              ClientScope

\* What its parameters cannot be read from has one that is no pair.
LEMMA ReadableQuery ==
  ASSUME NEW s, NEW t, NEW o, SignedInQuery(s, t, o), ~PresignedParamsParse(o.query)
  PROVE  NotRebuilt(o)
  <1>1. PICK S : o.query \in Seq(S)
    BY DEF SignedInQuery
  <1>2. SUFFICES ASSUME \A i \in DOMAIN o.query : o.query[i].form # "bare" PROVE FALSE
    <2>1. InQuery(o)
      BY PresignedSeen DEF Kept, MayBecome, SeenInQuery
    <2> QED BY <2>1 DEF NotRebuilt
  <1>3. DOMAIN o.query = 1..Len(o.query)
    BY <1>1, LenProperties
  <1>4. {i \in 1..Len(o.query) : o.query[i].form = "bare"} = {}
    BY <1>2, <1>3
  <1>5. QueryPairs(o.query) = o.query
    BY <1>4 DEF QueryPairs, SelectInSeq
  <1> QED BY <1>5 DEF PresignedParamsParse, SignedInQuery

--------------------------------------------------------------------------------
(* The steps                                                               *)

\* What has arrived, by what its client does.
SentAt(w, t) ==
    /\ shape[w].kind = "header" => SignedInHeader(shape[w], t, original[w])
    /\ shape[w].kind = "presigned" => SignedInQuery(shape[w], t, original[w])
    /\ shape[w].kind = "unsigned" => NotSigned(original[w])
    /\ shape[w].kind \in {"header", "presigned", "unsigned"}
    /\ Kept(original[w], request[w])

LEMMA ArrivedIsSent ==
  ASSUME NEW w \in Workers, FromClient(w), stage[w] \notin {"idle", "client"}
  PROVE  IsClientShape(shape[w]) /\ \E t \in 0..MaxClock : SentAt(w, t)
  <1> DEFINE s == shape[w]
             o == original[w]
  <1>1. IsClientShape(s)
    BY DEF FromClient
  <1>2. PICK t \in 0..MaxClock :
          o = ClientRequest(s, t) /\ request[w] = Altered(o, s.altered)
    BY DEF FromClient, Arrived
  <1>3. s.kind \in {"header", "presigned", "unsigned"}
    BY <1>1 DEF IsClientShape
  <1>4. /\ s.kind = "header" => SignedInHeader(s, t, o)
        /\ s.kind = "presigned" => SignedInQuery(s, t, o)
        /\ s.kind = "unsigned" => NotSigned(o)
    BY <1>1, <1>2, HeaderRequest, PresignedRequest, UnsignedRequest
  <1>5. DOMAIN o = Fields
    BY <1>3, <1>4 DEF SignedInHeader, SignedInQuery, NotSigned
  <1>6. Kept(o, request[w])
    BY <1>1, <1>2, <1>5, AlteredKeeps
  <1> QED BY <1>1, <1>3, <1>4, <1>6 DEF SentAt

\* What the proxy tells of a request by its signature is what its client did.
LEMMA SentIsSeen ==
  ASSUME NEW w \in Workers, NEW t, SentAt(w, t)
  PROVE  /\ shape[w].kind = "header" => SeenInHeader(t, request[w])
         /\ shape[w].kind = "presigned" => SeenInQuery(shape[w], t, original[w], request[w])
         /\ shape[w].kind = "presigned" <=> InQuery(request[w])
         /\ CanCheckHeader(request[w]) /\ ~InQuery(request[w]) => shape[w].kind = "header"
         /\ ~InQuery(request[w]) => Names(request[w].query) \cap PresignParams = {}
  <1>1. CASE shape[w].kind = "header"
    <2>1. SeenInHeader(t, request[w])
      BY <1>1, HeaderSeen DEF SentAt
    <2> QED BY <1>1, <2>1 DEF SeenInHeader
  <1>2. CASE shape[w].kind = "presigned"
    <2>1. SeenInQuery(shape[w], t, original[w], request[w])
      BY <1>2, PresignedSeen DEF SentAt
    <2> QED BY <1>2, <2>1 DEF SeenInQuery
  <1>3. CASE shape[w].kind = "unsigned"
    BY <1>3, UnsignedSeen DEF SentAt
  <1> QED BY <1>1, <1>2, <1>3 DEF SentAt

\* What concerns a request changes only in its own steps.
Untold(v) ==
    /\ UNCHANGED <<shape, checked>>
    /\ stage'[v] = stage[v] /\ original'[v] = original[v] /\ request'[v] = request[v]
    /\ is_presigned'[v] = is_presigned[v] /\ asked'[v] = asked[v]
    /\ upstream'[v] = upstream[v]
    /\ v \in verified' <=> v \in verified

LEMMA OthersStay ==
  ASSUME NEW v \in Workers, RequestInv(v), Untold(v), clock' = clock
  PROVE  RequestInv(v)'
  BY DEF RequestInv, Untold, FromClient, Arrived, AskedForItsKey, KnownPresigned, Untouched,
         TurnedAway, OneSignatureOn, ToCheck

\* A presigned URL that has expired stays expired.
LEMMA TimePasses ==
  ASSUME NEW v \in Workers, Indexed, RequestInv(v), Untold(v), clock' = clock + 1
  PROVE  RequestInv(v)'
  <1>1. FromClient(v)' /\ AskedForItsKey(v)' /\ KnownPresigned(v)' /\ Untouched(v)' /\ OneSignatureOn(v)'
    BY DEF RequestInv, Untold, FromClient, Arrived, AskedForItsKey, KnownPresigned, Untouched,
           OneSignatureOn, ToCheck
  <1>2. ASSUME stage[v] \in {"rejected", "unreadable"}, InQuery(request[v]),
               Expired(request[v], clock)
        PROVE  Expired(request[v], clock + 1)
    <2>1. PICK t \in 0..MaxClock : SentAt(v, t)
      BY <1>2, ArrivedIsSent DEF RequestInv
    <2>2. IsClientShape(shape[v])
      BY <1>2, ArrivedIsSent DEF RequestInv
    <2>3. SeenInQuery(shape[v], t, original[v], request[v])
      BY <1>2, <2>1, SentIsSeen
    <2>4. /\ ValueOf(request[v].query, "X-Amz-Date") \in Nat
          /\ ValueOf(request[v].query, "X-Amz-Expires") \in Nat
      BY <2>2, <2>3 DEF SeenInQuery, IsClientShape
    <2>5. clock \in Nat
      BY DEF Indexed
    <2> QED BY <1>2, <2>4, <2>5 DEF Expired
  <1>3. TurnedAway(v)'
    BY <1>2 DEF RequestInv, Untold, TurnedAway
  <1> QED BY <1>1, <1>3 DEF RequestInv

LEMMA OneMoves ==
  ASSUME CheckInv, NEW w \in Workers, clock' = clock, Indexed',
         \A v \in Workers \ {w} : Untold(v), RequestInv(w)'
  PROVE  CheckInv'
  BY OthersStay DEF CheckInv

LEMMA SendStep ==
  ASSUME CheckInv, NEW w \in Workers, Send(w)
  PROVE  CheckInv'
  <1> DEFINE s == shape[w]
             t == IF s.age <= clock THEN clock - s.age ELSE 0
  <1>1. /\ stage[w] = "client" /\ stage' = [stage EXCEPT ![w] = "filter"]
        /\ original' = [original EXCEPT ![w] = ClientRequest(s, t)]
        /\ request' = [request EXCEPT ![w] = Altered(ClientRequest(s, t), s.altered)]
        /\ UNCHANGED <<shape, checked, clock, is_presigned, verified, upstream, asked>>
    BY DEF Send, Goto, config, cacheVars
  <1>2. Indexed' /\ \A v \in Workers \ {w} : Untold(v)
    BY <1>1 DEF CheckInv, Indexed, Untold
  <1>3. IsClientShape(s)
    BY <1>1 DEF CheckInv, RequestInv, FromClient
  <1>4. t \in 0..MaxClock
    BY <1>3, ClientAssumption DEF CheckInv, Indexed, IsClientShape
  <1>5. /\ original'[w] = ClientRequest(s, t)
        /\ request'[w] = Altered(original'[w], s.altered)
        /\ stage'[w] = "filter" /\ ~is_presigned'[w] /\ w \notin verified'
    BY <1>1 DEF CheckInv, Indexed, RequestInv, KnownPresigned, Untouched, Through
  <1> HIDE DEF t
  <1>6. FromClient(w)'
    BY <1>1, <1>3, <1>4, <1>5 DEF FromClient, Arrived
  <1>7. RequestInv(w)'
    BY <1>5, <1>6 DEF RequestInv, AskedForItsKey, KnownPresigned, Untouched, TurnedAway,
                      OneSignatureOn, Through, Onward
  <1> QED BY <1>1, <1>2, <1>7, OneMoves

\* Steps that only decide where a request goes.
LEMMA Decided ==
  ASSUME CheckInv, NEW w \in Workers, NEW to, stage[w] \notin {"idle", "client"},
         to # "idle", to # "client",
         stage' = [stage EXCEPT ![w] = to],
         UNCHANGED <<shape, checked, clock, original, request, is_presigned, verified,
                     upstream, asked>>
  PROVE  /\ Indexed' /\ (\A v \in Workers \ {w} : Untold(v)) /\ stage'[w] = to
         /\ FromClient(w)'
         /\ InQuery(request[w])' = InQuery(request[w])
         /\ ToCheck(request[w])' = ToCheck(request[w])
         /\ NotRebuilt(request[w])' = NotRebuilt(request[w])
         /\ Expired(request[w], clock)' = Expired(request[w], clock)
  BY DEF CheckInv, Indexed, RequestInv, FromClient, Arrived, Untold, InQuery, ToCheck, NotRebuilt, Expired

LEMMA UnreadableStep ==
  ASSUME CheckInv, NEW w \in Workers, Unreadable(w)
  PROVE  CheckInv'
  <1> DEFINE to == IF ParsePath(request[w].path).outcome = "ok" THEN "unreadable"
                   ELSE "malformed"
  <1>1. /\ stage[w] = "filter" /\ stage' = [stage EXCEPT ![w] = to]
        /\ UNCHANGED <<shape, checked, clock, original, request, is_presigned, verified,
                       upstream, asked>>
        /\ ~Readable(request[w])
    BY DEF Unreadable, Goto, config, cacheVars
  <1>2. /\ Indexed' /\ (\A v \in Workers \ {w} : Untold(v)) /\ stage'[w] = to
        /\ FromClient(w)'
    BY <1>1, Decided
  <1>3. ASSUME to = "unreadable", shape[w].kind # "unsigned", request[w] = original[w]
        PROVE  NotRebuilt(request[w])
    <2>1. PICK t \in 0..MaxClock : SentAt(w, t)
      BY <1>1, ArrivedIsSent DEF CheckInv, RequestInv
    <2>2. request[w].auth = NoAuth /\ ~PresignedParamsParse(request[w].query)
      BY <1>1, <1>3 DEF Readable
    <2>3. shape[w].kind = "presigned"
      BY <1>3, <2>1, <2>2 DEF SentAt, SignedInHeader, NoAuth
    <2> QED BY <1>3, <2>1, <2>2, <2>3, SentIsSeen, ReadableQuery DEF SentAt
  <1>4. w \notin verified
    BY <1>1 DEF CheckInv, RequestInv, Untouched, Through
  <1>5. TurnedAway(w)'
    BY <1>1, <1>2, <1>3 DEF TurnedAway
  <1>6. RequestInv(w)'
    BY <1>1, <1>2, <1>4, <1>5 DEF RequestInv, AskedForItsKey, KnownPresigned, Untouched,
                                  OneSignatureOn, Through, Onward
  <1> QED BY <1>1, <1>2, <1>6, OneMoves

LEMMA SkipStep ==
  ASSUME CheckInv, NEW w \in Workers, Skip(w)
  PROVE  CheckInv'
  <1>1. /\ stage[w] = "filter" /\ stage' = [stage EXCEPT ![w] = "forward"]
        /\ UNCHANGED <<shape, checked, clock, original, request, is_presigned, verified,
                       upstream, asked>>
        /\ ~ToCheck(request[w])
    BY DEF Skip, Goto, config, cacheVars
  <1>2. /\ Indexed' /\ (\A v \in Workers \ {w} : Untold(v)) /\ stage'[w] = "forward"
        /\ FromClient(w)' /\ ~ToCheck(request[w])'
    BY <1>1, Decided
  <1>3. w \notin verified
    BY <1>1 DEF CheckInv, RequestInv, Untouched, Through
  <1>4. RequestInv(w)'
    BY <1>1, <1>2, <1>3 DEF RequestInv, AskedForItsKey, KnownPresigned, Untouched,
                            TurnedAway, OneSignatureOn, Onward
  <1> QED BY <1>1, <1>2, <1>4, OneMoves

LEMMA RefuseStep ==
  ASSUME CheckInv, NEW w \in Workers, Refuse(w)
  PROVE  CheckInv'
  <1>1. /\ stage[w] = "filter" /\ stage' = [stage EXCEPT ![w] = "rejected"]
        /\ UNCHANGED <<shape, checked, clock, original, request, is_presigned, verified,
                       upstream, asked>>
        /\ \/ InQuery(request[w]) /\ Expired(request[w], clock)
           \/ ~InQuery(request[w]) /\ ~CanCheckHeader(request[w])
    BY DEF Refuse, Goto, config, cacheVars
  <1>2. /\ Indexed' /\ (\A v \in Workers \ {w} : Untold(v)) /\ stage'[w] = "rejected"
        /\ FromClient(w)'
    BY <1>1, Decided
  <1>3. ASSUME shape[w].kind # "unsigned"
        PROVE  InQuery(request[w]) /\ Expired(request[w], clock)
    <2>1. PICK t \in 0..MaxClock : SentAt(w, t)
      BY <1>1, ArrivedIsSent DEF CheckInv, RequestInv
    <2> QED BY <1>1, <1>3, <2>1, SentIsSeen DEF SentAt, SeenInHeader
  <1>4. w \notin verified
    BY <1>1 DEF CheckInv, RequestInv, Untouched, Through
  <1>5. TurnedAway(w)'
    BY <1>1, <1>2, <1>3 DEF TurnedAway
  <1>6. RequestInv(w)'
    BY <1>1, <1>2, <1>4, <1>5 DEF RequestInv, AskedForItsKey, KnownPresigned, Untouched,
                                  OneSignatureOn, Through, Onward
  <1> QED BY <1>1, <1>2, <1>6, OneMoves

LEMMA CheckStep ==
  ASSUME SigningInv, CheckInv, NEW w \in Workers, CheckPresigned(w) \/ CheckHeader(w)
  PROVE  CheckInv'
  <1> DEFINE args == IF InQuery(request[w]) THEN PresignedKeyArgs(request[w], ClientSecret)
                     ELSE HeaderKeyArgs(request[w], ClientSecret)
  <1>1. /\ stage[w] = "filter" /\ stage' = [stage EXCEPT ![w] = "verifying"]
        /\ asked' = [asked EXCEPT ![w] = args]
        /\ UNCHANGED <<shape, checked, clock, original, request, verified, upstream>>
    BY DEF CheckPresigned, CheckHeader, Goto, config, Call
  <1>2. /\ DOMAIN is_presigned' = Workers
        /\ \A v \in Workers \ {w} : is_presigned'[v] = is_presigned[v]
        /\ is_presigned'[w] = InQuery(request[w])
    <2>1. CASE CheckPresigned(w)
      BY <2>1 DEF CheckPresigned, CheckInv, Indexed
    <2>2. CASE CheckHeader(w)
      <3>1. ~is_presigned[w]
        BY <1>1 DEF CheckInv, RequestInv, KnownPresigned
      <3>2. is_presigned' = is_presigned /\ ~InQuery(request[w])
        BY <2>2 DEF CheckHeader
      <3>3. is_presigned[w] = FALSE
        BY <3>1
      <3> QED BY <3>2, <3>3 DEF CheckInv, Indexed, InQuery
    <2> QED BY <2>1, <2>2
  <1>3. ~InQuery(request[w]) => CanCheckHeader(request[w])
    BY DEF CheckPresigned, CheckHeader
  <1>4. DOMAIN asked = Workers
    BY DEF SigningInv, KeyInv, Domains
  <1>5. Indexed' /\ (\A v \in Workers \ {w} : Untold(v)) /\ stage'[w] = "verifying"
    BY <1>1, <1>2, <1>4 DEF CheckInv, Indexed, Untold
  <1>6. FromClient(w)'
    BY <1>1, <1>5 DEF CheckInv, RequestInv, FromClient, Arrived
  <1>7. w \notin verified
    BY <1>1 DEF CheckInv, RequestInv, Untouched, Through
  <1>8. AskedForItsKey(w)'
    BY <1>1, <1>2, <1>3, <1>4 DEF AskedForItsKey
  <1>9. RequestInv(w)'
    BY <1>1, <1>5, <1>6, <1>7, <1>8 DEF RequestInv, KnownPresigned, Untouched,
                                        TurnedAway, OneSignatureOn, Through, Onward
  <1> QED BY <1>1, <1>5, <1>9, OneMoves

\* A signature that is found valid is the client's for what it signed, and one
\* found invalid is not, unless the URL cannot be rebuilt.
LEMMA CheckTells ==
  ASSUME SigningInv, CheckInv, NEW w \in Workers, stage[w] = "verifying", pc[w] = "returned",
         NEW valid, valid = IF is_presigned[w]
                              THEN PresignedSignatureIsValid(request[w], result[w])
                              ELSE HeaderSignatureIsValid(request[w], result[w])
  PROVE  /\ valid => shape[w].own_secret /\ CoveredAsRead(request[w]) = Covered(original[w])
         /\ ~valid /\ shape[w].kind # "unsigned" /\ shape[w].own_secret
              /\ request[w] = original[w] => NotRebuilt(request[w])
  <1> DEFINE s == shape[w]
             o == original[w]
             a == request[w]
  <1>1. RequestInv(w)
    BY DEF CheckInv
  <1>2. IsClientShape(s)
    BY <1>1, ArrivedIsSent DEF RequestInv
  <1>3. PICK t \in 0..MaxClock : SentAt(w, t)
    BY <1>1, ArrivedIsSent DEF RequestInv
  <1>4. Kept(o, a)
    BY <1>3 DEF SentAt
  <1>5. /\ is_presigned[w] = InQuery(a)
        /\ result[w] = Derive(asked[w])
    BY <1>1 DEF RequestInv, AskedForItsKey, SigningInv, KeyInv, ReturnedIsDerived
  <1>6. CASE InQuery(a)
    <2>1. s.kind = "presigned" /\ SeenInQuery(s, t, o, a) /\ SignedInQuery(s, t, o)
      BY <1>3, <1>6, SentIsSeen DEF SentAt
    <2>2. asked[w] = ProxyArgs(t)
      BY <1>1, <1>6, <2>1, PresignedKey DEF RequestInv, AskedForItsKey
    <2>3. valid = PresignedSignatureIsValid(a, Derive(ProxyArgs(t)))
      BY <1>5, <1>6, <2>2
    <2> QED BY <1>2, <1>4, <1>6, <2>1, <2>3, PresignedMatches, PresignedGenuine
  <1>7. CASE ~InQuery(a)
    <2>1. CanCheckHeader(a) /\ asked[w] = HeaderKeyArgs(a, ClientSecret)
      BY <1>1, <1>7 DEF RequestInv, AskedForItsKey
    <2>2. s.kind = "header" /\ SeenInHeader(t, a) /\ SignedInHeader(s, t, o)
      BY <1>3, <1>7, <2>1, SentIsSeen DEF SentAt
    <2>3. asked[w] = ProxyArgs(t)
      BY <2>1, <2>2 DEF SeenInHeader
    <2>4. valid = HeaderSignatureIsValid(a, Derive(ProxyArgs(t)))
      BY <1>5, <1>7, <2>3
    <2>5. UrlPath(a.path) = AwsPath(a.path) \/ NotRebuilt(a)
      BY DEF NotRebuilt
    <2> QED BY <1>2, <1>4, <2>2, <2>4, <2>5, HeaderMatches, HeaderGenuine
  <1> QED BY <1>6, <1>7

LEMMA VerifyStep ==
  ASSUME SigningInv, CheckInv, NEW w \in Workers, Verify(w)
  PROVE  CheckInv'
  <1> DEFINE valid == IF is_presigned[w]
                        THEN PresignedSignatureIsValid(request[w], result[w])
                        ELSE HeaderSignatureIsValid(request[w], result[w])
             to == IF valid THEN "forward" ELSE "rejected"
  <1>1. /\ stage[w] = "verifying" /\ pc[w] = "returned"
        /\ stage' = [stage EXCEPT ![w] = to]
        /\ verified' = IF valid THEN verified \cup {w} ELSE verified
        /\ UNCHANGED <<shape, checked, clock, original, request, is_presigned, upstream, asked>>
    BY DEF Verify, Goto, config, Return
  <1>2. /\ valid => shape[w].own_secret /\ CoveredAsRead(request[w]) = Covered(original[w])
        /\ ~valid /\ shape[w].kind # "unsigned" /\ shape[w].own_secret
             /\ request[w] = original[w] => NotRebuilt(request[w])
    BY <1>1, CheckTells
  <1> HIDE DEF valid
  <1>3. Indexed' /\ (\A v \in Workers \ {w} : Untold(v)) /\ stage'[w] = to
    BY <1>1 DEF CheckInv, Indexed, Untold
  <1>4. FromClient(w)'
    BY <1>1, <1>3 DEF CheckInv, RequestInv, FromClient, Arrived
  <1>5. w \notin verified /\ is_presigned[w] = InQuery(request[w])
    BY <1>1 DEF CheckInv, RequestInv, Untouched, Through, AskedForItsKey
  <1>6. Untouched(w)'
    BY <1>1, <1>2, <1>3, <1>5 DEF Untouched, Through
  <1>7. TurnedAway(w)'
    BY <1>1, <1>2, <1>3 DEF TurnedAway
  <1>8. RequestInv(w)'
    BY <1>1, <1>3, <1>4, <1>5, <1>6, <1>7 DEF RequestInv, AskedForItsKey, KnownPresigned,
                                              OneSignatureOn, Onward
  <1> QED BY <1>1, <1>3, <1>8, OneMoves

\* What upstream_request_filter makes of a request has no part of a signature in
\* its query, if the request is known for what it is.
LEMMA UpstreamQuery ==
  ASSUME NEW r, NEW presigned, NEW t, NEW u,
         LET up == UpstreamRequest(r, item, presigned) IN
           u \in {[up EXCEPT !.auth = Bearer], PrepareStreaming(up, t), PrepareRequest(up, t)}
  PROVE  /\ "query" \in DOMAIN u
         /\ presigned = InQuery(r)
              /\ (~InQuery(r) => Names(r.query) \cap PresignParams = {})
            => Names(u.query) \cap PresignParams = {}
  <1> DEFINE up == UpstreamRequest(r, item, presigned)
  <1>1. "query" \in DOMAIN u /\ u.query = up.query
    BY DEF PrepareStreaming, PrepareRequest, UpstreamRequest
  <1>2. up.query = IF presigned THEN CleanedQuery(r.query) ELSE r.query
    BY DEF UpstreamRequest
  <1>3. Names(CleanedQuery(r.query)) \cap PresignParams = {}
    BY DEF CleanedQuery, AmzParams, RestrictValues, Restrict, Names
  <1> QED BY <1>1, <1>2, <1>3

LEMMA ForwardStep ==
  ASSUME SigningInv, CheckInv, NEW w \in Workers, Forward(w)
  PROVE  CheckInv'
  <1> DEFINE r == UpstreamRequest(request[w], item, is_presigned[w])
  <1>1. /\ stage[w] = "forward" /\ DOMAIN asked = Workers
        /\ UNCHANGED <<shape, checked, clock, original, request, is_presigned, verified>>
    BY DEF Forward, config, SigningInv, KeyInv, Domains
  <1>2. /\ DOMAIN stage' = Workers /\ stage'[w] \in {"sent", "unsigned", "signing"}
        /\ DOMAIN upstream' = Workers
        /\ \A v \in Workers \ {w} :
             stage'[v] = stage[v] /\ upstream'[v] = upstream[v] /\ asked'[v] = asked[v]
        /\ stage'[w] = "unsigned"
            \/ upstream'[w] \in {[r EXCEPT !.auth = Bearer], PrepareStreaming(r, clock),
                                 PrepareRequest(r, clock)}
    <2> HIDE DEF r
    <2> QED BY <1>1 DEF Forward, Goto, Call, CheckInv, Indexed, cacheVars, r
  <1>3. Indexed' /\ (\A v \in Workers \ {w} : Untold(v))
    BY <1>1, <1>2 DEF CheckInv, Indexed, Untold
  <1>4. FromClient(w)'
    BY <1>1, <1>2 DEF CheckInv, RequestInv, FromClient, Arrived
  <1>5. OneSignatureOn(w)'
    <2>1. ~InQuery(request[w]) => Names(request[w].query) \cap PresignParams = {}
      <3>1. PICK t \in 0..MaxClock : SentAt(w, t)
        BY <1>1, ArrivedIsSent DEF CheckInv, RequestInv
      <3> QED BY <3>1, SentIsSeen
    <2>2. ToCheck(request[w]) => is_presigned[w] = InQuery(request[w])
      BY <1>1 DEF CheckInv, RequestInv, KnownPresigned, Through
    <2>3. ToCheck(request[w])' = ToCheck(request[w])
      BY <1>1 DEF ToCheck
    <2>4. CASE stage'[w] = "unsigned"
      BY <2>4 DEF OneSignatureOn, Onward
    <2>5. CASE upstream'[w] \in {[r EXCEPT !.auth = Bearer], PrepareStreaming(r, clock),
                                 PrepareRequest(r, clock)}
      BY <2>1, <2>2, <2>3, <2>5, UpstreamQuery DEF OneSignatureOn
    <2> QED BY <1>2, <2>4, <2>5
  <1>6. KnownPresigned(w)' /\ Untouched(w)'
    BY <1>1, <1>2 DEF CheckInv, RequestInv, KnownPresigned, Untouched, Through, ToCheck
  <1>7. RequestInv(w)'
    BY <1>2, <1>4, <1>5, <1>6 DEF RequestInv, AskedForItsKey, TurnedAway
  <1> QED BY <1>1, <1>3, <1>7, OneMoves

LEMMA SignStep ==
  ASSUME SigningInv, CheckInv, NEW w \in Workers, Sign(w)
  PROVE  CheckInv'
  <1>1. /\ stage[w] = "signing" /\ stage' = [stage EXCEPT ![w] = "sent"]
        /\ upstream' = [upstream EXCEPT ![w] =
              Signed(@, item.access_key, result[w], datetime[w], item.region)]
        /\ UNCHANGED <<shape, checked, clock, original, request, is_presigned, verified, asked>>
    BY DEF Sign, Goto, config, Return
  <1>2. Indexed' /\ (\A v \in Workers \ {w} : Untold(v)) /\ stage'[w] = "sent"
    BY <1>1 DEF CheckInv, Indexed, Untold
  <1>3. "query" \in DOMAIN upstream'[w] /\ upstream'[w].query = upstream[w].query
    BY <1>1 DEF CheckInv, Indexed, RequestInv, OneSignatureOn, Onward, Signed
  <1>4. OneSignatureOn(w)'
    BY <1>1, <1>3 DEF CheckInv, RequestInv, OneSignatureOn, Onward, ToCheck
  <1>5. FromClient(w)' /\ KnownPresigned(w)' /\ Untouched(w)'
    BY <1>1, <1>2 DEF CheckInv, RequestInv, FromClient, Arrived, KnownPresigned, Untouched,
                      Through, ToCheck
  <1>6. RequestInv(w)'
    BY <1>2, <1>4, <1>5 DEF RequestInv, AskedForItsKey, TurnedAway
  <1> QED BY <1>1, <1>2, <1>6, OneMoves

LEMMA RetryStep ==
  ASSUME CheckInv, NEW w \in Workers, Retry(w)
  PROVE  CheckInv'
  <1>1. /\ stage[w] = "sent" /\ stage' = [stage EXCEPT ![w] = "forward"]
        /\ UNCHANGED <<shape, checked, clock, original, request, is_presigned, verified,
                       upstream, asked>>
    BY DEF Retry, Goto, config, cacheVars
  <1>2. Indexed' /\ (\A v \in Workers \ {w} : Untold(v)) /\ stage'[w] = "forward"
        /\ FromClient(w)'
    BY <1>1, Decided
  <1>3. KnownPresigned(w)' /\ Untouched(w)'
    BY <1>1, <1>2 DEF CheckInv, RequestInv, KnownPresigned, Untouched, Through, ToCheck
  <1>4. RequestInv(w)'
    BY <1>2, <1>3 DEF RequestInv, AskedForItsKey, TurnedAway, OneSignatureOn, Onward
  <1> QED BY <1>1, <1>2, <1>4, OneMoves

LEMMA CheckInit == Init => CheckInv
  <1> SUFFICES ASSUME Init PROVE CheckInv
    OBVIOUS
  <1>1. Indexed
    BY ClientAssumption DEF Init, Indexed
  <1>2. ASSUME NEW w \in Workers
        PROVE  /\ stage[w] \in {"idle", "client"} /\ w \notin verified /\ ~is_presigned[w]
               /\ stage[w] = "client" => IsClientShape(shape[w])
    <2>1. shape[w] = NoRequest \/ IsClientShape(shape[w])
      BY SetupsAssumption DEF Init
    <2> QED BY <2>1 DEF Init
  <1>3. \A w \in Workers : RequestInv(w)
    BY <1>2 DEF RequestInv, FromClient, AskedForItsKey, KnownPresigned, Untouched, TurnedAway,
                OneSignatureOn, Through, Onward
  <1> QED BY <1>1, <1>3 DEF CheckInv

LEMMA CheckNext == SigningInv /\ CheckInv /\ [Next]_signingVars => CheckInv'
  <1> SUFFICES ASSUME SigningInv, CheckInv, [Next]_signingVars PROVE CheckInv'
    OBVIOUS
  <1>1. ASSUME NEW w \in Workers, KeyStep(w) PROVE CheckInv'
    <2>1. /\ UNCHANGED <<shape, checked, clock, stage, original, request, is_presigned, verified,
                         upstream, asked>>
      BY <1>1 DEF KeyStep, Derivation, Get, Retain, Insert, config, pipeline
    <2>2. Indexed' /\ \A v \in Workers : Untold(v)
      BY <2>1 DEF CheckInv, Indexed, Untold
    <2> QED BY <2>1, <2>2, OthersStay DEF CheckInv
  <1>2. CASE Tick
    <2>1. /\ UNCHANGED <<shape, checked, stage, original, request, is_presigned, verified,
                         upstream, asked>>
          /\ clock' = clock + 1 /\ clock < MaxClock
      BY <1>2 DEF Tick, config, pipeline, cacheVars
    <2>2. Indexed' /\ \A v \in Workers : Untold(v)
      BY <2>1, ClientAssumption DEF CheckInv, Indexed, Untold
    <2> QED BY <2>1, <2>2, TimePasses DEF CheckInv
  <1>3. CASE UNCHANGED signingVars
    <2>1. UNCHANGED <<shape, checked, clock, stage, original, request, is_presigned, verified,
                      upstream, asked>>
      BY <1>3 DEF signingVars, config, pipeline, cacheVars
    <2>2. Indexed' /\ \A v \in Workers : Untold(v)
      BY <2>1 DEF CheckInv, Indexed, Untold
    <2> QED BY <2>1, <2>2, OthersStay DEF CheckInv
  <1> QED BY <1>1, <1>2, <1>3, SendStep, UnreadableStep, SkipStep, RefuseStep, CheckStep,
             VerifyStep, ForwardStep, SignStep, RetryStep DEF Next

LEMMA CheckInvariant == Spec => [](SigningInv /\ CheckInv)
  BY SigningInit, SigningStep, CheckInit, CheckNext, PTL DEF Spec

--------------------------------------------------------------------------------
(* The theorems                                                            *)

\* A request that passes the check was signed with the secret of its access key,
\* and what its signature covers arrived as it was signed, up to the differences
\* that the check does not see: those that Url takes out of a path, and for a
\* presigned URL those in how its host is shown and its parameters are decoded
\* twice (signer.rs:201, 610-893).
THEOREM VerifiedIsUntouchedHolds == Spec => []VerifiedIsUntouched
  <1>1. CheckInv => VerifiedIsUntouched
    BY DEF CheckInv, Indexed, RequestInv, Untouched, VerifiedIsUntouched
  <1> QED BY CheckInvariant, <1>1, PTL

\* A client that signs with its secret is not turned away, as long as its
\* presigned URL is still valid and its request is none the check cannot rebuild:
\* a path that Url reads otherwise than AWS; of presigned URLs a parameter that
\* is no pair or is changed by decoding it twice, a header that is not copied, a
\* host that is shown differently (signer.rs:201, 306, 661-893).
THEOREM GenuineVerifiesHolds == Spec => []GenuineVerifies
  <1>1. CheckInv => GenuineVerifies
    BY DEF CheckInv, RequestInv, TurnedAway, GenuineVerifies
  <1> QED BY CheckInvariant, <1>1, PTL

\* Where signatures are checked, a request goes on with the proxy's signature as
\* its only one (lib.rs:684-686, 1006-1032).
THEOREM OneSignatureHolds == Spec => []OneSignature
  <1>1. CheckInv => OneSignature
    BY DEF CheckInv, RequestInv, OneSignatureOn, OneSignature, Onward, Sent
  <1> QED BY CheckInvariant, <1>1, PTL

--------------------------------------------------------------------------------
(* Requests are callers of signing_key as SigningKeyCache describes them   *)

\* The variables that a request does not share with the cache, and what of the
\* configuration it passes on.
RequestTypes ==
    /\ checked \in BOOLEAN
    /\ item.region \in Regions /\ item.secret_key \in Secrets
    /\ stage \in [Workers -> Stages]
    /\ is_presigned \in [Workers -> BOOLEAN]
    /\ datetime \in [Workers -> 0..MaxClock]

LEMMA RequestTypesInit == Init => RequestTypes
  <1> SUFFICES ASSUME Init PROVE RequestTypes
    OBVIOUS
  <1>1. PICK setup \in Setups : item = setup.item /\ checked = setup.checked
    BY DEF Init
  <1>2. checked \in BOOLEAN /\ item.region \in Regions /\ item.secret_key \in Secrets
    BY <1>1, SetupsAssumption
  <1>3. /\ stage \in [Workers -> Stages]
        /\ is_presigned \in [Workers -> BOOLEAN]
        /\ datetime \in [Workers -> 0..MaxClock]
    BY ClientAssumption DEF Init, Stages
  <1> QED BY <1>2, <1>3 DEF RequestTypes

LEMMA RequestTypesStep == CheckInv /\ RequestTypes /\ [Next]_signingVars => RequestTypes'
  <1> SUFFICES ASSUME CheckInv, RequestTypes, [Next]_signingVars PROVE RequestTypes'
    OBVIOUS
  <1> USE DEF RequestTypes, Stages, Goto, config
  <1>1. clock \in 0..MaxClock
    BY DEF CheckInv, Indexed
  <1>2. ASSUME NEW w \in Workers, Send(w) PROVE RequestTypes'
    BY <1>2 DEF Send
  <1>3. ASSUME NEW w \in Workers, Unreadable(w) PROVE RequestTypes'
    BY <1>3 DEF Unreadable
  <1>4. ASSUME NEW w \in Workers, Skip(w) \/ Refuse(w) \/ Retry(w) PROVE RequestTypes'
    BY <1>4 DEF Skip, Refuse, Retry
  <1>5. ASSUME NEW w \in Workers, CheckPresigned(w) \/ CheckHeader(w) PROVE RequestTypes'
    BY <1>5 DEF CheckPresigned, CheckHeader
  <1>6. ASSUME NEW w \in Workers, Verify(w) \/ Sign(w) PROVE RequestTypes'
    BY <1>6 DEF Verify, Sign
  <1>7. ASSUME NEW w \in Workers, Forward(w) PROVE RequestTypes'
    BY <1>1, <1>7 DEF Forward
  <1>8. ASSUME NEW w \in Workers, KeyStep(w) PROVE RequestTypes'
    BY <1>8 DEF KeyStep, pipeline
  <1>9. CASE Tick \/ UNCHANGED signingVars
    BY <1>9 DEF Tick, signingVars, pipeline
  <1> QED BY <1>2, <1>3, <1>4, <1>5, <1>6, <1>7, <1>8, <1>9 DEF Next

LEMMA TypesInvariant == Spec => [](CheckInv /\ RequestTypes)
  BY SigningInit, SigningStep, CheckInit, CheckNext, RequestTypesInit, RequestTypesStep,
     PTL DEF Spec

\* The keys that checking asks for are the client's of some day there is.
LEMMA AskedIsClients ==
  ASSUME CheckInv, NEW w \in Workers, stage[w] = "filter"
  PROVE  /\ InQuery(request[w]) => PresignedKeyArgs(request[w], ClientSecret) \in Args
         /\ ~InQuery(request[w]) /\ CanCheckHeader(request[w]) =>
              HeaderKeyArgs(request[w], ClientSecret) \in Args
  <1>1. PICK t \in 0..MaxClock : SentAt(w, t)
    BY ArrivedIsSent DEF CheckInv, RequestInv
  <1>2. ProxyArgs(t) \in Args
    BY ClientAssumption DEF ProxyArgs, KeyArgs, Args
  <1>3. ASSUME InQuery(request[w])
        PROVE  PresignedKeyArgs(request[w], ClientSecret) = ProxyArgs(t)
    <2>1. SeenInQuery(shape[w], t, original[w], request[w])
      BY <1>1, <1>3, SentIsSeen
    <2> QED BY <2>1, PresignedKey
  <1>4. ASSUME ~InQuery(request[w]), CanCheckHeader(request[w])
        PROVE  HeaderKeyArgs(request[w], ClientSecret) = ProxyArgs(t)
    BY <1>1, <1>4, SentIsSeen DEF SeenInHeader
  <1> QED BY <1>2, <1>3, <1>4

LEMMA ForwardAsks ==
  ASSUME CheckInv, RequestTypes
  PROVE  KeyArgs(clock, item.region, "s3", item.secret_key) \in Args
  BY ClientAssumption DEF CheckInv, Indexed, RequestTypes, KeyArgs, Args

LEMMA StepOfCache == CheckInv /\ RequestTypes /\ [Next]_signingVars => [CacheNext]_cacheVars
  <1> SUFFICES ASSUME CheckInv, RequestTypes, [Next]_signingVars
               PROVE  CacheNext \/ UNCHANGED cacheVars
    OBVIOUS
  <1>1. ASSUME NEW w \in Workers, NEW a \in Args, Call(w, a) PROVE CacheNext
    BY <1>1 DEF CacheNext
  <1>2. ASSUME NEW w \in Workers, CheckPresigned(w) PROVE CacheNext
    <2>1. stage[w] = "filter" /\ InQuery(request[w])
          /\ Call(w, PresignedKeyArgs(request[w], ClientSecret))
      BY <1>2 DEF CheckPresigned
    <2> QED BY <1>1, <2>1, AskedIsClients
  <1>3. ASSUME NEW w \in Workers, CheckHeader(w) PROVE CacheNext
    <2>1. stage[w] = "filter" /\ ~InQuery(request[w]) /\ CanCheckHeader(request[w])
          /\ Call(w, HeaderKeyArgs(request[w], ClientSecret))
      BY <1>3 DEF CheckHeader
    <2> QED BY <1>1, <2>1, AskedIsClients
  <1>4. ASSUME NEW w \in Workers, Forward(w) PROVE CacheNext \/ UNCHANGED cacheVars
    <2>1. UNCHANGED cacheVars \/ Call(w, KeyArgs(clock, item.region, "s3", item.secret_key))
      BY <1>4 DEF Forward
    <2> QED BY <1>1, <2>1, ForwardAsks
  <1>5. ASSUME NEW w \in Workers, Verify(w) \/ Sign(w) PROVE CacheNext
    BY <1>5 DEF Verify, Sign, CacheNext
  <1>6. ASSUME NEW w \in Workers, KeyStep(w) PROVE CacheNext
    BY <1>6 DEF KeyStep, CacheNext
  <1>7. ASSUME NEW w \in Workers,
               Send(w) \/ Unreadable(w) \/ Skip(w) \/ Refuse(w) \/ Retry(w)
        PROVE  UNCHANGED cacheVars
    BY <1>7 DEF Send, Unreadable, Skip, Refuse, Retry
  <1>8. CASE Tick \/ UNCHANGED signingVars
    BY <1>8 DEF Tick, signingVars
  <1> QED BY <1>2, <1>3, <1>4, <1>5, <1>6, <1>7, <1>8 DEF Next

\* Requests use the cache as any threads may: checking clients' signatures and
\* signing for the backend are calls of signing_key and nothing else touches it
\* (signer.rs:463-503).
THEOREM RequestsUseTheCache == Spec => CacheSpec
  <1>1. Init => CacheInit
    BY DEF Init
  <1> QED BY TypesInvariant, StepOfCache, <1>1, PTL DEF Spec, CacheSpec

\* Every variable keeps its type.
THEOREM TypeCorrect == Spec => []TypeOK
  <1>1. CheckInv /\ RequestTypes /\ CacheTypeOK => TypeOK
    BY DEF CheckInv, Indexed, RequestTypes, TypeOK
  <1> QED BY TypesInvariant, RequestsUseTheCache, CacheTypeCorrect, <1>1, PTL

\* However clients date what they sign, keys of no more days than there are
\* threads are kept (signer.rs:496-500).
THEOREM DaysBoundedForRequests == Spec => []DaysBounded
  BY RequestsUseTheCache, DaysBoundedHolds, PTL
================================================================================
