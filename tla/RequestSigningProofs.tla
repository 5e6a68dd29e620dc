-------------------------- MODULE RequestSigningProofs --------------------------
(***************************************************************************)
(* Proofs about the way of a request to the backend, for any number of     *)
(* requests and clients, any configuration of the bucket, and any clock.   *)
(***************************************************************************)
EXTENDS RequestSigning, SigningKeyCacheProofs, SequenceTheorems, WellFoundedInduction

\* The variables that are indexed by workers are so for good, and the bucket's
\* configuration is one of those there are.
Shaped ==
    /\ DOMAIN stage = Workers /\ DOMAIN datetime = Workers
    /\ DOMAIN peer = Workers /\ DOMAIN upstream = Workers
    /\ item.port # 0

\* Behind upstream_peer and upstream_request_filter, whatever was signed.
Onward == {"signing", "sent"}

\* What both were computed from is the same bucket of the same path.
Directed ==
    \A w \in Workers : stage[w] \in Onward =>
        \E bucket :
            /\ peer[w] = UpstreamPeer(item, bucket)
            /\ upstream[w].authority = Endpoint(item, bucket)

\* What upstream_request_filter has made of a request when it asks for the key.
Prepared(r, t) ==
    /\ {"headers", "auth"} \subseteq DOMAIN r
    /\ {"host", "x-amz-date", "x-amz-content-sha256"} \subseteq DOMAIN r.headers
    /\ r.headers["host"] = r.authority
    /\ r.headers["x-amz-date"] = t

\* A request that waits for its key has asked for the one of its own date and
\* its bucket's secret.
ReadyToSign ==
    \A w \in Workers : stage[w] = "signing" =>
        /\ Prepared(upstream[w], datetime[w])
        /\ asked[w] = KeyArgs(datetime[w], item.region, "s3", item.secret_key)

SigningInv == KeyInv /\ Shaped /\ Directed /\ ReadyToSign /\ ForwardedVerifies

--------------------------------------------------------------------------------
(* What the steps of upstream_request_filter make of the headers           *)

LEMMA UpstreamRequestFields ==
  ASSUME NEW r, NEW presigned
  PROVE  LET u == UpstreamRequest(r, item, presigned) IN
           /\ u.authority = Endpoint(item, ParsePath(r.path).bucket)
           /\ "host" \in DOMAIN u.headers
           /\ u.headers["host"] = u.authority
  BY DEF UpstreamRequest, AllowedHeaders, Allowed, Restrict, Set

\* sign_request puts the date and a payload hash among the headers.
LEMMA PrepareRequestFields ==
  ASSUME NEW r, NEW presigned, NEW t
  PROVE  LET u == UpstreamRequest(r, item, presigned)
             p == PrepareRequest(u, t) IN
           Prepared(p, t) /\ p.authority = u.authority
  <1> DEFINE u == UpstreamRequest(r, item, presigned)
             p == PrepareRequest(u, t)
  <1>1. p.authority = u.authority
    BY DEF PrepareRequest, UpstreamRequest
  <1>2. PICK payload :
          p.headers = Set(Set(u.headers, "x-amz-date", t), "x-amz-content-sha256", payload)
    BY DEF PrepareRequest, UpstreamRequest
  <1>3. {"headers", "auth"} \subseteq DOMAIN p
    BY DEF PrepareRequest, UpstreamRequest
  <1>4. Prepared(p, t)
    BY <1>1, <1>2, <1>3, UpstreamRequestFields DEF Prepared, Set
  <1> QED BY <1>1, <1>4

\* resign_streaming_request replaces the date and keeps the declared hash.
LEMMA PrepareStreamingFields ==
  ASSUME NEW r, NEW presigned, NEW t,
         IsStreaming(UpstreamRequest(r, item, presigned))
  PROVE  LET u == UpstreamRequest(r, item, presigned)
             p == PrepareStreaming(u, t) IN
           Prepared(p, t) /\ p.authority = u.authority
  <1> DEFINE u == UpstreamRequest(r, item, presigned)
             p == PrepareStreaming(u, t)
             rest == Without(u.headers, {"content-length", "content-md5"})
  <1>1. p.authority = u.authority
    BY DEF PrepareStreaming, UpstreamRequest
  <1>2. p.headers = Set(Set(rest, "transfer-encoding", "chunked"), "x-amz-date", t)
    BY DEF PrepareStreaming, UpstreamRequest
  <1>3. {"host", "x-amz-content-sha256"} \subseteq DOMAIN u.headers
    BY UpstreamRequestFields DEF IsStreaming
  <1>4. {"host", "x-amz-content-sha256"} \subseteq DOMAIN rest /\ rest["host"] = u.headers["host"]
    BY <1>3 DEF Without, Restrict
  <1>5. {"headers", "auth"} \subseteq DOMAIN p
    BY DEF PrepareStreaming, UpstreamRequest
  <1>6. Prepared(p, t)
    BY <1>1, <1>2, <1>4, <1>5, UpstreamRequestFields DEF Prepared, Set
  <1> QED BY <1>1, <1>6

--------------------------------------------------------------------------------
(* The backend's check of what the proxy signed                            *)

\* The headers the signer covers, read back from its list of their names.
LEMMA ListedAreSigned ==
  ASSUME NEW headers
  PROVE  LET signed == HeadersToSign(headers) IN
           /\ Restrict(headers, DOMAIN signed) = signed
           /\ DOMAIN signed \subseteq DOMAIN headers
           /\ DOMAIN headers \cap ({"host"} \cup AmzHeaders) \subseteq DOMAIN signed
  BY DEF HeadersToSign, Restrict

\* A prepared request that is signed with the key of its date passes, unless it
\* declares an unsigned trailer or Url reads its path otherwise than AWS.
LEMMA SignedVerifies ==
  ASSUME NEW r, NEW t, Prepared(r, t),
         r.headers["x-amz-content-sha256"] # UnsignedTrailer,
         UrlPath(r.path) = AwsPath(r.path),
         NEW signed,
         signed = Signed(r, item.access_key,
                         Derive(KeyArgs(t, item.region, "s3", item.secret_key)),
                         t, item.region)
  PROVE  BackendVerifies(signed)
  <1> DEFINE covered == HeadersToSign(r.headers)
             key == Derive(KeyArgs(t, item.region, "s3", item.secret_key))
             canonical == CanonicalRequest(r.method, UrlPath(r.path), r.query, covered, PayloadLine(r))
  <1>1. /\ signed.headers = r.headers /\ signed.authority = r.authority
        /\ signed.method = r.method /\ signed.path = r.path /\ signed.query = r.query
        /\ signed.auth = Authorization(item.access_key, key, t,
                                       Scope(t, item.region, "s3"), canonical)
    BY DEF Signed, Prepared
  <1>2. /\ signed.auth.access_key = item.access_key
        /\ signed.auth.signed_headers = DOMAIN covered
        /\ signed.auth.signature = Signature(key, t, Scope(t, item.region, "s3"), canonical)
    BY <1>1 DEF Authorization, CanonicalRequest
  <1>3. PayloadLine(r) = r.headers["x-amz-content-sha256"]
    BY DEF PayloadLine, IsStreaming
  <1>4. /\ signed.headers["host"] = signed.authority
        /\ signed.headers["x-amz-date"] = t
        /\ {"host"} \cup (DOMAIN signed.headers \cap AmzHeaders)
             \subseteq signed.auth.signed_headers
        /\ signed.auth.signed_headers \subseteq DOMAIN signed.headers
    BY <1>1, <1>2, ListedAreSigned DEF Prepared
  <1>5. canonical = CanonicalRequest(signed.method, AwsPath(signed.path), signed.query,
                      Restrict(signed.headers, signed.auth.signed_headers),
                      signed.headers["x-amz-content-sha256"])
    BY <1>1, <1>2, <1>3, ListedAreSigned
  <1> QED BY <1>2, <1>4, <1>5 DEF BackendVerifies

--------------------------------------------------------------------------------
(* The invariant                                                           *)

LEMMA SigningInit == Init => SigningInv
  <1> SUFFICES ASSUME Init PROVE SigningInv
    OBVIOUS
  <1>1. KeyInv BY KeyInit DEF Init
  <1>2. Shaped BY SetupsAssumption DEF Init, Shaped
  <1>3. \A w \in Workers : stage[w] \notin Onward BY DEF Init, Onward
  <1> QED BY <1>1, <1>2, <1>3
          DEF SigningInv, Directed, ReadyToSign, ForwardedVerifies, Onward, Sent

LEMMA SigningStep == SigningInv /\ [Next]_signingVars => SigningInv'
  <1> SUFFICES ASSUME SigningInv, [Next]_signingVars PROVE SigningInv'
    OBVIOUS
  <1> USE DEF SigningInv, Shaped, Onward, Goto, config, Sent
  \* Steps before the request goes on: they leave what is on its way alone.
  <1>1. ASSUME NEW w \in Workers,
               Send(w) \/ Unreadable(w) \/ Skip(w) \/ Refuse(w) \/ Retry(w)
        PROVE  SigningInv'
    <2>1. UNCHANGED cacheVars /\ UNCHANGED <<item, datetime, peer, upstream>>
      BY <1>1 DEF Send, Unreadable, Skip, Refuse, Retry
    <2>2. /\ DOMAIN stage' = Workers /\ stage'[w] \notin Onward
          /\ \A v \in Workers : v # w => stage'[v] = stage[v]
      BY <1>1 DEF Send, Unreadable, Skip, Refuse, Retry
    <2>3. KeyInv' /\ asked' = asked
      BY <2>1, KeyStutter DEF cacheVars
    <2> QED BY <2>1, <2>2, <2>3 DEF Directed, ReadyToSign, ForwardedVerifies, BackendVerifies
  <1>2. ASSUME NEW w \in Workers, CheckPresigned(w) \/ CheckHeader(w) PROVE SigningInv'
    <2>1. PICK a : Call(w, a)
      BY <1>2 DEF CheckPresigned, CheckHeader
    <2>2. KeyInv'
      BY <2>1, KeyCall
    <2>3. \A v \in Workers : v # w => asked'[v] = asked[v]
      BY <2>1 DEF Call, KeyInv, Domains
    <2>4. /\ UNCHANGED <<item, datetime, peer, upstream>>
          /\ DOMAIN stage' = Workers /\ stage'[w] \notin Onward
          /\ \A v \in Workers : v # w => stage'[v] = stage[v]
      BY <1>2 DEF CheckPresigned, CheckHeader
    <2> QED BY <2>2, <2>3, <2>4 DEF Directed, ReadyToSign, ForwardedVerifies, BackendVerifies
  <1>3. ASSUME NEW w \in Workers, Verify(w) PROVE SigningInv'
    <2>1. KeyInv' /\ asked' = asked
      BY <1>3, KeyReturn DEF Verify, Return
    <2>2. /\ UNCHANGED <<item, datetime, peer, upstream>>
          /\ DOMAIN stage' = Workers /\ stage'[w] \notin Onward
          /\ \A v \in Workers : v # w => stage'[v] = stage[v]
      BY <1>3 DEF Verify
    <2> QED BY <2>1, <2>2 DEF Directed, ReadyToSign, ForwardedVerifies, BackendVerifies
  <1>4. ASSUME NEW w \in Workers, Forward(w) PROVE SigningInv'
    <2> DEFINE r == UpstreamRequest(request[w], item, is_presigned[w])
               bucket == ParsePath(request[w].path).bucket
    <2>1. /\ UNCHANGED item
          /\ peer' = [peer EXCEPT ![w] = UpstreamPeer(item, bucket)]
          /\ datetime' = [datetime EXCEPT ![w] = clock]
      BY <1>4 DEF Forward
    <2>2. \A v \in Workers : v # w =>
            /\ stage'[v] = stage[v] /\ datetime'[v] = datetime[v] /\ peer'[v] = peer[v]
      BY <1>4 DEF Forward
    <2>3. CASE /\ item.creds = "api_key"
               /\ upstream' = [upstream EXCEPT ![w] = [r EXCEPT !.auth = Bearer]]
               /\ stage' = [stage EXCEPT ![w] = "sent"]
               /\ UNCHANGED cacheVars
      <3>1. KeyInv' /\ asked' = asked
        BY <2>3, KeyStutter DEF cacheVars
      <3>2. upstream'[w].authority = Endpoint(item, bucket)
        BY <2>3, UpstreamRequestFields DEF UpstreamRequest
      <3>3. Directed' /\ ReadyToSign'
        BY <2>1, <2>2, <2>3, <3>1, <3>2 DEF Directed, ReadyToSign
      <3>4. ForwardedVerifies'
        BY <2>1, <2>2, <2>3 DEF ForwardedVerifies, BackendVerifies
      <3> QED BY <2>1, <2>3, <3>1, <3>3, <3>4
    <2>4. CASE /\ stage' = [stage EXCEPT ![w] = "unsigned"]
               /\ UNCHANGED <<upstream, cacheVars>>
      <3>1. KeyInv' /\ asked' = asked
        BY <2>4, KeyStutter DEF cacheVars
      <3>2. stage'[w] \notin Onward /\ DOMAIN stage' = Workers
        BY <2>4
      <3>3. Directed' /\ ReadyToSign'
        BY <2>1, <2>2, <2>4, <3>1, <3>2 DEF Directed, ReadyToSign
      <3>4. ForwardedVerifies'
        BY <2>1, <2>2, <2>4, <3>2 DEF ForwardedVerifies, BackendVerifies
      <3> QED BY <2>1, <2>4, <3>1, <3>2, <3>3, <3>4
    <2>5. CASE /\ upstream' = [upstream EXCEPT ![w] =
                     IF IsStreaming(r) THEN PrepareStreaming(r, clock)
                                       ELSE PrepareRequest(r, clock)]
               /\ Call(w, KeyArgs(clock, item.region, "s3", item.secret_key))
               /\ stage' = [stage EXCEPT ![w] = "signing"]
      <3>1. KeyInv'
        BY <2>5, KeyCall
      <3>2. asked' = [asked EXCEPT ![w] = KeyArgs(clock, item.region, "s3", item.secret_key)]
        BY <2>5 DEF Call
      <3>3. Prepared(upstream'[w], clock) /\ upstream'[w].authority = r.authority
        BY <2>5, PrepareRequestFields, PrepareStreamingFields
      <3>4. upstream'[w].authority = Endpoint(item, bucket)
        BY <3>3, UpstreamRequestFields
      <3>5. Directed'
        BY <2>1, <2>2, <2>5, <3>4 DEF Directed
      <3>6. ReadyToSign'
        BY <2>1, <2>2, <2>5, <3>2, <3>3 DEF ReadyToSign, KeyInv, Domains
      <3>7. ForwardedVerifies'
        BY <2>1, <2>2, <2>5 DEF ForwardedVerifies, BackendVerifies
      <3> QED BY <2>1, <2>5, <3>1, <3>5, <3>6, <3>7
    <2> QED BY <1>4, <2>3, <2>4, <2>5 DEF Forward
  <1>5. ASSUME NEW w \in Workers, Sign(w) PROVE SigningInv'
    <2> DEFINE key == Derive(KeyArgs(datetime[w], item.region, "s3", item.secret_key))
               signed == Signed(upstream[w], item.access_key, key, datetime[w], item.region)
    <2>1. KeyInv' /\ asked' = asked
      BY <1>5, KeyReturn DEF Sign, Return
    <2>2. result[w] = key /\ Prepared(upstream[w], datetime[w])
      BY <1>5 DEF Sign, Return, KeyInv, ReturnedIsDerived, ReadyToSign
    <2>3. /\ UNCHANGED <<item, datetime, peer>>
          /\ upstream' = [upstream EXCEPT ![w] = signed]
          /\ stage' = [stage EXCEPT ![w] = "sent"]
      BY <1>5, <2>2 DEF Sign
    <2>4. /\ signed.authority = upstream[w].authority /\ signed.headers = upstream[w].headers
          /\ signed.path = upstream[w].path
      BY <2>2 DEF Signed, Prepared
    <2>5. Directed'
      BY <1>5, <2>3, <2>4 DEF Directed, Sign
    <2>6. ReadyToSign'
      BY <2>1, <2>3 DEF ReadyToSign
    <2>7. /\ upstream[w].headers["x-amz-content-sha256"] # UnsignedTrailer
          /\ UrlPath(upstream[w].path) = AwsPath(upstream[w].path)
          => BackendVerifies(signed)
      BY <2>2, SignedVerifies
    <2>8. ForwardedVerifies'
      BY <2>3, <2>4, <2>7 DEF ForwardedVerifies, BackendVerifies
    <2> QED BY <2>1, <2>3, <2>5, <2>6, <2>8
  <1>6. ASSUME NEW w \in Workers, KeyStep(w) PROVE SigningInv'
    <2>1. KeyInv'
      BY <1>6, KeyDerivation DEF KeyStep
    <2>2. asked' = asked /\ UNCHANGED <<config, pipeline>>
      BY <1>6 DEF KeyStep, Derivation, Get, Retain, Insert
    <2> QED BY <2>1, <2>2 DEF pipeline, Directed, ReadyToSign, ForwardedVerifies, BackendVerifies
  <1>7. CASE Tick \/ UNCHANGED signingVars
    <2>1. UNCHANGED <<config, pipeline, cacheVars>>
      BY <1>7 DEF Tick, signingVars
    <2>2. KeyInv' /\ asked' = asked
      BY <2>1, KeyStutter DEF cacheVars
    <2> QED BY <2>1, <2>2 DEF pipeline, Directed, ReadyToSign, ForwardedVerifies, BackendVerifies
  <1> QED BY <1>1, <1>2, <1>3, <1>4, <1>5, <1>6, <1>7 DEF Next

LEMMA SigningInvariant == Spec => []SigningInv
  BY SigningInit, SigningStep, PTL DEF Spec

--------------------------------------------------------------------------------
(* The theorems about signatures                                           *)

\* What is sent to a bucket with an HMAC pair and a region passes the backend's
\* check, however often it is retried, on whichever day, and whatever the client
\* sent, but for uploads that declare an unsigned trailer and paths that Url
\* reads otherwise than AWS (lib.rs:1006-1237, signer.rs:306, 371, 505-608, 1039-1071).
THEOREM ForwardedVerifiesHolds == Spec => []ForwardedVerifies
  BY SigningInvariant, PTL DEF SigningInv

\* The connection is made to the host and port the request is signed for
\* (lib.rs:429-447, 1078-1090).
THEOREM PeerIsAuthorityHolds == Spec => []PeerIsAuthority
  <1>1. ASSUME SigningInv, NEW w \in Workers, Sent(w)
        PROVE  /\ peer[w].host = upstream[w].authority.name
               /\ peer[w].port = IF upstream[w].authority.port = 0
                                   THEN 443 ELSE upstream[w].authority.port
    <2>1. PICK bucket : /\ peer[w] = UpstreamPeer(item, bucket)
                        /\ upstream[w].authority = Endpoint(item, bucket)
      BY <1>1 DEF SigningInv, Directed, Onward, Sent
    <2>2. peer[w].host = upstream[w].authority.name
      BY <2>1 DEF UpstreamPeer, Endpoint
    <2>3. /\ peer[w].port = item.port
          /\ upstream[w].authority.port = IF item.port = 443 THEN 0 ELSE item.port
      BY <2>1 DEF UpstreamPeer, Endpoint
    <2> QED BY <1>1, <2>2, <2>3 DEF SigningInv, Shaped
  <1>2. SigningInv => PeerIsAuthority
    BY <1>1 DEF PeerIsAuthority
  <1> QED BY SigningInvariant, <1>2, PTL

\* Signing and checking get the keys of their own arguments, although requests
\* of all clients and of the proxy share one cache (signer.rs:463-503).
THEOREM ReturnedIsDerivedForRequests == Spec => []ReturnedIsDerived
  <1>1. SigningInv => ReturnedIsDerived
    BY DEF SigningInv, KeyInv
  <1> QED BY SigningInvariant, <1>1, PTL

--------------------------------------------------------------------------------
(* The object of a request stays the one its path names, for paths of any  *)
(* length over any characters, in both addressing styles.                  *)

\* The characters of a path; tlapm does not take a literal for a string.
Char == STRING \cup {"/", "c", "x", "."}

\* The slash behind the bucket, or the end of the path.
Slashes(path) == {i \in 2..Len(path) : path[i] = "/"}
End(path) == IF Slashes(path) = {} THEN Len(path) + 1 ELSE Min(Slashes(path))

LEMMA MinIsLeast ==
  ASSUME NEW n \in Nat, NEW S \in SUBSET (1..n), S # {}
  PROVE  Min(S) \in S /\ \A i \in S : Min(S) <= i
  <1> DEFINE T == {1..i : i \in S}
  <1>1. IsWellFoundedOn(StrictSubsetOrdering(1..n), SUBSET (1..n))
    <2>1. IsFiniteSet(1..n)
      BY FS_Interval
    <2>2. IsWellFoundedOn(StrictSubsetOrdering(1..n), FiniteSubsetsOf(1..n))
      BY FS_StrictSubsetOrderingWellFounded
    <2>3. FiniteSubsetsOf(1..n) = SUBSET (1..n)
      BY <2>1, FS_FiniteSubsetsOfFinite
    <2> QED BY <2>2, <2>3
  <1>2. T \subseteq SUBSET (1..n) /\ T # {}
    <2>1. ASSUME NEW i \in S PROVE 1..i \subseteq 1..n
      OBVIOUS
    <2>2. PICK s \in S : TRUE
      OBVIOUS
    <2>3. 1..s \in T
      OBVIOUS
    <2> QED BY <2>1, <2>3
  <1>3. PICK top \in T : \A X \in T : <<X, top>> \notin StrictSubsetOrdering(1..n)
    BY <1>1, <1>2, WFMin
  <1>4. PICK m \in S : top = 1..m
    OBVIOUS
  <1>5. ASSUME NEW i \in S PROVE m <= i
    <2> SUFFICES ASSUME i < m PROVE FALSE
      OBVIOUS
    <2>1. 1..i \in T /\ 1..i \subseteq 1..m /\ m \notin 1..i /\ m \in 1..m
      OBVIOUS
    <2> QED BY <1>2, <1>3, <1>4, <2>1 DEF StrictSubsetOrdering
  <1> QED BY <1>4, <1>5 DEF Min

\* Up to its end there is a bucket without a slash.
LEMMA EndIsFirstSlash ==
  ASSUME NEW path \in Seq(Char), Len(path) >= 2, path[2] # "/"
  PROVE  /\ End(path) \in 3..(Len(path) + 1)
         /\ \A i \in 2..(End(path) - 1) : path[i] # "/"
         /\ End(path) <= Len(path) => path[End(path)] = "/"
  <1>1. Len(path) \in Nat
    BY LenProperties
  <1>2. CASE Slashes(path) = {}
    BY <1>1, <1>2 DEF End, Slashes
  <1>3. CASE Slashes(path) # {}
    <2>1. Slashes(path) \in SUBSET (1..Len(path))
      BY <1>1 DEF Slashes
    <2>2. End(path) \in Slashes(path) /\ \A i \in Slashes(path) : End(path) <= i
      BY <1>1, <1>3, <2>1, MinIsLeast DEF End
    <2>3. End(path) \in 3..Len(path) /\ path[End(path)] = "/"
      BY <1>1, <2>2 DEF Slashes
    <2>4. ASSUME NEW i \in 2..(End(path) - 1) PROVE path[i] # "/"
      BY <1>1, <2>2, <2>3 DEF Slashes
    <2> QED BY <1>1, <2>3, <2>4
  <1> QED BY <1>2, <1>3

--------------------------------------------------------------------------------
(* parse_path                                                              *)

\* A path that parse_path accepts begins with a slash and a bucket.
WellFormed(path) ==
    path \in Seq(Char) /\ Len(path) >= 2 /\ path[1] = "/" /\ path[2] # "/"

LEMMA SplitPathFields ==
  ASSUME NEW path
  PROVE  /\ SplitPath(path).bucket = SubSeq(path, 2, End(path) - 1)
         /\ SplitPath(path).object = IF End(path) >= Len(path) THEN <<"/">>
                                     ELSE SubSeq(path, End(path), Len(path))
         /\ SplitPath(path) = [bucket |-> SplitPath(path).bucket,
                               object |-> SplitPath(path).object]
  BY DEF SplitPath, End, Slashes

LEMMA BucketLength ==
  ASSUME NEW path, WellFormed(path)
  PROVE  /\ SplitPath(path).bucket \in Seq(Char)
         /\ Len(SplitPath(path).bucket) = End(path) - 2
         /\ \A i \in 1..(End(path) - 2) : SplitPath(path).bucket[i] = path[i + 1]
  <1> DEFINE m == End(path) - 1
             bucket == SubSeq(path, 2, m)
  <1>1. /\ Len(path) \in Nat /\ End(path) \in 3..(Len(path) + 1)
        /\ \A i \in 1..Len(path) : path[i] \in Char
    BY EndIsFirstSlash, LenProperties, ElementOfSeq DEF WellFormed
  <1>2. 2 \in Int /\ m \in Int /\ 2 <= m /\ \A i \in 2..m : path[i] \in Char
    BY <1>1
  <1>3. /\ bucket \in Seq(Char)
        /\ Len(bucket) = IF 2 <= m THEN m - 2 + 1 ELSE 0
        /\ \A i \in 1..(m - 2 + 1) : bucket[i] = path[2 + i - 1]
    <2> HIDE DEF m
    <2> QED BY <1>2, SubSeqProperties
  <1>4. SplitPath(path).bucket = bucket
    BY SplitPathFields
  <1>5. Len(bucket) = End(path) - 2
    BY <1>1, <1>2, <1>3
  <1>6. \A i \in 1..(End(path) - 2) : bucket[i] = path[i + 1]
    BY <1>1, <1>3
  <1> QED BY <1>3, <1>4, <1>5, <1>6

\* Where the rest of a path occurs nowhere before, parse_path splits the path
\* at the slash behind its bucket (path.rs:22-39).
LEMMA ParseIsSplit ==
  ASSUME NEW path \in Seq(Char), ParsePath(path).outcome = "ok", RestIsNew(path)
  PROVE  /\ WellFormed(path)
         /\ ParsePath(path).bucket = SplitPath(path).bucket
         /\ ParsePath(path).object = SplitPath(path).object
  <1> DEFINE m == End(path) + 1
             rest == SubSeq(path, m, Len(path))
  <1>1. Len(path) \in Nat
    BY LenProperties
  <1>2. ~(Len(path) < 2 \/ path[1] # "/" \/ path[2] = "/")
    BY DEF ParsePath
  <1>3. WellFormed(path)
    BY <1>1, <1>2 DEF WellFormed
  <1>4. End(path) \in 3..(Len(path) + 1)
    BY <1>1, <1>3, EndIsFirstSlash DEF WellFormed
  <1>5. ParsePath(path).bucket = SplitPath(path).bucket
    BY <1>2, SplitPathFields DEF ParsePath, End, Slashes
  <1>6. Len(SplitPath(path).bucket) + 3 = m
    BY <1>3, <1>4, BucketLength
  <1>7. rest = <<>> <=> End(path) >= Len(path)
    <2>1. m \in Int /\ Len(path) \in Int /\ \A i \in m..Len(path) : path[i] \in Char
      BY <1>1, <1>4, ElementOfSeq
    <2>2. Len(rest) = IF m <= Len(path) THEN Len(path) - m + 1 ELSE 0
      <3> HIDE DEF m
      <3> QED BY <2>1, SubSeqProperties
    <2>3. Len(path) < m => rest = <<>>
      <3> HIDE DEF m
      <3> QED BY <2>1, SubSeqEmpty
    <2>4. Len(<<>>) = 0
      OBVIOUS
    <2>5. m <= Len(path) => rest # <<>>
      <3> SUFFICES ASSUME m <= Len(path), rest = <<>> PROVE FALSE
        OBVIOUS
      <3>1. Len(rest) = Len(path) - m + 1
        BY <2>2
      <3>2. Len(rest) = 0
        BY <2>4
      <3> HIDE DEF rest
      <3> QED BY <1>1, <2>1, <3>1, <3>2
    <2> QED BY <1>1, <1>4, <2>3, <2>5
  <1>8. CASE rest = <<>>
    <2>1. ParsePath(path).object = <<"/">>
      BY <1>2, <1>8 DEF ParsePath, End, Slashes
    <2>2. SplitPath(path).object = <<"/">>
      BY <1>7, <1>8, SplitPathFields
    <2> QED BY <1>3, <1>5, <2>1, <2>2
  <1>9. CASE rest # <<>>
    <2>1. Find(path, rest) = m
      BY <1>6, <1>9 DEF RestIsNew
    <2>2. ParsePath(path).object = SubSeq(path, Find(path, rest) - 1, Len(path))
      BY <1>2, <1>9 DEF ParsePath, End, Slashes
    <2>3. Find(path, rest) - 1 = End(path)
      BY <1>4, <2>1
    <2>4. ~(End(path) >= Len(path))
      BY <1>7, <1>9
    <2>5. ParsePath(path).object = SubSeq(path, End(path), Len(path))
      BY <2>2, <2>3
    <2>6. SplitPath(path).object = SubSeq(path, End(path), Len(path))
      BY <2>4, SplitPathFields
    <2> QED BY <1>3, <1>5, <2>5, <2>6
  <1> QED BY <1>8, <1>9

--------------------------------------------------------------------------------
(* The upstream request designates what the path designates                *)

\* What virtual hosting leaves of a path, with its bucket put in front again.
LEMMA PathStyleSplits ==
  ASSUME NEW path, WellFormed(path), NEW target,
         LET s == SplitPath(path) IN
           target = IF s.object = <<"/">> THEN <<"/">> \o s.bucket
                    ELSE <<"/">> \o s.bucket \o s.object
  PROVE  SplitPath(target) = SplitPath(path)
  <1> DEFINE end == End(path)
             bucket == SplitPath(path).bucket
             object == SplitPath(path).object
  <1>1. /\ path \in Seq(Char) /\ Len(path) \in Nat /\ end \in 3..(Len(path) + 1)
        /\ path[1] = "/"
        /\ \A i \in 1..Len(path) : path[i] \in Char
        /\ \A i \in 2..(end - 1) : path[i] # "/"
    BY EndIsFirstSlash, LenProperties, ElementOfSeq DEF WellFormed
  <1>2. /\ bucket \in Seq(Char) /\ Len(bucket) = end - 2
        /\ \A i \in 1..(end - 2) : bucket[i] = path[i + 1]
    BY BucketLength
  <1>3. <<"/">> \in Seq(Char) /\ Len(<<"/">>) = 1 /\ <<"/">>[1] = "/"
    <2>1. "/" \in Char
      BY DEF Char
    <2> QED BY <2>1
  <1> DEFINE front == <<"/">> \o bucket
  <1>4. /\ front \in Seq(Char) /\ Len(front) = end - 1
        /\ \A i \in 1..(end - 1) : front[i] = path[i]
    <2>1. /\ front \in Seq(Char) /\ Len(front) = 1 + Len(bucket)
          /\ \A i \in 1..(1 + Len(bucket)) :
               front[i] = IF i <= 1 THEN <<"/">>[i] ELSE bucket[i - 1]
      <3> HIDE DEF bucket
      <3> QED BY <1>2, <1>3, ConcatProperties
    <2>2. ASSUME NEW i \in 1..(end - 1) PROVE front[i] = path[i]
      <3>1. CASE i = 1
        BY <1>1, <1>2, <1>3, <2>1, <3>1
      <3>2. CASE i # 1
        <4>1. i - 1 \in 1..(end - 2) /\ i \in 1..(1 + Len(bucket)) /\ ~(i <= 1)
          BY <1>1, <1>2, <3>2
        <4>2. front[i] = bucket[i - 1]
          BY <2>1, <4>1
        <4>3. bucket[i - 1] = path[(i - 1) + 1]
          BY <1>2, <4>1
        <4>4. (i - 1) + 1 = i
          OBVIOUS
        <4> HIDE DEF front, bucket
        <4> QED BY <4>2, <4>3, <4>4
      <3> QED BY <3>1, <3>2
    <2> HIDE DEF front
    <2> QED BY <1>1, <1>2, <2>1, <2>2
  \* The object is left out where it is the slash alone.
  <1>5. CASE object = <<"/">>
    <2>1. target = front
      BY <1>5
    <2>2. Slashes(front) = {}
      <3> HIDE DEF front
      <3> QED BY <1>1, <1>4 DEF Slashes
    <2>3. End(front) = end
      <3> HIDE DEF front
      <3> QED BY <1>1, <1>4, <2>2 DEF End
    <2>4. SplitPath(front).object = <<"/">>
      <3>1. End(front) >= Len(front)
        <4> HIDE DEF front
        <4> QED BY <1>1, <1>4, <2>3
      <3> QED BY <3>1, SplitPathFields
    <2>5. WellFormed(front)
      <3> HIDE DEF front
      <3> QED BY <1>1, <1>4 DEF WellFormed
    <2>6. SplitPath(front).bucket = bucket
      <3>1. /\ SplitPath(front).bucket \in Seq(Char)
            /\ Len(SplitPath(front).bucket) = end - 2
            /\ \A i \in 1..(end - 2) : SplitPath(front).bucket[i] = front[i + 1]
        BY <2>3, <2>5, BucketLength
      <3>2. ASSUME NEW i \in 1..(end - 2) PROVE front[i + 1] = bucket[i]
        <4>1. i + 1 \in 1..(end - 1)
          BY <1>1
        <4>2. front[i + 1] = path[i + 1]
          BY <1>4, <4>1
        <4> HIDE DEF front
        <4> QED BY <1>2, <4>2
      <3> DEFINE other == SplitPath(front).bucket
      <3>3. Len(other) = Len(bucket) /\ \A i \in 1..Len(other) : other[i] = bucket[i]
        <4> HIDE DEF front
        <4> QED BY <1>2, <3>1, <3>2
      <3> HIDE DEF other, bucket
      <3> QED BY <1>2, <3>1, <3>3, SeqEqual DEF other
    <2> QED BY <1>5, <2>1, <2>4, <2>6, SplitPathFields
  \* Else the path is put together again.
  <1>6. CASE object # <<"/">>
    <2>1. ~(end >= Len(path)) /\ object = SubSeq(path, end, Len(path))
      BY <1>6, SplitPathFields
    <2>2. front = SubSeq(path, 1, end - 1)
      <3>1. /\ SubSeq(path, 1, end - 1) \in Seq(Char)
            /\ Len(SubSeq(path, 1, end - 1)) = end - 1
            /\ \A i \in 1..(end - 1) : SubSeq(path, 1, end - 1)[i] = path[i]
        <4> DEFINE m == end - 1
        <4>1. 1 \in Int /\ m \in Int /\ 1 <= m /\ m \in Nat /\ \A i \in 1..m : path[i] \in Char
          BY <1>1
        <4>2. /\ SubSeq(path, 1, m) \in Seq(Char)
              /\ Len(SubSeq(path, 1, m)) = IF 1 <= m THEN m - 1 + 1 ELSE 0
              /\ \A i \in 1..(m - 1 + 1) : SubSeq(path, 1, m)[i] = path[1 + i - 1]
          <5> HIDE DEF m
          <5> QED BY <4>1, SubSeqProperties
        <4>3. /\ Len(SubSeq(path, 1, m)) = m
              /\ \A i \in 1..m : SubSeq(path, 1, m)[i] = path[i]
          <5> HIDE DEF m
          <5> QED BY <4>1, <4>2
        <4> QED BY <4>2, <4>3
      <3> DEFINE begin == SubSeq(path, 1, end - 1)
      <3>2. Len(front) = Len(begin) /\ \A i \in 1..Len(front) : front[i] = begin[i]
        BY <1>4, <3>1
      <3> HIDE DEF begin, front
      <3> QED BY <1>4, <3>1, <3>2, SeqEqual DEF begin
    <2>3. front \o object = path
      <3>1. 1 \in 1..(Len(path) + 1) /\ end - 1 \in (1 - 1)..Len(path)
            /\ Len(path) \in (end - 1)..Len(path) /\ (end - 1) + 1 = end
        BY <1>1, <2>1
      <3>2. SubSeq(path, 1, end - 1) \o SubSeq(path, (end - 1) + 1, Len(path))
              = SubSeq(path, 1, Len(path))
        BY <1>1, <3>1, ConcatAdjacentSubSeq
      <3> QED BY <1>1, <2>1, <2>2, <3>1, <3>2, SubSeqFull
    <2> QED BY <1>6, <2>3
  <1> QED BY <1>5, <1>6

\* In either style the backend reads bucket and object back as they were split.
LEMMA TargetDesignates ==
  ASSUME NEW path, WellFormed(path), item \in CosMapItem, item.style # "other", NEW r,
         r.authority = Endpoint(item, SplitPath(path).bucket),
         r.path = TargetPath(item, SplitPath(path).bucket, SplitPath(path).object)
  PROVE  Designates(r) = SplitPath(path)
  <1>1. SplitPath(path).bucket # <<>>
    <2>1. Len(SplitPath(path).bucket) = End(path) - 2 /\ End(path) \in 3..(Len(path) + 1)
      BY BucketLength, EndIsFirstSlash DEF WellFormed
    <2>2. Len(path) \in Nat /\ Len(<<>>) = 0
      BY LenProperties DEF WellFormed
    <2> QED BY <2>1, <2>2
  <1>2. CASE item.style = "path"
    <2>1. r.authority.name.bucket = <<>>
      BY <1>2 DEF Endpoint, HostName
    <2>2. SplitPath(r.path) = SplitPath(path)
      BY <1>2, PathStyleSplits DEF TargetPath
    <2> QED BY <2>1, <2>2 DEF Designates
  <1>3. CASE item.style \in {"none", "virtual"}
    <2>1. r.authority.name.bucket = SplitPath(path).bucket
      BY <1>3 DEF Endpoint, HostName
    <2>2. r.path = SplitPath(path).object
      BY <1>3 DEF TargetPath
    <2> QED BY <1>1, <2>1, <2>2, SplitPathFields DEF Designates
  <1>4. item.style \in {"none", "virtual", "path", "other"}
    BY DEF CosMapItem
  <1> QED BY <1>2, <1>3, <1>4

--------------------------------------------------------------------------------
(* The invariant about paths                                               *)

\* Where a request has come to through parse_path.
Parsed == {"verifying", "forward", "unsigned", "signing", "sent"}

\* Requests have paths; from the filter on, these parse.
PathsParse ==
    /\ item \in CosMapItem
    /\ DOMAIN request = Workers
    /\ \A w \in Workers :
         /\ stage[w] = "client" => IsClientShape(shape[w])
         /\ stage[w] \notin {"idle", "client"} => request[w].path \in Seq(Char)
         /\ stage[w] \in Parsed => ParsePath(request[w].path).outcome = "ok"

\* The upstream request is made from what parse_path says of the request now.
Targeted ==
    \A w \in Workers : stage[w] \in Onward =>
        LET target == ParsePath(request[w].path) IN
          /\ upstream[w].authority = Endpoint(item, target.bucket)
          /\ upstream[w].path = TargetPath(item, target.bucket, target.object)
          /\ {"headers", "auth"} \subseteq DOMAIN upstream[w]

PathInv == Shaped /\ PathsParse /\ Targeted

\* Nothing that happens on the way takes the path away.
LEMMA AlteredHasPath ==
  ASSUME NEW r, {"method", "path", "query", "headers"} \subseteq DOMAIN r,
         r.path \in Seq(Char),
         NEW how \in {"none", "method", "path", "dots", "parameter", "order", "plus",
                      "port", "case", "range", "payload", "agent"}
  PROVE  Altered(r, how).path \in Seq(Char)
  <1>1. CASE how = "path"
    <2>2. "c" \in Char
      BY DEF Char
    <2>3. Append(r.path, "c") \in Seq(Char)
      BY <2>2, AppendProperties
    <2> QED BY <1>1, <2>3 DEF Altered
  <1>2. CASE how = "dots"
    <2> DEFINE front == <<"/", "x", "/", ".", ".">>
    <2>1. front \in Seq(Char)
      BY DEF Char
    <2>2. front \o r.path \in Seq(Char)
      BY <2>1, ConcatProperties
    <2>3. Altered(r, how) = [r EXCEPT !.path = front \o @]
      BY <1>2 DEF Altered
    <2> HIDE DEF front
    <2> QED BY <2>2, <2>3
  <1>3. CASE how \in {"none", "method", "parameter", "order", "plus", "port", "case", "range",
                      "payload", "agent"}
    BY <1>3 DEF Altered
  <1> QED BY <1>1, <1>2, <1>3

LEMMA SentHasPath ==
  ASSUME NEW s, IsClientShape(s), NEW t
  PROVE  Altered(ClientRequest(s, t), s.altered).path \in Seq(Char)
  <1>1. ClientRequest(s, t).path = s.request.path
    BY DEF IsClientShape, IsUnsignedRequest, ClientRequest, WithAuthorization, Presigned
  <1>2. s.request.path \in Seq(Char)
    BY SeqMonotonic DEF IsClientShape, IsUnsignedRequest, Char
  <1>3. {"method", "path", "query", "headers"} \subseteq DOMAIN ClientRequest(s, t)
    BY DEF IsClientShape, IsUnsignedRequest, ClientRequest, WithAuthorization, Presigned
  <1> QED BY <1>1, <1>2, <1>3, AlteredHasPath DEF IsClientShape

LEMMA PathInit == Init => PathInv
  <1> SUFFICES ASSUME Init PROVE PathInv
    OBVIOUS
  <1>1. PICK setup \in Setups : item = setup.item /\ shape = setup.shape
    BY DEF Init
  <1>2. Shaped /\ item \in CosMapItem
    BY <1>1, SetupsAssumption DEF Init, Shaped
  <1>3. \A w \in Workers :
          /\ stage[w] \in {"idle", "client"}
          /\ stage[w] = "client" => IsClientShape(shape[w])
    BY <1>1, SetupsAssumption DEF Init
  <1>4. DOMAIN request = Workers
    BY DEF Init
  <1> QED BY <1>2, <1>3, <1>4 DEF PathInv, PathsParse, Targeted, Parsed, Onward

LEMMA PathStep == PathInv /\ [Next]_signingVars => PathInv'
  <1> SUFFICES ASSUME PathInv, [Next]_signingVars PROVE PathInv'
    OBVIOUS
  <1> USE DEF PathInv, Shaped, PathsParse, Targeted, Parsed, Onward, Goto, config
  <1>1. ASSUME NEW w \in Workers, Send(w) PROVE PathInv'
    <2> DEFINE s == shape[w]
               t == IF s.age <= clock THEN clock - s.age ELSE 0
    <2>1. /\ stage[w] = "client" /\ stage' = [stage EXCEPT ![w] = "filter"]
          /\ request' = [request EXCEPT ![w] = Altered(ClientRequest(s, t), s.altered)]
          /\ UNCHANGED <<item, shape, datetime, peer, upstream>>
      BY <1>1 DEF Send
    <2>2. request'[w].path \in Seq(Char)
      BY <2>1, SentHasPath
    <2> QED BY <2>1, <2>2
  <1>2. ASSUME NEW w \in Workers, Unreadable(w) \/ Refuse(w)
        PROVE  PathInv'
    <2>1. /\ stage[w] = "filter" /\ UNCHANGED <<item, shape, request, datetime, peer, upstream>>
          /\ \E s \in {"unreadable", "malformed", "rejected"} :
               stage' = [stage EXCEPT ![w] = s]
      BY <1>2 DEF Unreadable, Refuse
    <2> QED BY <2>1
  <1>3. ASSUME NEW w \in Workers, Skip(w) \/ CheckPresigned(w) \/ CheckHeader(w)
        PROVE  PathInv'
    <2>1. /\ stage[w] = "filter" /\ UNCHANGED <<item, shape, request, datetime, peer, upstream>>
          /\ \E s \in {"forward", "verifying"} : stage' = [stage EXCEPT ![w] = s]
      BY <1>3 DEF Skip, CheckPresigned, CheckHeader
    <2>2. ParsePath(request[w].path).outcome = "ok"
      BY <1>3 DEF Skip, CheckPresigned, CheckHeader, Readable
    <2> QED BY <2>1, <2>2
  <1>4. ASSUME NEW w \in Workers, Verify(w) \/ Retry(w) PROVE PathInv'
    <2>1. /\ stage[w] \in {"verifying", "sent"}
          /\ UNCHANGED <<item, shape, request, datetime, peer, upstream>>
          /\ \E s \in {"forward", "rejected"} : stage' = [stage EXCEPT ![w] = s]
      BY <1>4 DEF Verify, Retry
    <2> QED BY <2>1
  <1>5. ASSUME NEW w \in Workers, Forward(w) PROVE PathInv'
    <2> DEFINE r == UpstreamRequest(request[w], item, is_presigned[w])
               target == ParsePath(request[w].path)
               IsTargeted(u) == /\ u.authority = Endpoint(item, target.bucket)
                                /\ u.path = TargetPath(item, target.bucket, target.object)
                                /\ {"headers", "auth"} \subseteq DOMAIN u
    <2>1. IsTargeted(r) /\ IsTargeted([r EXCEPT !.auth = Bearer])
      BY DEF UpstreamRequest
    <2>2. IsTargeted(PrepareStreaming(r, clock)) /\ IsTargeted(PrepareRequest(r, clock))
      BY DEF UpstreamRequest, PrepareStreaming, PrepareRequest
    <2>3. /\ stage[w] = "forward" /\ UNCHANGED <<item, shape, request>>
          /\ peer' = [peer EXCEPT ![w] = UpstreamPeer(item, target.bucket)]
          /\ datetime' = [datetime EXCEPT ![w] = clock]
      BY <1>5 DEF Forward
    <2>4. CASE /\ UNCHANGED upstream
               /\ stage' = [stage EXCEPT ![w] = "unsigned"]
      BY <2>3, <2>4
    <2>5. CASE \E u, s : /\ upstream' = [upstream EXCEPT ![w] = u] /\ IsTargeted(u)
                         /\ s \in Onward /\ stage' = [stage EXCEPT ![w] = s]
      <3>1. PICK u, s : /\ upstream' = [upstream EXCEPT ![w] = u] /\ IsTargeted(u)
                        /\ s \in Onward /\ stage' = [stage EXCEPT ![w] = s]
        BY <2>5
      <3> QED BY <2>3, <3>1
    <2> QED
      <3> HIDE DEF r, target, IsTargeted
      <3>1. \/ UNCHANGED upstream /\ stage' = [stage EXCEPT ![w] = "unsigned"]
            \/ \E u \in {[r EXCEPT !.auth = Bearer], PrepareStreaming(r, clock),
                          PrepareRequest(r, clock)}, s \in {"signing", "sent"} :
                 /\ upstream' = [upstream EXCEPT ![w] = u]
                 /\ stage' = [stage EXCEPT ![w] = s]
        BY <1>5 DEF Forward, r
      <3> QED BY <2>1, <2>2, <2>4, <2>5, <3>1
  <1>6. ASSUME NEW w \in Workers, Sign(w) PROVE PathInv'
    <2>1. /\ stage[w] = "signing" /\ UNCHANGED <<item, shape, request, datetime, peer>>
          /\ stage' = [stage EXCEPT ![w] = "sent"]
          /\ upstream' = [upstream EXCEPT ![w] =
               Signed(upstream[w], item.access_key, result[w], datetime[w], item.region)]
      BY <1>6 DEF Sign
    <2>2. /\ upstream'[w].authority = upstream[w].authority
          /\ upstream'[w].path = upstream[w].path
          /\ DOMAIN upstream'[w] = DOMAIN upstream[w]
      BY <2>1 DEF Signed
    <2> QED BY <2>1, <2>2
  <1>7. CASE UNCHANGED <<config, pipeline>>
    BY <1>7 DEF pipeline
  <1>8. ASSUME NEW w \in Workers, KeyStep(w) PROVE PathInv'
    BY <1>7, <1>8 DEF KeyStep
  <1>9. CASE Tick \/ UNCHANGED signingVars
    BY <1>7, <1>9 DEF Tick, signingVars
  <1> QED BY <1>1, <1>2, <1>3, <1>4, <1>5, <1>6, <1>8, <1>9 DEF Next

--------------------------------------------------------------------------------
(* The theorem about paths                                                 *)

\* The backend is asked for the object the client asked for, in either
\* addressing style and on every retry, for paths of any length, if the
\* object's name does not occur in the path before it (path.rs:22-39,
\* lib.rs:1060-1090).
THEOREM ForwardedNamesObjectHolds == Spec => []ForwardedNamesObject
  <1>1. ASSUME PathInv, NEW w \in Workers, Sent(w), item.style # "other",
               RestIsNew(request[w].path)
        PROVE  Designates(upstream[w]) = SplitPath(request[w].path)
    <2> DEFINE path == request[w].path
    <2>1. path \in Seq(Char) /\ ParsePath(path).outcome = "ok"
      BY <1>1 DEF PathInv, PathsParse, Sent, Parsed
    <2>2. /\ WellFormed(path)
          /\ ParsePath(path).bucket = SplitPath(path).bucket
          /\ ParsePath(path).object = SplitPath(path).object
      BY <1>1, <2>1, ParseIsSplit
    <2>3. /\ upstream[w].authority = Endpoint(item, SplitPath(path).bucket)
          /\ upstream[w].path = TargetPath(item, SplitPath(path).bucket,
                                           SplitPath(path).object)
      BY <1>1, <2>2 DEF PathInv, Targeted, Sent, Onward
    <2>4. item \in CosMapItem
      BY <1>1 DEF PathInv, PathsParse
    <2> HIDE DEF path
    <2>5. Designates(upstream[w]) = SplitPath(path)
      BY <1>1, <2>2, <2>3, <2>4, TargetDesignates
    <2> QED BY <2>5 DEF path
  <1>2. PathInv => ForwardedNamesObject
    BY <1>1 DEF ForwardedNamesObject
  <1> QED BY PathInit, PathStep, <1>2, PTL DEF Spec
================================================================================
