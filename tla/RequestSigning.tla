---------------------------- MODULE RequestSigning -----------------------------
(***************************************************************************)
(* A request from the client's signature to the backend's check of the     *)
(* proxy's: request_filter verifies it (lib.rs:493-857), upstream_peer and *)
(* upstream_request_filter make the upstream request and sign it           *)
(* (lib.rs:399-480, 1006-1237).  Both ask signing_key, whose cache all     *)
(* worker threads share.  The keystore, the validator and credentials that *)
(* have to be fetched are in ProxyRequest.                                 *)
(***************************************************************************)
EXTENDS RequestTarget, SigningKeyCache

CONSTANTS
    Setups,        \* what a behaviour starts from, a set of records: item, a
                   \* CosMapItem; checked, whether signatures are checked; shape,
                   \* from workers to what their client does, or NoRequest
    ClientRegion,  \* the region clients sign for
    ClientSecret,  \* the secret of the client's access key, in the keystore
    OtherSecret,   \* some secret that is not the client's
    MaxClock       \* bound on the clock

\* What a client does: it signs "request" as "kind" says, covering the headers
\* "signs", with its own secret or another, at a time "age" ago; on the way the
\* request is "altered".
NoRequest == [kind |-> "no request"]

\* What a client signs: it has the headers that are to be covered, and carries
\* no signature yet.
IsUnsignedRequest(r) ==
    /\ DOMAIN r = {"method", "path", "query", "headers", "auth"}
    /\ r.path \in Seq(STRING)
    /\ r.query \in Seq(Range(r.query))
    /\ \A p \in Range(r.query) :
          p = Param(p.name, p.value, p.form) /\ p.name \notin PresignParams
    /\ "host" \in DOMAIN r.headers
    /\ r.auth = NoAuth

IsClientShape(s) ==
    /\ s.kind \in {"header", "presigned", "unsigned"}
    /\ s.altered \in {"none", "method", "path", "dots", "parameter", "order", "plus",
                      "port", "case", "range", "payload", "agent"}
    /\ IsUnsignedRequest(s.request)
    /\ s.kind = "header" => "x-amz-content-sha256" \in DOMAIN s.request.headers
    /\ s.signs \subseteq DOMAIN s.request.headers
    /\ s.own_secret \in BOOLEAN /\ s.age \in Nat /\ s.expires \in Nat

\* A backend listens on some port; a port of 0 stands for none written.
ASSUME SetupsAssumption ==
    \A setup \in Setups :
        /\ setup.item \in CosMapItem /\ setup.item.port # 0
        /\ setup.item.region \in Regions /\ setup.item.secret_key \in Secrets
        /\ setup.checked \in BOOLEAN
        /\ \A w \in Workers : setup.shape[w] = NoRequest \/ IsClientShape(setup.shape[w])

\* The other secret is another, and the arguments of signing_key that occur are
\* among those it is modelled for.
ASSUME ClientAssumption ==
    /\ ClientSecret # OtherSecret
    /\ ClientSecret \in Secrets /\ ClientRegion \in Regions /\ "s3" \in Services
    /\ MaxClock \in Nat /\ \A t \in 0..MaxClock : Day(t) \in Days

VARIABLES
    item,          \* the bucket's configuration, fixed at start
    checked,       \* skip_signature_validation is configured as false
    clock,
    shape,         \* shape[w]: what the client of w's request does
    stage,         \* stage[w]: where w's request is
    original,      \* history: the request as the client signed it
    request,       \* request[w]: the session's request header
    is_presigned,  \* is_presigned[w] of the context
    verified,      \* history: requests whose signature was found valid
    datetime,      \* datetime[w]: the time w's upstream request is signed for
    peer,          \* peer[w]: whom upstream_peer chose
    upstream       \* upstream[w]: the upstream request header

config == <<item, checked, shape>>
pipeline == <<stage, original, request, is_presigned, verified, datetime, peer, upstream>>
signingVars == <<config, clock, pipeline, cacheVars>>

Goto(w, s) == stage' = [stage EXCEPT ![w] = s]

Init ==
    /\ \E setup \in Setups :
         item = setup.item /\ checked = setup.checked /\ shape = setup.shape
    /\ clock = 0
    /\ stage = [w \in Workers |-> IF shape[w] = NoRequest THEN "idle" ELSE "client"]
    /\ original = [w \in Workers |-> NoRequest]
    /\ request = [w \in Workers |-> NoRequest]
    /\ is_presigned = [w \in Workers |-> FALSE]
    /\ verified = {}
    /\ datetime = [w \in Workers |-> 0]
    /\ peer = [w \in Workers |-> NoRequest]
    /\ upstream = [w \in Workers |-> NoRequest]
    /\ CacheInit

--------------------------------------------------------------------------------
(* The client and the way to the proxy                                     *)

ClientAccessKey == "client access key"

\* What AWS says a signature covers of a path: every character in one spelling,
\* unreserved ones plain and others escaped, and no segment taken out.
AwsPath(path) ==
    LET Spelled(c) == CASE c = "%2e" -> "." [] c = "\\" -> "%5C" [] c = "{" -> "%7B"
                        [] c = "!" -> "%21" [] OTHER -> c
    IN [i \in DOMAIN path |-> Spelled(path[i])]

\* Signs as AWS specifies it: the headers in signs, the date and the payload.
WithAuthorization(r, secret, t, signs) ==
    LET dated == [r EXCEPT !.headers = Set(r.headers, "x-amz-date", t)]
        covered == Restrict(dated.headers,
                            signs \cup {"host", "x-amz-date", "x-amz-content-sha256"})
        key == Derive(KeyArgs(t, ClientRegion, "s3", secret))
    IN [dated EXCEPT !.auth =
          Authorization(ClientAccessKey, key, t, Scope(t, ClientRegion, "s3"),
            CanonicalRequest(r.method, AwsPath(r.path), r.query, covered,
                             r.headers["x-amz-content-sha256"]))]

\* Puts the signature into the query, behind the parameters there are.
Presigned(r, secret, t, signs, expires) ==
    LET own == <<Param("X-Amz-Algorithm", "AWS4-HMAC-SHA256", "pair"),
                 Param("X-Amz-Credential",
                       [access_key |-> ClientAccessKey, day |-> Day(t),
                        region |-> ClientRegion, service |-> "s3"], "pair"),
                 Param("X-Amz-Date", t, "pair"),
                 Param("X-Amz-Expires", expires, "pair"),
                 Param("X-Amz-SignedHeaders", signs \cup {"host"}, "pair")>>
        key == Derive(KeyArgs(t, ClientRegion, "s3", secret))
        canonical == CanonicalRequest(r.method, AwsPath(r.path), r.query \o own,
                       Restrict(r.headers, signs \cup {"host"}), Unsigned)
        signature == Signature(key, t, Scope(t, ClientRegion, "s3"), canonical)
    IN [r EXCEPT !.query = @ \o own \o <<Param("X-Amz-Signature", signature, "pair")>>]

ClientRequest(s, t) ==
    LET secret == IF s.own_secret THEN ClientSecret ELSE OtherSecret IN
    CASE s.kind = "header" -> WithAuthorization(s.request, secret, t, s.signs)
      [] s.kind = "presigned" -> Presigned(s.request, secret, t, s.signs, s.expires)
      [] s.kind = "unsigned" -> s.request

PlusForBlank(p) ==
    IF p.name \notin PresignParams /\ p.value = " " THEN [p EXCEPT !.value = "+"] ELSE p

\* What may happen to a request between the client and the proxy.
Altered(r, how) ==
    CASE how = "none" -> r
      [] how = "method" -> [r EXCEPT !.method = "DELETE"]
      [] how = "path" -> [r EXCEPT !.path = Append(@, "c")]
      [] how = "dots" -> [r EXCEPT !.path = <<"/", "x", "/", ".", ".">> \o @]
      [] how = "parameter" -> [r EXCEPT !.query = Append(@, Param("p", "added", "pair"))]
      [] how = "order" -> [r EXCEPT !.query = Reverse(@)]
      [] how = "plus" -> [r EXCEPT !.query = [i \in DOMAIN @ |-> PlusForBlank(@[i])]]
      [] how = "port" -> [r EXCEPT !.headers = Set(@, "host", [@["host"] EXCEPT !.port = 443])]
      [] how = "case" -> [r EXCEPT !.headers = Set(@, "host", [@["host"] EXCEPT !.name = "PROXY"])]
      [] how = "range" -> [r EXCEPT !.headers = Set(@, "range", "another range")]
      [] how = "payload" -> [r EXCEPT !.headers = Set(@, "x-amz-content-sha256", "another hash")]
      [] how = "agent" -> [r EXCEPT !.headers = Set(@, "user-agent", "a gateway")]

Send(w) ==
    /\ stage[w] = "client"
    /\ LET s == shape[w]
           t == IF s.age <= clock THEN clock - s.age ELSE 0 IN
         /\ original' = [original EXCEPT ![w] = ClientRequest(s, t)]
         /\ request' = [request EXCEPT ![w] = Altered(ClientRequest(s, t), s.altered)]
    /\ Goto(w, "filter")
    /\ UNCHANGED <<config, clock, is_presigned, verified, datetime, peer, upstream,
                   cacheVars>>

Tick ==
    /\ clock < MaxClock
    /\ clock' = clock + 1
    /\ UNCHANGED <<config, pipeline, cacheVars>>

--------------------------------------------------------------------------------
(* request_filter                                                          *)

\* Without an Authorization header, a signature in the query.  The code looks for
\* the word anywhere in the query (lib.rs:685); it is taken to occur as a name only.
InQuery(r) == r.auth = NoAuth /\ "X-Amz-Signature" \in Names(r.query)

\* The path parses, and the presigned parameters where they are looked at.
Readable(r) ==
    /\ ParsePath(r.path).outcome = "ok"
    /\ r.auth = NoAuth /\ "X-Amz-Credential" \in Names(r.query) =>
         PresignedParamsParse(r.query)

\* A path or presigned parameters that do not parse.
Unreadable(w) ==
    /\ stage[w] = "filter"
    /\ ~Readable(request[w])
    /\ Goto(w, IF ParsePath(request[w].path).outcome = "ok" THEN "unreadable"
               ELSE "malformed")
    /\ UNCHANGED <<config, clock, original, request, is_presigned, verified, datetime,
                   peer, upstream, cacheVars>>

\* A part of a multipart upload, whose signature nobody looks at.  "uploadId=" is
\* looked for anywhere in the query, too, and taken to occur as a name only.
Multipart(r) == "uploadId" \in Names(r.query)

\* Whether the signature of r is looked at.
ToCheck(r) == checked /\ ~Multipart(r)

\* Signatures are not looked at, or not this one's.
Skip(w) ==
    /\ stage[w] = "filter"
    /\ Readable(request[w])
    /\ ~ToCheck(request[w])
    /\ Goto(w, "forward")
    /\ UNCHANGED <<config, clock, original, request, is_presigned, verified, datetime,
                   peer, upstream, cacheVars>>

\* 401 for what cannot be checked, 403 for a presigned URL that has expired.
Refuse(w) ==
    /\ stage[w] = "filter"
    /\ Readable(request[w])
    /\ ToCheck(request[w])
    /\ \/ InQuery(request[w]) /\ Expired(request[w], clock)
       \/ ~InQuery(request[w]) /\ ~CanCheckHeader(request[w])
    /\ Goto(w, "rejected")
    /\ UNCHANGED <<config, clock, original, request, is_presigned, verified, datetime,
                   peer, upstream, cacheVars>>

\* The signature in the query is to be checked: its key is asked for.
CheckPresigned(w) ==
    /\ stage[w] = "filter"
    /\ Readable(request[w])
    /\ ToCheck(request[w]) /\ InQuery(request[w]) /\ ~Expired(request[w], clock)
    /\ is_presigned' = [is_presigned EXCEPT ![w] = TRUE]
    /\ Call(w, PresignedKeyArgs(request[w], ClientSecret))
    /\ Goto(w, "verifying")
    /\ UNCHANGED <<config, clock, original, request, verified, datetime, peer, upstream>>

\* The same for the Authorization header.
CheckHeader(w) ==
    /\ stage[w] = "filter"
    /\ Readable(request[w])
    /\ ToCheck(request[w]) /\ ~InQuery(request[w]) /\ CanCheckHeader(request[w])
    /\ Call(w, HeaderKeyArgs(request[w], ClientSecret))
    /\ Goto(w, "verifying")
    /\ UNCHANGED <<config, clock, original, request, is_presigned, verified, datetime,
                   peer, upstream>>

\* The key is there: the signature is computed and compared.
Verify(w) ==
    /\ stage[w] = "verifying"
    /\ Return(w)
    /\ LET valid == IF is_presigned[w]
                      THEN PresignedSignatureIsValid(request[w], result[w])
                      ELSE HeaderSignatureIsValid(request[w], result[w]) IN
       \/ valid /\ Goto(w, "forward") /\ verified' = verified \cup {w}
       \/ ~valid /\ Goto(w, "rejected") /\ UNCHANGED verified
    /\ UNCHANGED <<config, clock, original, request, is_presigned, datetime, peer, upstream>>

--------------------------------------------------------------------------------
(* upstream_peer and upstream_request_filter                               *)

\* The upstream request, made from the session's each time.  Without a region
\* only an upload in chunks can be signed; an API key is exchanged for a token.
Forward(w) ==
    /\ stage[w] = "forward"
    /\ LET r == UpstreamRequest(request[w], item, is_presigned[w]) IN
       \/ /\ item.creds = "api_key"
          /\ upstream' = [upstream EXCEPT ![w] = [r EXCEPT !.auth = Bearer]]
          /\ Goto(w, "sent")
          /\ UNCHANGED cacheVars
       \/ /\ item.creds = "hmac" /\ ~IsStreaming(r) /\ item.region = ""
          /\ Goto(w, "unsigned")
          /\ UNCHANGED <<upstream, cacheVars>>
       \/ /\ item.creds = "hmac" /\ (IsStreaming(r) \/ item.region # "")
          /\ upstream' = [upstream EXCEPT ![w] =
                            IF IsStreaming(r) THEN PrepareStreaming(r, clock)
                                              ELSE PrepareRequest(r, clock)]
          /\ Call(w, KeyArgs(clock, item.region, "s3", item.secret_key))
          /\ Goto(w, "signing")
    /\ peer' = [peer EXCEPT ![w] = UpstreamPeer(item, ParsePath(request[w].path).bucket)]
    /\ datetime' = [datetime EXCEPT ![w] = clock]
    /\ UNCHANGED <<config, clock, original, request, is_presigned, verified>>

\* The key is there: the upstream request is signed and sent.
Sign(w) ==
    /\ stage[w] = "signing"
    /\ Return(w)
    /\ upstream' = [upstream EXCEPT ![w] =
                      Signed(@, item.access_key, result[w], datetime[w], item.region)]
    /\ Goto(w, "sent")
    /\ UNCHANGED <<config, clock, original, request, is_presigned, verified, datetime, peer>>

\* pingora tries again, later: an attempt at the same time is the same.
Retry(w) ==
    /\ stage[w] = "sent"
    /\ datetime[w] < clock
    /\ Goto(w, "forward")
    /\ UNCHANGED <<config, clock, original, request, is_presigned, verified, datetime,
                   peer, upstream, cacheVars>>

\* Inside signing_key.
KeyStep(w) == Derivation(w) /\ UNCHANGED <<config, clock, pipeline>>

Next ==
    \/ \E w \in Workers :
         \/ Send(w) \/ Unreadable(w) \/ Skip(w) \/ Refuse(w)
         \/ CheckPresigned(w) \/ CheckHeader(w) \/ Verify(w)
         \/ Forward(w) \/ Sign(w) \/ Retry(w) \/ KeyStep(w)
    \/ Tick

Spec == Init /\ [][Next]_signingVars

--------------------------------------------------------------------------------
(* Properties                                                              *)

Stages == {"idle", "client", "filter", "unreadable", "malformed", "rejected",
           "verifying", "forward", "unsigned", "signing", "sent"}

TypeOK ==
    /\ CacheTypeOK
    /\ checked \in BOOLEAN
    /\ clock \in 0..MaxClock
    /\ stage \in [Workers -> Stages]
    /\ is_presigned \in [Workers -> BOOLEAN]
    /\ verified \subseteq Workers
    /\ datetime \in [Workers -> 0..MaxClock]

\* The headers that a signature is said to cover, of those there are.
CoveredHeaders(r) ==
    Restrict(r.headers, DOMAIN r.headers \cap
        (IF InQuery(r) THEN ValueOf(r.query, "X-Amz-SignedHeaders") ELSE r.auth.signed_headers))

\* What the client's signature covers of the request as it was signed.
Covered(r) ==
    [method |-> r.method, path |-> AwsPath(r.path), headers |-> CoveredHeaders(r),
     params |-> CanonicalQuery(IF InQuery(r) THEN WithoutSignature(r.query) ELSE r.query)]

\* The same of a request as the check reads it.  It tells no difference that Url
\* takes out of a path, by resolving dots or escaping; of a presigned URL, none in the case of the host's name
\* or a port of http or https, and none that goes when the parameters are
\* decoded twice.
CoveredAsRead(r) ==
    [method |-> r.method, path |-> UrlPath(r.path),
     headers |-> IF InQuery(r) THEN Set(CoveredHeaders(r), "host", ShownHost(r.headers["host"]))
                               ELSE CoveredHeaders(r),
     params |-> CanonicalQuery(IF InQuery(r) THEN RereadQuery(WithoutSignature(r.query))
                                             ELSE r.query)]

\* A request that passes the check was signed with the secret of its access
\* key, and what its signature covers arrived as it was signed, up to the
\* differences the check does not see: those of CoveredAsRead (signer.rs:201,
\* 610-893).  The order of the parameters and other headers may change too.
VerifiedIsUntouched ==
    \A w \in verified :
        /\ shape[w].own_secret
        /\ CoveredAsRead(request[w]) = Covered(original[w])

\* What the check cannot rebuild of an untouched request: a path with segments
\* of dots, or sent with a character that AWS escapes and Url does not, or only
\* one of them makes a slash; of a presigned URL, a parameter it cannot read or
\* reads back differently, a header it does not copy, a host it shows differently.
NotRebuilt(r) ==
    \/ UrlPath(r.path) # AwsPath(r.path)
    \/ /\ InQuery(r)
       /\ \/ \E p \in {r.query[i] : i \in DOMAIN r.query} : p.form = "bare" \/ Reread(p) # <<p>>
          \/ ~(ValueOf(r.query, "X-Amz-SignedHeaders") \subseteq
                 {"host", "x-amz-date", "x-amz-content-sha256", "range", "x-amz-security-token"})
          \/ ShownHost(r.headers["host"]) # r.headers["host"]

\* A client that signs with its secret is not turned away, whichever day it
\* signs for, as long as its presigned URL is still valid and what it signs is
\* not of the kinds NotRebuilt lists (signer.rs:201, 306, 661-893).
GenuineVerifies ==
    \A w \in Workers :
        /\ stage[w] \in {"rejected", "unreadable"}
        /\ shape[w].kind # "unsigned" /\ shape[w].own_secret
        /\ request[w] = original[w]
        => \/ InQuery(request[w]) /\ Expired(request[w], clock)
           \/ NotRebuilt(request[w])

\* Whether the backend, which knows the proxy's secret, finds the request
\* signed as AWS asks: for the date it shows, with the host and every x-amz-*
\* header and the payload it declares.
BackendVerifies(r) ==
    LET t == r.headers["x-amz-date"]
        listed == r.auth.signed_headers
        scope == Scope(t, item.region, "s3")
        key == Derive(KeyArgs(t, item.region, "s3", item.secret_key))
    IN /\ r.headers["host"] = r.authority
       /\ {"host"} \cup (DOMAIN r.headers \cap AmzHeaders) \subseteq listed
       /\ listed \subseteq DOMAIN r.headers
       /\ r.auth.access_key = item.access_key
       /\ r.auth.signature =
            Signature(key, t, scope,
              CanonicalRequest(r.method, AwsPath(r.path), r.query, Restrict(r.headers, listed),
                               r.headers["x-amz-content-sha256"]))

Sent(w) == stage[w] = "sent"

\* What is sent to a bucket with an HMAC pair and a region passes the backend's
\* check: also around midnight, on a retry, and after the query, the headers
\* and the target were rewritten (lib.rs:1006-1237, signer.rs:505-608,
\* 1039-1071).  Excepted are uploads that declare an unsigned trailer, and paths
\* that Url reads otherwise than AWS, by their dots or by what is escaped: they
\* are signed as Url reads them and sent as they are (signer.rs:306, 371).
ForwardedVerifies ==
    \A w \in Workers :
        /\ Sent(w) /\ item.creds = "hmac" /\ item.region # ""
        /\ upstream[w].headers["x-amz-content-sha256"] # UnsignedTrailer
        /\ UrlPath(upstream[w].path) = AwsPath(upstream[w].path)
        => BackendVerifies(upstream[w])

\* A request goes on with the proxy's signature as its only one: where its
\* signature is checked, a presigned URL has been recognised as one two
\* filters before its parameters are taken out (lib.rs:684-686, 1006-1032).
OneSignature ==
    \A w \in Workers :
        Sent(w) /\ ToCheck(request[w]) => Names(upstream[w].query) \cap PresignParams = {}

\* Bucket and object of a path: up to the second slash, and from there on.
SplitPath(path) ==
    LET slashes == {i \in 2..Len(path) : path[i] = "/"}
        end == IF slashes = {} THEN Len(path) + 1 ELSE Min(slashes)
    IN [bucket |-> SubSeq(path, 2, end - 1),
        object |-> IF end >= Len(path) THEN <<"/">> ELSE SubSeq(path, end, Len(path))]

\* What the backend takes an upstream request to mean.
Designates(r) ==
    IF r.authority.name.bucket = <<>> THEN SplitPath(r.path)
    ELSE [bucket |-> r.authority.name.bucket, object |-> r.path]

\* Behind the bucket begins what occurs nowhere before.
RestIsNew(path) ==
    LET object == SplitPath(path).object
        rest == SubSeq(path, Len(SplitPath(path).bucket) + 3, Len(path))
    IN rest = <<>> \/ Find(path, rest) = Len(SplitPath(path).bucket) + 3

\* The backend is asked for the object the client asked for, in either style,
\* if the object's name does not occur in the path before it (path.rs:22-39,
\* lib.rs:1060-1090); and only the two styles the documentation names count.
ForwardedNamesObject ==
    \A w \in Workers :
        Sent(w) /\ item.style # "other" /\ RestIsNew(request[w].path) =>
            Designates(upstream[w]) = SplitPath(request[w].path)

\* The connection is made to the host and port that the request is signed for,
\* though the two are computed apart (lib.rs:429-447, 1078-1090).
PeerIsAuthority ==
    \A w \in Workers :
        Sent(w) =>
            /\ peer[w].host = upstream[w].authority.name
            /\ peer[w].port = IF upstream[w].authority.port = 0
                                THEN 443 ELSE upstream[w].authority.port

\* path.rs:18: "/my-bucket/prefix/key" is bucket "my-bucket" and object
\* "/prefix/key".
ObjectPathFollowsBucket ==
    \A w \in Workers :
        Sent(w) /\ item.style # "other" =>
            Designates(upstream[w]) = SplitPath(request[w].path)
================================================================================
