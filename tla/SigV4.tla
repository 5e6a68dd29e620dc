--------------------------------- MODULE SigV4 ---------------------------------
(***************************************************************************)
(* AWS Signature Version 4 as signer.rs and parsers/credentials.rs compute *)
(* it: what a signature covers, how a client's is checked, how a request   *)
(* is signed for the backend.                                              *)
(*                                                                         *)
(* A request is a record [method, path, query, headers, auth]: path is a   *)
(* sequence of characters, each as it is written, query a sequence of      *)
(* Param, headers a function from header names to values, auth the         *)
(* Authorization header.  Hashes are injective: a signature is the record  *)
(* of what it was computed from.                                           *)
(***************************************************************************)
EXTENDS Naturals, Sequences, FiniteSets, Functions, SequencesExt

CONSTANTS DayLength  \* units of time in a day

ASSUME DayLengthAssumption == DayLength \in Nat \ {0}

\* The date part of a time, which scopes and signing keys are of.
Day(t) == t \div DayLength

\* What one key=value of a query is, decoded once.  form "bare" stands for every
\* spelling query_pairs cannot read: no "=", no value, a key with an underscore.
Param(name, value, form) == [name |-> name, value |-> value, form |-> form]

PresignParams == {"X-Amz-Algorithm", "X-Amz-Credential", "X-Amz-Date",
                  "X-Amz-Expires", "X-Amz-SignedHeaders", "X-Amz-Signature"}

\* All that begin with "X-Amz-".
AmzParams == PresignParams \cup {"X-Amz-Security-Token"}

Names(q) == {q[i].name : i \in DOMAIN q}

\* Collected into a HashMap, the last of several parameters with one name wins.
ValueOf(q, name) == q[SelectLastInSeq(q, LAMBDA p : p.name = name)].value

\* Names that begin with "x-amz-"; those with a whitelisted prefix are
\* x-amz-meta-* and x-amz-checksum-*.
AmzHeaders == {"x-amz-date", "x-amz-content-sha256", "x-amz-security-token",
               "x-amz-meta-k", "x-amz-checksum-c", "x-amz-acl"}

Unsigned == "UNSIGNED-PAYLOAD"
ChunkSigned == "STREAMING-AWS4-HMAC-SHA256-PAYLOAD"
UnsignedTrailer == "STREAMING-UNSIGNED-PAYLOAD-TRAILER"
EmptyHash == "SHA256_EMPTY"

NoAuth == [scheme |-> "none"]
Bearer == [scheme |-> "Bearer"]

Set(headers, name, value) ==
    [n \in DOMAIN headers \cup {name} |-> IF n = name THEN value ELSE headers[n]]
Without(headers, names) == Restrict(headers, DOMAIN headers \ names)

--------------------------------------------------------------------------------
(* What Url makes of a path and a host                                     *)

\* What is between the slashes of a path, and behind the last.
Segments(path) ==
    LET slashes == SetToSortSeq({i \in DOMAIN path : path[i] = "/"}, <)
        end(n) == IF n = Len(slashes) THEN Len(path) ELSE slashes[n + 1] - 1
    IN [n \in DOMAIN slashes |-> SubSeq(path, slashes[n] + 1, end(n))]

Dot == {".", "%2e"}

\* Url::path(), which is what is signed and checked, of a path as it is sent: a
\* backslash becomes a slash, a character that has to be escaped (one stands for
\* all) is; a segment "." goes, a segment ".." with the one before it, and at
\* the end either leaves an empty segment.
UrlPath(path) ==
    LET Read(c) == CASE c = "\\" -> "/" [] c = "{" -> "%7B" [] OTHER -> c
        segments == Segments([i \in DOMAIN path |-> Read(path[i])])
        IsOne(s) == s \in [1..1 -> Dot]
        IsTwo(s) == s \in [1..2 -> Dot]
        Walk(kept, s) == IF IsOne(s) \/ (IsTwo(s) /\ kept = <<>>) THEN kept
                         ELSE IF IsTwo(s) THEN Front(kept)
                         ELSE Append(kept, s)
        rest == FoldLeft(Walk, <<>>, segments)
        ends == IF IsOne(Last(segments)) \/ IsTwo(Last(segments)) THEN <<<<>>>> ELSE <<>>
    IN FlattenSeq([i \in DOMAIN (rest \o ends) |-> <<"/">> \o (rest \o ends)[i]])

\* host_str and port_or_known_default: the name in lower case (one name stands
\* for all that are not), and a port unless it is that of http or https.
ShownHost(host) ==
    [host EXCEPT !.name = IF @ = "PROXY" THEN "proxy" ELSE @,
                 !.port = IF @ \in {80, 443} THEN 0 ELSE @]

--------------------------------------------------------------------------------
(* AwsSign                                                                 *)

\* The verifier keeps what the client signed, as far as it arrived.
ListedHeaders(headers, listed) == Restrict(headers, DOMAIN headers \cap listed)

\* The signer keeps the streaming whitelist.
HeadersToSign(headers) ==
    LET kept == {"host", "content-length", "content-encoding",
                 "transfer-encoding", "range", "expect"} \cup AmzHeaders
    IN Restrict(headers, DOMAIN headers \cap kept)

\* Pairs sorted: their order in the query does not matter, their number does.
CanonicalQuery(q) == ToBag([i \in DOMAIN q |-> <<q[i].name, q[i].value>>])

CanonicalRequest(method, path, query, headers, payload) ==
    [method |-> method, path |-> path, query |-> CanonicalQuery(query),
     headers |-> headers, payload |-> payload]

Scope(t, region, service) == [day |-> Day(t), region |-> region, service |-> service]

\* The HMAC of the string to sign: time, scope and hash of the request.
Signature(key, t, scope, canonical) ==
    [key |-> key, time |-> t, scope |-> scope, canonical |-> canonical]

\* The Authorization header sign() returns.
Authorization(access_key, key, t, scope, canonical) ==
    [scheme |-> "AWS4-HMAC-SHA256", access_key |-> access_key, scope |-> scope,
     signed_headers |-> DOMAIN canonical.headers,
     signature |-> Signature(key, t, scope, canonical)]

\* The arguments of signing_key: the day of the time the signature is for.
KeyArgs(t, region, service, secret) ==
    [day |-> Day(t), region |-> region, service |-> service, secret |-> secret]

--------------------------------------------------------------------------------
(* A client's Authorization header                                         *)

\* What signature_is_valid_for_request can check: the header parses, and the
\* headers it reads are there.
CanCheckHeader(r) ==
    /\ r.auth.scheme = "AWS4-HMAC-SHA256"
    /\ {"host", "x-amz-date", "x-amz-content-sha256"} \subseteq DOMAIN r.headers

\* Fault: the scope is read with service and region in the wrong order.
HeaderKeyArgs_Swapped(r, secret) ==
    KeyArgs(r.headers["x-amz-date"], r.auth.scope.service, r.auth.scope.region, secret)

HeaderKeyArgs(r, secret) ==
    KeyArgs(r.headers["x-amz-date"], r.auth.scope.region, r.auth.scope.service, secret)

\* Fault: the signer's whitelist stands for the client's SignedHeaders.
HeaderSignatureIsValid_Whitelist(r, key) ==
    LET t == r.headers["x-amz-date"]
        scope == Scope(t, r.auth.scope.region, r.auth.scope.service)
        canonical == CanonicalRequest(r.method, UrlPath(r.path), r.query,
                       HeadersToSign(r.headers), r.headers["x-amz-content-sha256"])
    IN Signature(key, t, scope, canonical) = r.auth.signature

\* The signature is computed again from the request as Url reads it, with the
\* payload hash it declares; neither the body nor the clock is looked at.
HeaderSignatureIsValid(r, key) ==
    LET t == r.headers["x-amz-date"]
        scope == Scope(t, r.auth.scope.region, r.auth.scope.service)
        canonical == CanonicalRequest(r.method, UrlPath(r.path), r.query,
                       ListedHeaders(r.headers, r.auth.signed_headers),
                       r.headers["x-amz-content-sha256"])
    IN Signature(key, t, scope, canonical) = r.auth.signature

--------------------------------------------------------------------------------
(* A presigned URL                                                         *)

\* query_pairs reads pairs from the left and stops at what is not one.
QueryPairs(q) ==
    LET stop == SelectInSeq(q, LAMBDA p : p.form = "bare")
    IN IF stop = 0 THEN q ELSE SubSeq(q, 1, stop - 1)

\* parse_presigned_params finds every parameter it must.
PresignedParamsParse(q) == PresignParams \subseteq Names(QueryPairs(q))

\* The rebuilt query joins names and values as they were decoded, and is parsed
\* and decoded again: a plus sign and what is still an escape are read as a
\* blank, and an ampersand ends the parameter.
Reread(p) ==
    IF p.name \in PresignParams THEN <<p>>
    ELSE IF p.value \in {"+", "%20"} THEN <<[p EXCEPT !.value = " "]>>
    ELSE IF p.value = "x&y" THEN <<[p EXCEPT !.value = "x"], Param("y", "", "pair")>>
    ELSE <<p>>

\* All that the parameters of a query become; only the pairs matter from here on.
RereadQuery(q) ==
    [at \in UNION {{i} \X DOMAIN Reread(q[i]) : i \in DOMAIN q} |-> Reread(q[at[1]])[at[2]]]

\* What is left of a query keeps its places.
WithoutSignature(q) == RestrictValues(q, LAMBDA p : p.name # "X-Amz-Signature")

\* Fault: only the parameters of the signature itself are kept.
PresignedQuery_OwnOnly(q) ==
    RestrictValues(WithoutSignature(q), LAMBDA p : p.name \in PresignParams)

PresignedQuery(q) == RereadQuery(WithoutSignature(q))

\* The host is the one Url shows.  Only these other headers are copied, and only
\* those that are listed.
PresignedHeaders(r, listed) ==
    LET copied == {"x-amz-date", "x-amz-content-sha256", "range", "x-amz-security-token"}
    IN ListedHeaders(Set(Restrict(r.headers, DOMAIN r.headers \cap copied),
                         "host", ShownHost(r.headers["host"])),
                     listed)

PresignedKeyArgs(r, secret) ==
    LET credential == ValueOf(r.query, "X-Amz-Credential") IN
    KeyArgs(ValueOf(r.query, "X-Amz-Date"), credential.region, credential.service, secret)

\* now > date + expires.
Expired(r, now) ==
    now > ValueOf(r.query, "X-Amz-Date") + ValueOf(r.query, "X-Amz-Expires")

PresignedSignatureIsValid(r, key) ==
    LET t == ValueOf(r.query, "X-Amz-Date")
        credential == ValueOf(r.query, "X-Amz-Credential")
        canonical == CanonicalRequest(r.method, UrlPath(r.path), PresignedQuery(r.query),
                       PresignedHeaders(r, ValueOf(r.query, "X-Amz-SignedHeaders")),
                       Unsigned)
    IN Signature(key, t, Scope(t, credential.region, credential.service), canonical)
         = ValueOf(r.query, "X-Amz-Signature")

--------------------------------------------------------------------------------
(* Signing for the backend                                                 *)

\* sign_request: the date of now, and a payload hash when the client gave none.
PrepareRequest(r, now) ==
    LET dated == Set(r.headers, "x-amz-date", now)
        payload == IF "x-amz-content-sha256" \in DOMAIN r.headers
                     THEN r.headers["x-amz-content-sha256"]
                   ELSE IF r.method \in {"GET", "HEAD", "DELETE"} THEN EmptyHash
                   ELSE Unsigned
    IN [r EXCEPT !.headers = Set(dated, "x-amz-content-sha256", payload)]

\* Fault: the client's date is kept.
PrepareStreaming_KeepsDate(r, now) ==
    [r EXCEPT !.headers = Set(Without(r.headers, {"content-length", "content-md5"}),
                              "transfer-encoding", "chunked")]

\* An upload in signed chunks has no length of its own any more.
PrepareStreaming(r, now) ==
    [r EXCEPT !.headers =
        Set(Set(Without(r.headers, {"content-length", "content-md5"}),
                "transfer-encoding", "chunked"),
            "x-amz-date", now)]

IsStreaming(r) ==
    /\ "x-amz-content-sha256" \in DOMAIN r.headers
    /\ r.headers["x-amz-content-sha256"] \in {ChunkSigned, UnsignedTrailer}

\* sign_request covers the hash in the header; resign_streaming_request always
\* the marker of signed chunks.
PayloadLine(r) ==
    IF IsStreaming(r) THEN ChunkSigned ELSE r.headers["x-amz-content-sha256"]

\* Authorization for r as it is now: date, payload hash and all, but for the
\* path, which is sent as it is and signed as Url reads it.
Signed(r, access_key, key, t, region) ==
    [r EXCEPT !.auth =
        Authorization(access_key, key, t, Scope(t, region, "s3"),
            CanonicalRequest(r.method, UrlPath(r.path), r.query,
                             HeadersToSign(r.headers), PayloadLine(r)))]
================================================================================
