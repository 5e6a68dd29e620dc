----------------------------- MODULE RequestTarget -----------------------------
(***************************************************************************)
(* Where a request goes: parse_path (parsers/path.rs), the peer            *)
(* upstream_peer connects to, and the URI, query and headers that          *)
(* upstream_request_filter makes of the client's (lib.rs:399-480,          *)
(* 1006-1166).  A path is a sequence of characters.                        *)
(***************************************************************************)
EXTENDS Naturals, Sequences, FiniteSets, Functions, FiniteSetsExt, SequencesExt, SigV4

\* A bucket's CosMapItem.  style is "none" when addressing_style is not
\* configured, region likewise; creds says which credentials it has.
CosMapItem == [host : STRING, port : Nat, style : {"none", "virtual", "path", "other"},
               region : STRING, access_key : STRING, secret_key : STRING,
               creds : {"hmac", "api_key"}]

--------------------------------------------------------------------------------
(* parse_path                                                              *)

\* Where needle occurs in s for the first time.
Find(s, needle) ==
    Min({i \in 1..(Len(s) - Len(needle) + 1) :
           SubSeq(s, i, i + Len(needle) - 1) = needle})

\* A slash, the bucket, and nothing or another slash and the rest.  The slash
\* before rest is recovered by searching the input for rest; where rest is
\* found at the very front there is none, and the subtraction underflows.
ParsePath(input) ==
    LET slashes == {i \in 2..Len(input) : input[i] = "/"}
        end == IF slashes = {} THEN Len(input) + 1 ELSE Min(slashes)
        bucket == SubSeq(input, 2, end - 1)
        rest == SubSeq(input, end + 1, Len(input))
    IN IF Len(input) < 2 \/ input[1] # "/" \/ input[2] = "/"
         THEN [outcome |-> "error"]
       ELSE IF rest = <<>>
         THEN [outcome |-> "ok", bucket |-> bucket, object |-> <<"/">>]
       ELSE IF Find(input, rest) = 1
         THEN [outcome |-> "panic"]
         ELSE [outcome |-> "ok", bucket |-> bucket,
               object |-> SubSeq(input, Find(input, rest) - 1, Len(input))]

--------------------------------------------------------------------------------
(* The peer                                                                *)

\* A host name is a domain with the bucket in front of it, or without.
HostName(bucket, domain) == [bucket |-> bucket, domain |-> domain]

\* Fault: the default style is taken for path style.
UpstreamPeer_DefaultIsPath(item, bucket) ==
    [host |-> IF item.style = "virtual" THEN HostName(bucket, item.host)
                                        ELSE HostName(<<>>, item.host),
     port |-> item.port]

\* Whom upstream_peer connects to.
UpstreamPeer(item, bucket) ==
    [host |-> IF item.style = "path" THEN HostName(<<>>, item.host)
                                     ELSE HostName(bucket, item.host),
     port |-> item.port]

--------------------------------------------------------------------------------
(* The upstream request                                                    *)

\* Fault: parameters are told from others by their full names.
CleanedQuery_KnownNames(q) ==
    RestrictValues(q, LAMBDA p : p.name \notin {"X-Amz-Date", "X-Amz-Signature"})

\* A verified presigned request loses its X-Amz-* parameters.
CleanedQuery(q) == RestrictValues(q, LAMBDA p : p.name \notin AmzParams)

\* Fault: a bucket without a configured style keeps its name in the path.
TargetPath_NoDefault(item, bucket, object) ==
    IF item.style = "virtual" THEN object
    ELSE IF object = <<"/">> THEN <<"/">> \o bucket
    ELSE <<"/">> \o bucket \o object

\* The path of the new URI.  "virtual" and nothing else leaves the bucket out.
TargetPath(item, bucket, object) ==
    IF item.style \in {"none", "virtual"} THEN object
    ELSE IF object = <<"/">> THEN <<"/">> \o bucket
    ELSE <<"/">> \o bucket \o object

\* Its authority.  "path" and nothing else leaves the bucket out; the port of
\* https is not written.
Endpoint(item, bucket) ==
    [name |-> IF item.style = "path" THEN HostName(<<>>, item.host)
                                     ELSE HostName(bucket, item.host),
     port |-> IF item.port = 443 THEN 0 ELSE item.port]

\* The headers that go on, beside x-amz-checksum-* and x-amz-meta-*; the
\* client's Authorization is not among them.
Allowed == {"host", "content-length", "content-type", "content-md5", "x-amz-date",
            "x-amz-content-sha256", "x-amz-security-token", "transfer-encoding",
            "content-encoding", "range", "expect", "x-amz-checksum-c", "x-amz-meta-k"}

AllowedHeaders(headers) == Restrict(headers, DOMAIN headers \cap Allowed)

\* upstream_request_filter up to the point where it signs.
UpstreamRequest(r, item, is_presigned) ==
    LET target == ParsePath(r.path)
        endpoint == Endpoint(item, target.bucket)
    IN [method |-> r.method, authority |-> endpoint,
        path |-> TargetPath(item, target.bucket, target.object),
        query |-> IF is_presigned THEN CleanedQuery(r.query) ELSE r.query,
        headers |-> AllowedHeaders(Set(r.headers, "host", endpoint)), auth |-> NoAuth]
================================================================================
