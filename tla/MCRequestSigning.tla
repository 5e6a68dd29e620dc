---------------------------- MODULE MCRequestSigning ---------------------------
(* Instances of RequestSigning for TLC.                                    *)
EXTENDS RequestSigning

CONSTANTS w1, w2

MCDays == 0..2
MCRegions == {"", "us", ClientRegion}
MCServices == {"s3"}
MCSecrets == {ClientSecret, OtherSecret, "backend secret"}
MCShards == {"odd", "even"}
MCShardOf == [a \in Args |-> IF a.day % 2 = 0 THEN "even" ELSE "odd"]

\* Bucket configurations: both styles, none and one the documentation does not
\* name; a port of its own; no region; an API key.
Backend == [host |-> "backend", port |-> 443, style |-> "none", region |-> "eu",
            access_key |-> "backend access key", secret_key |-> "backend secret",
            creds |-> "hmac"]
MCItems == {Backend,
            [Backend EXCEPT !.style = "path", !.port = 9000],
            [Backend EXCEPT !.style = "virtual", !.region = ""],
            [Backend EXCEPT !.style = "other", !.region = "us"],
            [Backend EXCEPT !.style = "path", !.creds = "api_key"]}

Host(port) == [name |-> "proxy", port |-> port]
Shouted == [name |-> "PROXY", port |-> 0]
Headers(rest) == [n \in DOMAIN rest \cup {"host"} |-> IF n = "host" THEN Host(0) ELSE rest[n]]

Get1 == [method |-> "GET", path |-> <<"/", "b", "/", "k">>, query |-> <<>>,
         headers |-> [n \in {"host", "x-amz-content-sha256", "user-agent"} |->
                        CASE n = "host" -> Host(0)
                          [] n = "x-amz-content-sha256" -> EmptyHash
                          [] n = "user-agent" -> "a client"],
         auth |-> NoAuth]
With(r, name, value) == [r EXCEPT !.headers = Set(@, name, value)]

HeaderShape(r) == [kind |-> "header", request |-> r, signs |-> {}, own_secret |-> TRUE,
                   age |-> 0, expires |-> 1, altered |-> "none"]
PresignedShape(r) == [HeaderShape(r) EXCEPT !.kind = "presigned",
                        !.request = [r EXCEPT !.headers =
                                       Without(@, {"x-amz-content-sha256"})]]

\* What is uploaded, with the headers an upload has.
Put(payload) ==
    With(With(With([Get1 EXCEPT !.method = "PUT"], "x-amz-content-sha256", payload),
              "content-length", "7"), "content-md5", "md5")
Ranged == With(With(Get1, "range", "0-9"), "content-type", "text")

\* Every path of up to five characters over two letters and the slash.
Paths == UNION {{<<"/">> \o s : s \in [1..n -> {"/", "a", "b"}]} : n \in 0..4}

\* Paths that Url or AWS reads otherwise than they are written: segments of dots
\* in the middle, at the end and in front of the bucket, once written as an
\* escape; a character both escape, one only AWS does, one Url makes a slash.
OddPaths == {<<"/", "b", "/", ".", "/", "k">>, <<"/", "b", "/", ".", ".", "/", "k">>,
                <<"/", "b", "/", "k", "/", "%2e", ".">>, <<"/", ".", ".", "/", "b", "/", "k">>,
                <<"/", "b", "/", "{">>, <<"/", "b", "/", "!">>, <<"/", "b", "\\", "k">>}

Queries == {<<>>,
            <<Param("p", "plain", "pair"), Param("q", " ", "pair")>>,
            <<Param("p", "plain", "pair"), Param("p", "plain", "pair")>>,
            <<Param("p", "+", "pair")>>,
            <<Param("p", "%20", "pair")>>,
            <<Param("p", "x&y", "pair")>>,
            <<Param("X-Amz-Security-Token", "plain", "pair")>>,
            <<Param("uploads", "", "bare")>>,
            <<Param("uploadId", "plain", "pair")>>}

Alterations == {"method", "path", "dots", "parameter", "order", "plus", "port", "case",
                "range", "payload", "agent"}

Blank == [Get1 EXCEPT !.query = <<Param("q", " ", "pair")>>]
Bases == {HeaderShape(Get1), PresignedShape(Get1), HeaderShape(Blank), PresignedShape(Blank)}
Shapes ==
    Bases
    \cup {[HeaderShape([Get1 EXCEPT !.query = q]) EXCEPT !.age = a] : q \in Queries, a \in {0, 2}}
    \cup {[PresignedShape([Get1 EXCEPT !.query = q]) EXCEPT !.age = a, !.altered = how] :
            q \in Queries, a \in {0, 2}, how \in {"none", "order"}}
    \cup {[s EXCEPT !.altered = how] : s \in Bases, how \in Alterations}
    \cup {[s EXCEPT !.own_secret = FALSE] : s \in Bases}
    \cup {[HeaderShape(Ranged) EXCEPT !.signs = h, !.altered = how] :
            h \in {{"range"}, {"content-type", "user-agent"}}, how \in {"none", "range"}}
    \cup {[PresignedShape(Ranged) EXCEPT !.signs = h, !.altered = how] :
            h \in {{"range"}, {"content-type"}}, how \in {"none", "range"}}
    \cup {PresignedShape(With(Get1, "host", h)) : h \in {Host(80), Host(8080), Shouted}}
    \cup {HeaderShape(With(Get1, "host", h)) : h \in {Host(80), Host(8080), Shouted}}
    \cup {HeaderShape(With(Put(p), "x-amz-meta-k", "v")) :
            p \in {"a hash", Unsigned, ChunkSigned, UnsignedTrailer}}
    \cup {[HeaderShape(With(Put("a hash"), "x-amz-acl", "public")) EXCEPT !.signs = {"x-amz-acl"}]}
    \cup {[PresignedShape(Put(Unsigned)) EXCEPT !.expires = 3]}
    \cup {[HeaderShape(Get1) EXCEPT !.kind = "unsigned"]}

One(s) == [w \in Workers |-> IF w = w1 THEN s ELSE NoRequest]
WithPath(p) == HeaderShape([Get1 EXCEPT !.path = p])

Setup(i, c, s) == [item |-> i, checked |-> c, shape |-> s]

\* One request of every shape, for every configuration; one for every path, and
\* for the odd ones also presigned and unchecked; and two at a time, of
\* which one is dated a day back.
MCSetups ==
    {Setup(i, c, One(s)) : i \in MCItems, c \in BOOLEAN, s \in Shapes}
    \cup {Setup([Backend EXCEPT !.style = y], TRUE, One(WithPath(p))) :
             y \in {"virtual", "path"}, p \in Paths}
    \cup {Setup([Backend EXCEPT !.style = y], c,
                One([s EXCEPT !.request = [@ EXCEPT !.path = p]])) :
             y \in {"virtual", "path"}, c \in BOOLEAN, p \in OddPaths,
             s \in {HeaderShape(Get1), PresignedShape(Get1)}}
    \cup {Setup(Backend, TRUE,
                [w \in Workers |-> IF w = w1 THEN [HeaderShape(Get1) EXCEPT !.age = 2] ELSE s]) :
             s \in {HeaderShape(Put(ChunkSigned)), PresignedShape(Get1)}}
MCPathSetups == {Setup(Backend, TRUE, One(WithPath(p))) : p \in Paths}
================================================================================
