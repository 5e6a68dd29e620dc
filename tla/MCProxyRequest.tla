----------------------------- MODULE MCProxyRequest ----------------------------
(* Instances of ProxyRequest for TLC.                                      *)
EXTENDS ProxyRequest, TLC

CONSTANTS b1, a1

ObjectRequest == [kind |-> "object", bucket |-> b1, access_key |-> a1,
                  sig |-> "good", presigned |-> FALSE, multipart |-> FALSE,
                  expect |-> FALSE]

\* A regular request, a presigned one, and one of each special kind.
MCShapes ==
    {ObjectRequest,
     [ObjectRequest EXCEPT !.presigned = TRUE],
     [ObjectRequest EXCEPT !.presigned = TRUE, !.sig = "expired"],
     [ObjectRequest EXCEPT !.sig = "broken"],
     [ObjectRequest EXCEPT !.multipart = TRUE, !.sig = "wrong"],
     [ObjectRequest EXCEPT !.expect = TRUE],
     [ObjectRequest EXCEPT !.kind = "list"],
     [ObjectRequest EXCEPT !.kind = "malformed"],
     [ObjectRequest EXCEPT !.kind = "malformed", !.expect = TRUE]}

\* Regular and presigned requests only.
MCPlainShapes == {ObjectRequest, [ObjectRequest EXCEPT !.presigned = TRUE]}

Checking == [validator |-> TRUE, skip |-> "no", hmac_fetcher |-> TRUE,
             bucket_creds_fetcher |-> TRUE]

MCSettings ==
    {Checking,
     [Checking EXCEPT !.skip = "none"],
     [Checking EXCEPT !.validator = FALSE],
     [Checking EXCEPT !.hmac_fetcher = FALSE, !.bucket_creds_fetcher = FALSE]}

MCChecking == {Checking}

\* Requests and secrets are interchangeable.
RequestSymmetry == Permutations(Requests) \cup Permutations(Secrets)
================================================================================
