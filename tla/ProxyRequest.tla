------------------------------ MODULE ProxyRequest -----------------------------
(***************************************************************************)
(* The life of a request in the proxy (lib.rs:339-1287): request_filter,   *)
(* upstream_peer, upstream_request_filter and logging, for requests that   *)
(* share the HMAC keystore, the bucket map and the gauge of connections.   *)
(*                                                                         *)
(* A step ends where the code awaits a lock or a callback: other requests  *)
(* run there.  The usage limit (module UrlTracker) and the authorization   *)
(* cache (module AuthCache) appear here by their verdicts only.            *)
(***************************************************************************)
EXTENDS Integers, FiniteSets

CONSTANTS
    Requests,     \* requests, each handled once
    Shapes,       \* what a client may send, a set of Shape
    AccessKeys,   \* client access keys
    Buckets,      \* bucket names the clients address
    Secrets,      \* secret keys the key service hands out
    Settings,     \* configurations of the proxy, a set of Setting
    MaxRetries    \* bound on pingora's retries of one request

\* kind is "object", "list" (GET /) or "malformed" (a path that does not parse,
\* or, where request_filter looks at them, credentials); sig says how the
\* request was signed.
Shape == [kind : {"object", "list", "malformed"}, bucket : Buckets,
          access_key : AccessKeys, sig : {"good", "wrong", "expired", "broken"},
          presigned : BOOLEAN, multipart : BOOLEAN, expect : BOOLEAN]

\* The parts of ProxyServerConfig request_filter looks at; skip is
\* skip_signature_validation, "none" when it is not configured.
Setting == [validator : BOOLEAN, skip : {"none", "yes", "no"},
            hmac_fetcher : BOOLEAN, bucket_creds_fetcher : BOOLEAN]

NoSecret == "no secret"
WrongSecret == "wrong secret"

ASSUME RequestAssumption ==
    /\ Shapes \subseteq Shape
    /\ Settings \subseteq Setting
    /\ MaxRetries \in Nat
    /\ NoSecret \notin Secrets

\* A CosMapItem, reduced to the credentials it has; "unconfigured" stands for
\* a bucket that is not in the map.
Configs == {"unconfigured", "none", "hmac", "api_key"}

\* Where a request can be, and how it can end.
Stages == {"new", "filter", "haskey", "fetchkey", "storekey", "signature",
           "validate", "creds", "fetchcreds", "writeback", "peer", "upstream",
           "sent", "logging", "done"}
Answers == {"200", "401", "403", "404", "error", "panic", "no credentials",
            "forwarded"}

VARIABLES
    setting,      \* the proxy's configuration, fixed at start
    cosmap,       \* cosmap[b]: the CosMapItem of b
    keystore,     \* keystore[a]: the secret known for access key a
    gauge,        \* ACTIVE_CONNECTIONS
    pc,           \* pc[r]: where request r is
    req,          \* req[r]: the shape of r
    signed,       \* signed[r]: the secret r was signed with
    fetched,      \* fetched[r]: the secret hmac_fetcher gave r
    config,       \* config[r]: r's own clone of its bucket's CosMapItem
    status,       \* status[r]: the answer to the client
    retries,      \* retries[r]: how often pingora retried r
    granted,      \* history: requests the validator granted
    verified,     \* history: requests whose signature was checked
    credFetches,  \* history: calls of bucket_creds_fetcher for each bucket
    current,      \* current[a]: the secret the key service has for a
    issued        \* history: the secrets the keystore was ever given for a

shared == <<cosmap, keystore, gauge>>
history == <<granted, verified, credFetches>>
service == <<current, issued>>
vars == <<setting, shared, pc, req, signed, fetched, config, status, retries,
          history, service>>

Bucket(r) == req[r].bucket
AccessKey(r) == req[r].access_key

\* has_hmac() || has_api_key().
HasCreds(c) == c \in {"hmac", "api_key"}

Goto(r, label) == pc' = [pc EXCEPT ![r] = label] /\ UNCHANGED status

\* The request is answered or fails; pingora calls logging next.
Respond(r, answer) ==
    /\ pc' = [pc EXCEPT ![r] = "logging"]
    /\ status' = [status EXCEPT ![r] = answer]

Init ==
    /\ setting \in Settings
    /\ cosmap \in [Buckets -> {"unconfigured", "none", "hmac"}]
    /\ current \in [AccessKeys -> Secrets]
    /\ keystore \in {k \in [AccessKeys -> Secrets \cup {NoSecret}] :
                       \A a \in AccessKeys : k[a] \in {NoSecret, current[a]}}
    /\ issued = [a \in AccessKeys |-> {keystore[a]} \ {NoSecret}]
    /\ gauge = 0
    /\ pc = [r \in Requests |-> "new"]
    /\ req \in [Requests -> Shapes]
    /\ signed = [r \in Requests |-> NoSecret]
    /\ fetched = [r \in Requests |-> NoSecret]
    /\ config = [r \in Requests |-> "unconfigured"]
    /\ status = [r \in Requests |-> "none"]
    /\ retries = [r \in Requests |-> 0]
    /\ granted = {}
    /\ verified = {}
    /\ credFetches = [b \in Buckets |-> 0]

--------------------------------------------------------------------------------
(* The client and the key service                                          *)

\* The client signs with the secret the key service has for it at that moment.
Send(r) ==
    /\ pc[r] = "new"
    /\ signed' = [signed EXCEPT ![r] = IF req[r].sig \in {"good", "expired"}
                                         THEN current[AccessKey(r)] ELSE WrongSecret]
    /\ Goto(r, "filter")
    /\ UNCHANGED <<setting, shared, req, fetched, config, retries, history, service>>

\* The key service gives an access key another secret.
Rotate(a, s) ==
    /\ s # current[a]
    /\ current' = [current EXCEPT ![a] = s]
    /\ UNCHANGED <<setting, shared, pc, req, signed, fetched, config, status,
                   retries, history, issued>>

--------------------------------------------------------------------------------
(* request_filter                                                          *)

\* The usage limit of presigned URLs, whatever the tracker says.
LimitReached(r) ==
    /\ pc[r] = "filter"
    /\ req[r].presigned
    /\ Respond(r, "403")
    /\ UNCHANGED <<setting, shared, req, signed, fetched, config, retries,
                   history, service>>

\* Expect: 100-continue leaves request_filter with an empty context; GET /
\* lists the buckets; what does not parse fails.
ShortCircuit(r) ==
    /\ pc[r] = "filter"
    /\ \/ req[r].expect /\ Goto(r, "peer")
       \/ ~req[r].expect /\ req[r].kind = "list" /\ Respond(r, "200")
       \/ ~req[r].expect /\ req[r].kind = "malformed" /\ Respond(r, "error")
    /\ UNCHANGED <<setting, shared, req, signed, fetched, config, retries,
                   history, service>>

\* Fault: presigned requests skip the signature check.
CloneConfig_PresignedUnchecked(r) ==
    /\ pc[r] = "filter"
    /\ ~req[r].expect
    /\ req[r].kind = "object"
    /\ config' = [config EXCEPT ![r] = cosmap[Bucket(r)]]
    /\ Goto(r, IF ~setting.validator THEN "creds"
               ELSE IF setting.skip = "no" /\ ~req[r].multipart /\ ~req[r].presigned
                 THEN "haskey" ELSE "validate")
    /\ UNCHANGED <<setting, shared, req, signed, fetched, retries, history, service>>

\* Clone the bucket's configuration under the read lock, and see which checks
\* apply: none without a validator, and no signature check when it is skipped,
\* not configured, or the request is part of a multipart upload.
CloneConfig(r) ==
    /\ pc[r] = "filter"
    /\ ~req[r].expect
    /\ req[r].kind = "object"
    /\ config' = [config EXCEPT ![r] = cosmap[Bucket(r)]]
    /\ Goto(r, IF ~setting.validator THEN "creds"
               ELSE IF setting.skip = "no" /\ ~req[r].multipart THEN "haskey"
               ELSE "validate")
    /\ UNCHANGED <<setting, shared, req, signed, fetched, retries, history, service>>

\* contains_key under the read lock; without a fetcher a missing key is a 401.
HasKey(r) ==
    /\ pc[r] = "haskey"
    /\ \/ keystore[AccessKey(r)] # NoSecret /\ Goto(r, "signature")
       \/ /\ keystore[AccessKey(r)] = NoSecret
          /\ IF setting.hmac_fetcher THEN Goto(r, "fetchkey") ELSE Respond(r, "401")
    /\ UNCHANGED <<setting, shared, req, signed, fetched, config, retries,
                   history, service>>

\* Fault: a fetcher that raises leaves an empty secret to store.
FetchKey_StoresNothing(r) ==
    /\ pc[r] = "fetchkey"
    /\ \E s \in {current[AccessKey(r)], NoSecret} :
         fetched' = [fetched EXCEPT ![r] = s]
    /\ Goto(r, "storekey")
    /\ UNCHANGED <<setting, shared, req, signed, config, retries, history, service>>

\* Fault: the fetched secret is not stored.
FetchKey_NotStored(r) ==
    /\ pc[r] = "fetchkey"
    /\ \/ /\ fetched' = [fetched EXCEPT ![r] = current[AccessKey(r)]]
          /\ Goto(r, "signature")
       \/ Respond(r, "401") /\ UNCHANGED fetched
    /\ UNCHANGED <<setting, shared, req, signed, config, retries, history, service>>

\* hmac_fetcher answers with the secret of the moment, or raises: 401.
FetchKey(r) ==
    /\ pc[r] = "fetchkey"
    /\ \/ /\ fetched' = [fetched EXCEPT ![r] = current[AccessKey(r)]]
          /\ Goto(r, "storekey")
       \/ Respond(r, "401") /\ UNCHANGED fetched
    /\ UNCHANGED <<setting, shared, req, signed, config, retries, history, service>>

\* insert under the write lock, over whatever another request inserted.
StoreKey(r) ==
    /\ pc[r] = "storekey"
    /\ keystore' = [keystore EXCEPT ![AccessKey(r)] = fetched[r]]
    /\ issued' = [issued EXCEPT ![AccessKey(r)] = @ \cup {fetched[r]}]
    /\ Goto(r, "signature")
    /\ UNCHANGED <<setting, cosmap, gauge, req, signed, fetched, config, retries,
                   history, current>>

\* get(..).expect("key was just inserted"), then the signature check; a
\* presigned URL is first checked for expiry, and one that cannot be checked
\* fails the request, where a regular one counts as invalid.
CheckSignature(r) ==
    /\ pc[r] = "signature"
    /\ LET secret == keystore[AccessKey(r)] IN
       \/ secret = NoSecret /\ Respond(r, "panic") /\ UNCHANGED verified
       \/ /\ secret # NoSecret
          /\ req[r].sig = "broken"
          /\ Respond(r, IF req[r].presigned THEN "error" ELSE "401")
          /\ UNCHANGED verified
       \/ /\ secret # NoSecret
          /\ req[r].sig = "expired" /\ req[r].presigned
          /\ Respond(r, "403")
          /\ UNCHANGED verified
       \/ /\ secret # NoSecret
          /\ req[r].sig # "broken" /\ ~(req[r].sig = "expired" /\ req[r].presigned)
          /\ IF signed[r] = secret
               THEN Goto(r, "validate") /\ verified' = verified \cup {r}
               ELSE Respond(r, "401") /\ UNCHANGED verified
    /\ UNCHANGED <<setting, shared, req, signed, fetched, config, retries,
                   granted, credFetches, service>>

\* get_or_validate grants, denies or fails.
Validate(r) ==
    /\ pc[r] = "validate"
    /\ \/ Goto(r, "creds") /\ granted' = granted \cup {r}
       \/ \E answer \in {"401", "error"} : Respond(r, answer) /\ UNCHANGED granted
    /\ UNCHANGED <<setting, shared, req, signed, fetched, config, retries,
                   verified, credFetches, service>>

\* Fault: a bucket without credentials passes when there is no fetcher.
NeedCredentials_Optional(r) ==
    /\ pc[r] = "creds"
    /\ \/ config[r] = "unconfigured" /\ Respond(r, "404")
       \/ HasCreds(config[r]) /\ Goto(r, "writeback")
       \/ /\ config[r] = "none"
          /\ Goto(r, IF setting.bucket_creds_fetcher THEN "fetchcreds" ELSE "peer")
    /\ UNCHANGED <<setting, shared, req, signed, fetched, config, retries,
                   history, service>>

\* No configuration is a 404; ensure_credentials returns at once when the
\* clone has credentials, and fails when it has none and there is no fetcher.
NeedCredentials(r) ==
    /\ pc[r] = "creds"
    /\ \/ config[r] = "unconfigured" /\ Respond(r, "404")
       \/ HasCreds(config[r]) /\ Goto(r, "writeback")
       \/ /\ config[r] = "none"
          /\ IF setting.bucket_creds_fetcher THEN Goto(r, "fetchcreds")
                                             ELSE Respond(r, "error")
    /\ UNCHANGED <<setting, shared, req, signed, fetched, config, retries,
                   history, service>>

\* Fault: the clone is written back whether or not it was completed.
FetchCredentials_KeepsGoing(r) ==
    /\ pc[r] = "fetchcreds"
    /\ credFetches' = [credFetches EXCEPT ![Bucket(r)] = @ + 1]
    /\ \E c \in {"none", "hmac", "api_key"} : config' = [config EXCEPT ![r] = c]
    /\ Goto(r, "writeback")
    /\ UNCHANGED <<setting, shared, req, signed, fetched, retries, granted,
                   verified, service>>

\* bucket_creds_fetcher answers with either kind of credential, or raises.
FetchCredentials(r) ==
    /\ pc[r] = "fetchcreds"
    /\ credFetches' = [credFetches EXCEPT ![Bucket(r)] = @ + 1]
    /\ \/ \E c \in {"hmac", "api_key"} :
            config' = [config EXCEPT ![r] = c] /\ Goto(r, "writeback")
       \/ Respond(r, "error") /\ UNCHANGED config
    /\ UNCHANGED <<setting, shared, req, signed, fetched, retries, granted,
                   verified, service>>

\* The clone goes back into the map under the write lock, as a whole.
WriteBack(r) ==
    /\ pc[r] = "writeback"
    /\ cosmap' = [cosmap EXCEPT ![Bucket(r)] = config[r]]
    /\ Goto(r, "peer")
    /\ UNCHANGED <<setting, keystore, gauge, req, signed, fetched, config,
                   retries, history, service>>

--------------------------------------------------------------------------------
(* Forwarding                                                              *)

\* upstream_peer: the connection is counted each time it is called.
UpstreamPeer(r) ==
    /\ pc[r] = "peer"
    /\ gauge' = gauge + 1
    /\ Goto(r, "upstream")
    /\ UNCHANGED <<setting, cosmap, keystore, req, signed, fetched, config,
                   retries, history, service>>

\* upstream_request_filter parses the path and reads the map again.  It signs
\* with the pair it finds, which fails without a region, or exchanges an API
\* key for a bearer token, which may fail; it fails when it finds neither.
UpstreamRequest(r) ==
    /\ pc[r] = "upstream"
    /\ IF req[r].kind # "object" THEN Respond(r, "error")
       ELSE \/ /\ HasCreds(cosmap[Bucket(r)])
               /\ Goto(r, "sent") \/ Respond(r, "error")
            \/ ~HasCreds(cosmap[Bucket(r)]) /\ Respond(r, "no credentials")
    /\ UNCHANGED <<setting, shared, req, signed, fetched, config, retries,
                   history, service>>

\* pingora retries on a new connection when a reused one turns out closed.
Retry(r) ==
    /\ pc[r] = "sent"
    /\ retries[r] < MaxRetries
    /\ retries' = [retries EXCEPT ![r] = @ + 1]
    /\ Goto(r, "peer")
    /\ UNCHANGED <<setting, shared, req, signed, fetched, config, history, service>>

\* The backend answers, or the connection fails for good.
Upstream(r) ==
    /\ pc[r] = "sent"
    /\ Respond(r, "forwarded")
    /\ UNCHANGED <<setting, shared, req, signed, fetched, config, retries,
                   history, service>>

\* logging runs for every request, however it ended.
Logging(r) ==
    /\ pc[r] = "logging"
    /\ gauge' = gauge - 1
    /\ Goto(r, "done")
    /\ UNCHANGED <<setting, cosmap, keystore, req, signed, fetched, config,
                   retries, history, service>>

Filter(r) ==
    \/ LimitReached(r) \/ ShortCircuit(r) \/ CloneConfig(r) \/ HasKey(r)
    \/ FetchKey(r) \/ StoreKey(r) \/ CheckSignature(r) \/ Validate(r)
    \/ NeedCredentials(r) \/ FetchCredentials(r) \/ WriteBack(r)

Forward(r) ==
    UpstreamPeer(r) \/ UpstreamRequest(r) \/ Retry(r) \/ Upstream(r) \/ Logging(r)

Next ==
    \/ \E r \in Requests : Send(r) \/ Filter(r) \/ Forward(r)
    \/ \E a \in AccessKeys, s \in Secrets : Rotate(a, s)

Spec == Init /\ [][Next]_vars

--------------------------------------------------------------------------------
(* Properties                                                              *)

TypeOK ==
    /\ setting \in Settings
    /\ cosmap \in [Buckets -> Configs]
    /\ keystore \in [AccessKeys -> Secrets \cup {NoSecret}]
    /\ gauge \in Int
    /\ pc \in [Requests -> Stages]
    /\ req \in [Requests -> Shapes]
    /\ signed \in [Requests -> Secrets \cup {NoSecret, WrongSecret}]
    /\ fetched \in [Requests -> Secrets \cup {NoSecret}]
    /\ config \in [Requests -> Configs]
    /\ status \in [Requests -> Answers \cup {"none"}]
    /\ retries \in [Requests -> 0..MaxRetries]
    /\ granted \subseteq Requests
    /\ verified \subseteq Requests
    /\ credFetches \in [Buckets -> Nat]
    /\ current \in [AccessKeys -> Secrets]
    /\ issued \in [AccessKeys -> SUBSET Secrets]

Forwarding == {"peer", "upstream", "sent"}

\* Writing whole clones back never takes a bucket's credentials away again,
\* nor its entry: whoever read it before the fetch (lib.rs:643-648, 943-967).
CredentialsKept ==
    [][\A b \in Buckets :
         /\ HasCreds(cosmap[b]) => HasCreds(cosmap'[b])
         /\ (cosmap[b] = "unconfigured") = (cosmap'[b] = "unconfigured")]_vars

\* A request that request_filter let through finds credentials in the map when
\* upstream_request_filter reads it again, whatever others wrote in between
\* (lib.rs:1050-1053, 1259-1260).  Expect: 100-continue skips request_filter.
CredentialsFound ==
    \A r \in Requests :
        pc[r] \in Forwarding /\ ~req[r].expect => HasCreds(cosmap[Bucket(r)])

\* A key found missing and fetched, or found present, is in the keystore when
\* it is read again two awaits later: expect("key was just inserted") holds
\* (lib.rs:734-740, 822-831).
NoPanic == \A r \in Requests : status[r] # "panic"

\* THE EXCEPTION of the next property.  request_filter lets a request with
\* Expect: 100-continue through before it looks at the signature or asks the
\* validator (lib.rs:559-571); it is then signed with the bucket's credentials
\* and forwarded like any other, although README.md:159 says the validator is
\* "Called per request to authorize access" and lib.rs:317-318 puts signature
\* and authorization before both.
Unfiltered(r) == req[r].expect

\* Every forwarded request is Unfiltered or, with a validator, was granted by it
\* and, where signatures are checked (not with skip_signature_validation, not
\* for multipart uploads), verified with a secret the key service or the
\* configuration gave for its access key, whatever other requests put into the
\* keystore in between.  A secret rotated out since counts: the keystore has no
\* expiry, and a key in it is not fetched again (lib.rs:689-740, 786-831).
ForwardedIsAuthorized ==
    \A r \in Requests :
        pc[r] \in Forwarding /\ setting.validator =>
            \/ Unfiltered(r)
            \/ /\ r \in granted
               /\ setting.skip = "no" /\ ~req[r].multipart =>
                    r \in verified /\ signed[r] \in issued[AccessKey(r)]

\* README.md:157: bucket_creds_fetcher is "Called once per bucket".
CredentialsFetchedOnce == \A b \in Buckets : credFetches[b] <= 1

\* README.md:252 and metrics.rs:93: the gauge is the number of connections in
\* flight.
GaugeCountsInFlight == gauge >= 0
================================================================================
