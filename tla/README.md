# Object Storage Proxy: models, model checking and proofs

TLA+ models of `object-storage-proxy`, a pingora-based reverse proxy (Rust, with
Python callbacks) that checks a client's S3 request, asks a Python policy
whether it may go on, and signs it again with the credentials of the backend.
Source paths are relative to the repository; `lib.rs` is `src/lib.rs`,
`validator.rs` is `src/utils/validator.rs`, `signer.rs` is
`src/credentials/signer.rs`.

## 1. Inventory

| Component | State | Operations | Used by |
|---|---|---|---|
| **Authorization cache** (`validator.rs` 28-148) | LRU map of decisions behind a std `RwLock`; a `DashMap` of one tokio mutex per key | `get_or_validate`, `insert`, `invalidate` | `request_filter` |
| **Presigned URL tracker** (`lib.rs` 93-141) | `DashMap` url -> hits | `track`, `get`, `get_all` | `request_filter` |
| **Request lifecycle** (`lib.rs` 339-1287) | `cos_mapping`, `hmac_keystore` (both behind tokio `RwLock`s, shared), the request's context, the gauge `ACTIVE_CONNECTIONS` | `request_filter`, `upstream_peer`, `upstream_request_filter`, `logging` | pingora, per request |
| **Streaming upload** (`signer.rs` 1232-1366, `lib.rs` 1171-1237, 1344-1424) | `StreamingState`: `decode_buf`, `prior_sig` | `request_body_filter`, `sign_chunk`, `final_chunk` | pingora, per piece of the body |
| **IAM token cache** (`secrets_proxy.rs`) | map of tokens with their expiry | `get`, `get_bearer`, `invalidate` | `upstream_request_filter` |
| **Signing key cache** (`signer.rs` 464-503) | `DashMap` of derived keys by day, region, service and secret | `signing_key`: `get`, `retain`, `insert` | every signature and every check of one |
| **Path and query parsers** (`parsers/path.rs`, `parsers/credentials.rs`) | none | `parse_path`, `parse_query`, `parse_presigned_params`, `parse_token_from_header`, ... | filters |
| **Bucket map and credentials** (`parsers/cos_map.rs`, `parsers/keystore.rs`, `credentials/models.rs`) | a `CosMapItem` per bucket | parsing of Python dictionaries at start, `ensure_credentials` | start-up, `request_filter` |
| **SigV4** (`signer.rs`) | none | `AwsSign`, `sign_request`, `resign_streaming_request`, `signature_is_valid_for_request`, `signature_is_valid_for_presigned` | filters |
| **Metrics** (`utils/metrics.rs`) | counters, histograms, gauges | `inc`, `dec`, `observe` | filters, `logging` |
| **Start-up, Python bindings** (`lib.rs`, `utils/functions.rs`, `utils/banner.rs`) | the configuration | `start_server`, callbacks | once; callbacks from `request_filter` |
| **HMAC key store type** (`credentials/hmac_keystore.rs`) | | | nothing in the proxy |

**How they interact.** pingora runs one tokio task per request on several worker
threads and calls the filters in order; `upstream_peer` and what follows may run
again when pingora retries. The tasks share the two maps, the caches, the
tracker and the metrics, and nothing else. Between any two awaits (a tokio
lock, a Python callback, an HTTP call) another task may run; std locks,
`DashMap` operations and atomics are single steps.

**What is hard.**

- *Interleavings around awaits.* `request_filter` reads the keystore, awaits,
  writes it, awaits and reads it again with `expect`; it clones a bucket's
  configuration, awaits three callbacks and writes the clone back whole.
- *Locks held across a callback.* The per-key mutex of the cache is held while
  Python decides, and must be released on failure, hit and panic.
- *Time.* Decisions expire, but an answer may be published late, and be put
  back after it was invalidated; an addition to `Instant` can overflow.
- *Limits.* The LRU capacity, the limit on uses of a URL.
- *Pieces and retries.* A body arrives in pieces that ignore its frames; a retry
  must start with a new state and a new chain of signatures.
- *Failure of one of several steps.* Every callback may raise.
- *One request, computed several times.* The client's canonical request is
  rebuilt to check it; host, path, query and headers are rewritten in several
  places, each from the bucket's configuration, and must agree when the backend
  rebuilds them in turn; each attempt takes the time anew.
- *One cache of keys for all secrets and days.* Its sweep goes shard by shard
  while other threads insert, and the days are the clients' to choose.

`PROJECT.json` lists each hazard with its line and the properties for it.

**What makes each component correct.**

- *Cache*: one validation per key at a time, none while a validated decision
  is live, no decision served that the policy left a ttl (and the
  time an answer takes) ago or earlier, capacity respected, every call returns.
- *Tracker*: never more than the limit let through; nobody turned away while
  uses remain, unless uses overlap.
- *Lifecycle*: what is forwarded was granted and verified, unless it came with
  `Expect: 100-continue` (section 4); write-backs lose nothing; the branches the
  code calls impossible are so.
- *Streaming*: the backend gets the client's chunks once, in order, in one chain
  of signatures, and the end only after the last.
- *Token cache*: no token used past its end, however renewals cross; the token
  of an API key the bucket no longer has dies in bounded time.
- *Signing keys*: the key of the caller's own day, region, service and secret; keys
  of as many days as there are threads at most.
- *SigV4*: what is verified was signed so with the right secret; what a client
  signs verifies; what goes on, the backend verifies; each up to what the URL
  parser in between makes of a path, a host and a value (section 4).
- *Target*: the backend is asked for the client's object, at the host that is
  connected to.

## 2. Modules

| Module | Role |
|---|---|
| `AuthCache` | the cache: tasks, LRU order, RwLock poisoning, FIFO key mutexes, clock, policy |
| `AuthCacheProofs` | its theorems |
| `UsageQuota` | abstract: at most `Max` uses of a URL are let through |
| `UrlTracker`, `UrlTrackerProofs` | `track`/`get`/compare; implements `UsageQuota` |
| `ProxyRequest`, `ProxyRequestProofs` | the life of a request and the state requests share |
| `UploadRelay` | abstract: chunks relayed in order, closed after the last |
| `ChunkStream`, `ChunkStreamProofs` | pieces, frames, chain of signatures, retries; implements `UploadRelay` |
| `SecretsCache`, `SecretsCacheProofs` | IAM tokens: read, check, renew and store without a lock across the renewal; changes of API key |
| `SigningKeyCache`, `SigningKeyCacheProofs` | `signing_key`: look up, sweep shard by shard, insert, by several threads |
| `SigV4` | what is canonicalised, signed and checked (operators) |
| `RequestTarget` | `parse_path`, peer, URI, query and headers of the upstream request (operators) |
| `RequestSigning` | a request from the client's signature to the backend's check, over the shared key cache; composes the three |
| `RequestSigningProofs` | its theorems on what goes on: signature, peer, object named |
| `RequestCheckProofs` | its theorems on the check of the client's signature, and that it uses the key cache as specified |
| `MC*` | instances for TLC |

`ProxyRequest` has the tracker and the cache by their verdicts (`LimitReached`,
`Validate`): any answer may come at any time, which includes all the detailed
modules allow. Operators named `<Definition>_<Fault>`, each with a `Fault:`
comment, are plausible bugs. No specification uses them: each run is repeated
with one of them in place of its definition, to see that the property fails.

### AuthCache

A task's `pc` is its place in `get_or_validate`; a step is what it does under
one acquisition of the `RwLock` or between two awaits.

| Action | Code (`validator.rs`) |
|---|---|
| `Peek`, `CheckFresh` | `peek` under the read lock; the comparison with `Instant::now()` after the lock is dropped |
| `LockKey` | get or make the key's mutex and queue for it |
| `PeekLocked`, `Recheck` | the second look, with the mutex held |
| `Answer`, `Fail` | the Python validator answers, or the `?` returns early |
| `Publish` | under the write lock: `Instant::now() + ttl`, `put` |
| `Insert`, `InsertPut`, `Invalidate` | the other two methods |
| `Tick`, `ChangePolicy` | the environment |

`rank` is the LRU order: `put` moves to the front and evicts what falls off,
`peek` does not promote (as the code's comment says). `decided` and `validated`
in an entry, and `changed`, are history variables the code does not have: no guard
of a task reads them. `AnswerLag` is an assumption on the environment: the time
between the policy's decision and the `put`. It limits `Tick`, not the tasks.

### UrlTracker

`Track` and `Get` are the two `DashMap` operations; the comparison is part of
`Get`. `ticket` and `overlapped` are history: the first gives the order of
uses for the proof, the second says that the uses of a URL never overlapped.

### ProxyRequest

A step ends where the code awaits. `HasKey`, `FetchKey`, `StoreKey`,
`CheckSignature` are the four acquisitions of the keystore (both the presigned
branch and the header branch run through them); `CloneConfig`,
`FetchCredentials`, `WriteBack` the read-modify-write of the bucket map;
`UpstreamPeer`, `UpstreamRequest`, `Retry`, `Upstream` the forwarding; `Logging` is
`logging`, which pingora calls however the request ended. Requests differ
in what the guards look at (`Shape`), and a configuration (`Setting`) is fixed
at start. The key service may rotate a secret at any time.

### ChunkStream

A byte is a symbol; a size and the `;chunk-signature=...` behind it are one
symbol each. An HMAC is taken to be injective: a signature is the seed of its
attempt followed by all payloads since. `Decode` is the `while` loop: `Turn` is one
turn of it, with `parse_aws_chunk_header` as `ParseHeader`, and `Turns` iterates it,
as often as there are bytes, since each frame takes some. Clients write sizes
that match their payloads (`ChunkAssumption`); what is sent may end anywhere. `Receive` is the whole of
`request_body_filter` with a body, `ReceiveNone` the early return without one,
`Retry` a new attempt, for which `upstream_request_filter` replaces the state.

### SecretsCache

A task is a call of `get` (`secrets_proxy.rs` 78-131). `Read` copies the token
under the read lock and drops it; `Check` looks at its expiry with the buffer of
300 s (`Buffer`); `Issue` is IAM's answer, `Fail` its refusal; `Store` is
`insert`, over whatever is there by then. Both arms of the `match` do the
same. `Invalidate` may happen at any time. `Get` takes the API key the bucket map
has at that moment into the closure; `ChangeKey` is a write-back of other
credentials, which `ProxyRequest` shows between requests that fetch at once.
`issued` and `api_key` in a token, `began` and `left` are history. Two assumptions
on the environment: a call takes at most `AnswerLag`, and a token lives longer
than that and than the buffer. `expiration - 300` is taken as an integer:
it would only wrap around for a token that ends in the first minutes of 1970.

### SigningKeyCache

A thread's `pc` is its place in `signing_key`. `Get` is the look-up, with its key
of day, region, service and secret; `Retain` sweeps one shard (`DashMap` locks
one at a time, in any order the model likes); `Insert` puts the new key.
`Call` and `Return` are left to whoever composes it. A derived key is the record
of what it is derived from, as an HMAC is taken to be injective. `insertedBy` is
history: the thread whose insert of a day is the latest.

### SigV4 and RequestTarget

A path is a sequence of characters, since `parse_path` compares them. Everything
else is a value: a header's value, a parameter with its `form` (`bare` for one
without `=`), a hash. Decoding and encoding are modelled where they do not undo
each other: `UrlPath` is what the URL parser makes of a path, whose dots it
resolves (`/x/../b` is `/b`) and some of whose characters it escapes; it is what
the code checks and signs, while `parse_path` reads, and the proxy sends, the path
as it came. `ShownHost` is what it makes of a host, and `Reread` what a
parameter of a presigned URL becomes when its decoded text is decoded again (a
plus sign, a doubly escaped blank, an escaped `&`, which makes two parameters
of one). An element of a path is a character as it is written, or an escape; one
character stands for each kind (escaped by both, by AWS only, a backslash). The
rest is the identity on names and left out.
`uploadId=`, `X-Amz-Signature` and `X-Amz-Credential` are searched for anywhere in the
query by the code, and among the names of parameters by the model: that they
occur inside another name or a value is left out. A canonical request is a record, a signature the record of
everything that goes into it. Times are numbers, `Day` divides by `DayLength`.

| Operators | Code |
|---|---|
| `CanonicalRequest`, `HeadersToSign`, `ListedHeaders` | `AwsSign` (`signer.rs` 150-457) |
| `CanCheckHeader`, `HeaderKeyArgs`, `HeaderSignatureIsValid` | `parse_token_from_header` (`credentials.rs` 26-60), `signature_is_valid_for_request` (`signer.rs` 610-752) |
| `PresignedParamsParse`, `PresignedQuery`, `PresignedHeaders`, `PresignedSignatureIsValid`, `Expired` | `parse_presigned_params`, `signature_is_valid_for_presigned` (`signer.rs` 755-893) |
| `PrepareRequest`, `PrepareStreaming`, `Signed` | `sign_request` (`signer.rs` 505-608), `resign_streaming_request` (1039-1071) |
| `UrlPath`, `ShownHost` | `url.parse()` (`signer.rs` 201, 775), `Url::path` (306, 371), the host of a presigned URL (852-858) |
| `Reread`, `RereadQuery` | the query of a presigned URL, joined and set again (`signer.rs` 788-795) |
| `ParsePath` | `path.rs` 13-39, with the search for the first occurrence and the subtraction that can underflow |
| `UpstreamPeer`, `TargetPath`, `Endpoint`, `CleanedQuery`, `AllowedHeaders` | `lib.rs` 399-480, 1006-1166 |

### RequestSigning

| Action | Code |
|---|---|
| `Send` | external: a client signs a request as AWS specifies, and it may be altered on the way |
| `Unreadable`, `Skip`, `Refuse`, `CheckPresigned`, `CheckHeader` | `request_filter` up to the check (`lib.rs` 611-857), including `uploadId=`, for which nothing is checked |
| `Verify` | `signature_is_valid_*` once its key is there |
| `Forward` | `upstream_peer` and `upstream_request_filter` up to the signing key |
| `Sign`, `Retry` | the signature; pingora's next attempt |
| `KeyStep` | a step inside `signing_key` |

`original` and `verified` are history. `BackendVerifies` is what the backend does
with the signature, as AWS specifies it, and `AwsPath` what AWS says is covered of a
path: they are the specification that the proxy's signing is held to, and that
clients sign by. `Covered` is what a client's signature covers of the request as it was
signed, `CoveredAsRead` the same of a request as the check reads it.

## 3. Runs

| Run | Shows | Bounds |
|---|---|---|
| `auth_cache` | `TypeOK`, `SingleFlight`, `CapacityBound`, `OncePerTtl`, `BoundedStaleness` | 2 tasks, 2 keys, room for 1 entry, ttl 1, clock to 2, one task that also calls `insert`/`invalidate` |
| `auth_cache_live` | `NobodyStranded`, `EveryCallReturns` | 3 tasks, 1 key, a ttl that overflows at the last instant |
| `auth_cache_opt_out` | *finding*: the ttl the comment advises panics and poisons the cache | 2 tasks, 1 key |
| `secrets_cache` | `TypeOK`, `ServedAlive`, `OwnApiKey`, `NeverMuchOlder` | 2 requests, 1 bucket, 2 API keys, buffer 1, lives of 2 or 3, calls of at most 1, clock to 4 |
| `url_tracker` | `ImplementsQuota`, `RejectedOverLimit`, `SequentialUsesServed` | 5 presigned requests of 2 URLs, limit 2, a request that is not presigned |
| `proxy_request` | `TypeOK`, `CredentialsFound`, `CredentialsKept`, `NoPanic`, `ForwardedIsAuthorized` (`Expect: 100-continue` excepted) | 2 requests of 9 shapes, 4 configurations, 1 bucket, 1 key, 2 secrets, 1 retry |
| `proxy_creds_once` | *finding*: the fetcher is called more than once per bucket | 2 shapes, 1 configuration |
| `proxy_gauge` | *finding*: the gauge goes below zero | same |
| `chunk_stream` | `TypeOK`, `ChainIntact`, `ImplementsRelay` | 6 uploads, broken off after any byte and cut anywhere, 2 attempts |
| `chunk_stream_end` | *finding*: no terminal chunk when the end comes without a body | 1 attempt |
| `request_signing` | `TypeOK`, `ReturnedIsDerived`, `DaysBounded`, `VerifiedIsUntouched`, `GenuineVerifies`, `ForwardedVerifies`, `OneSignature`, `ForwardedNamesObject`, `PeerIsAuthority` | 2 threads, 5 bucket configurations, requests of every shape and alteration, every path of up to 5 characters, days of length 2, clock to 4, 2 shards |
| `request_path` | *finding*: the object of a path is searched for in the whole path | every path of up to 5 characters |

Why the bounds are enough:

- *Cache.* Capacity 1 with 2 keys is the smallest cache that evicts, and does so
  on every second `put`. Two tasks are enough for every race of a reader, a
  writer and `invalidate`, since one of them plays all roles; the third in the
  live run is a second waiter behind a failing validator. With ttl 1, lag 1 and
  the clock to 2, a decision is made, changed, published late, served and
  expires; `DefaultTtl` is the 300 s of the code, reached through a configured 0.
  `Volatile = {k1}` keeps the policy of the second key fixed: that key is only
  there to evict. `InstantMax` is far off in the first run and 1 in the live
  one, so that there calls also panic and poison the lock.
- *Token cache.* Buckets share nothing in it, so one is enough. Two requests give
  every pair of a reader and a renewer and of two renewers, which cross
  in both orders. Lives of 2 and 3 let the token that was issued later end
  first; the clock lets a token be issued late, be renewed, and come to its end.
- *Tracker.* Four requests of one URL are two more than the limit: the comparison
  is met below, at and above it.
- *Lifecycle.* The maps are only read and written at a request's own bucket and
  key, so one of each, which all requests share, is the contended case;
  with two requests every order of one's read, other's write and one's write
  occurs. Two secrets allow a rotation and one back. One retry reaches
  `upstream_peer` again. Symmetry is over requests and secrets, of which
  the model distinguishes none; no run with symmetry has a liveness property.
- *Uploads.* They hold a payload that is a line end, one that looks like a size,
  no last frame, bytes after it, and a size that is not a number. Every way to
  cut and to break off is a behaviour. Two attempts are enough: a later one
  depends on the one before it only.
- *Signing.* What one request goes through depends on its own shape and
  the bucket alone, but for the key cache: so shapes are tried one at a time,
  against every configuration (both styles, none, one that is not documented;
  a port; no region; an API key), and two at a time where the cache matters.
  With days of length 2 and the clock to 4, midnight falls between any two
  steps of a request and between attempts, and a request that is dated a day
  back puts keys of two days there; two shards are swept with inserts in
  between. Each alteration (`Altered`) is one thing a signature covers (method,
  path, a parameter, a value, a header, the payload's hash), one it does not (order of
  the parameters, an unsigned header), or one the check does not see (dot segments in
  front of the path, port 443 or capitals in the host). `OddPaths` are the
  paths that the URL parser or AWS reads otherwise than they are written, for both
  ways to sign and for none; the queries hold a value of each kind that is decoded
  twice. Every exception that a property names is reached: these requests are
  accepted, refused or forwarded as section 4 says.
- *Paths.* Over two letters and the slash, five characters hold a bucket and an
  object that repeats it, an object that occurs in its bucket, one at the
  start of the path, double slashes, and a slash at the end.

Deadlock is checked wherever the system goes on for ever; the requests of
`UrlTracker` and `RequestSigning` and the upload of `ChunkStream` end, and these runs turn it off.

**Fairness.** `FairSpec` has weak fairness of each task's steps after `Call`, and
none of the clock, of new calls or of the policy. tokio polls every task that is
ready and its mutex is FIFO (the model's queue), so a waiter's step stays
enabled once it is at the head. It also assumes that the Python validator
answers or raises: the code has no timeout of its own, so with a validator
that hangs the tasks behind it do wait for ever.

## 4. Findings

1. `lib.rs:897` advises a ttl of `u64::MAX` "to opt out of expiry"; `Instant::now()
   + ttl` (`validator.rs:113`) panics for it, with the write guard held, and
   from then on every call of the cache panics.
2. `README.md:157` says the credential fetcher is "Called once per bucket"; each
   request that cloned the configuration before the first write-back calls it.
3. `logging` decrements `ACTIVE_CONNECTIONS` for every request, `upstream_peer`
   increments it for forwarded ones, once per attempt: requests answered by
   `request_filter` take it below zero.
4. `lib.rs:1404` says the proxy sends its own terminal chunk at the end of the
   stream; when the end comes without a body, it returns before that.
5. `path.rs:18` says that the object of a path is what follows the bucket.
   `path.rs:35` looks for it in the whole input: `/data/data` becomes object
   `/data/data` of bucket `data`, `/ab/b` object `ab/b`, and for `/b//` the search
   ends at the start and the subtraction underflows (a panic in a debug build).

Not counted as findings, but known exceptions, which the models have and the
properties name:

- `Expect: 100-continue` (`Unfiltered`, excepted in `ForwardedIsAuthorized`):
  `request_filter` returns `Ok(false)` for such a request before it looks at the
  signature or asks the validator (`lib.rs:559-571`), and it is then signed with the
  bucket's credentials and forwarded. `README.md:159` says the validator is "Called per
  request to authorize access", and `lib.rs:317-318` puts signature and authorization
  before the credentials. `CredentialsFound` excepts it, too: nobody has fetched
  credentials for it.
- A secret that was rotated out is accepted as long as the keystore has it, which is
  for good: `ForwardedIsAuthorized` says of a secret that it was issued at some time.
- Paths (`UrlPath` and `AwsPath`): the code checks and signs the path that the URL parser
  made (`signer.rs:201`, `306`, `371`), `parse_path` and the upstream request have the
  path as it came. So, with segments of dots, (a) a path passes the check with the
  signature of the path it resolves to, and another object is asked for
  (`CoveredAsRead` in `VerifiedIsUntouched`); (b) a client that signs such a path as it
  is, as S3 has it, is refused (`NotRebuilt` in `GenuineVerifies`); (c) an object with
  such a name is signed for another path than is sent, and the backend refuses it
  (`ForwardedVerifies` excepts it). (b) and (c) also hold for a character AWS escapes
  and the URL parser does not, when it is sent as it is, and for a backslash.
- The host of a presigned URL (`ShownHost`): its port is dropped if it is 80 or 443 and
  its name put in lower case (`signer.rs:852-858`). These may change on the way, and a
  client that signed them otherwise is refused.
- The parameters of a presigned URL (`Reread`): decoded, joined and decoded again
  (`signer.rs:788-795`), a plus sign, an escape or an `&` in a value is read as
  something else. A client that signed such a value is refused, and one in its place
  that reads the same as the signed one passes.

- `README.md:181` says of a bucket's ttl "Set to `0` to disable"; `lib.rs:898` turns 0
  into 300 s, as the comment above it says (`EffectiveTtl`).
- The check of a presigned URL finds no parameter behind one without a value
  (`credentials.rs:97-116`), and copies four headers beside the host
  (`signer.rs:863-874`): a client that signs others is refused (`NotRebuilt`).
- A presigned URL that is not checked (`uploadId=`, or the check turned off) goes on
  with the client's parameters and the proxy's signature.
- An upload that declares `STREAMING-UNSIGNED-PAYLOAD-TRAILER` is signed with another
  marker than it declares.
- An upload in chunks to a bucket without a region is signed for an empty region,
  where other requests are refused.
- An addressing style other than `virtual` and `path` names the bucket in the host and in the path.

## 5. What is proved

For every value of the constants (all tasks, keys, capacities, ttls, requests,
URLs, limits, shapes, configurations), from the named assumptions
`ConstantsAssumption`, `DefaultTtlAssumption`, `SecretsAssumption`,
`TrackerAssumption`, `RequestAssumption`, `KeyCacheAssumption`, `DayLengthAssumption`,
`SetupsAssumption`, `ClientAssumption` and `ChunkAssumption`, which type the
constants (a finite number of threads, a shard for every key, days that are not
empty, ports that are not 0), keep the bounded clock within
`InstantMax`, and say that the default ttl is not 0 (it is 300 s in the code),
that a token lives longer than the buffer and than a call takes, that "no
secret" is not a secret and the other secret not the client's, that what a client
signs carries no signature yet (`IsUnsignedRequest`) and has the headers it is to
cover, and that a frame's size, when it is a number, is its payload's, with no
frame behind the last. A signed request is altered in the ways `Altered`
lists, which include those the check does not see. What the URL parser does with a
path (`UrlPath`) is nowhere expanded: the theorems hold whatever it does, up to the
paths it changes.

- **AuthCache.** `TypeCorrect`; `SingleFlightHolds`, from `MutexHeld`: whoever is
  between taking a key's mutex and returning is at the head of its queue, and a
  queue has one head. `CapacityBoundHolds`, from `RankInv`: no two keys have one
  rank, exactly the ranked keys have an entry, and ranks are at most the
  capacity, so entries inject into `1..Cap`. The bound itself says nothing of
  ranks and is not inductive: `put` evicts by rank. `OncePerTtlHolds` needs `RecheckInv`,
  on what a task with the mutex has read: only it puts validated decisions of
  its key, so one that is live now is the one it looked at. `BoundedStalenessHolds`
  needs `StaleInv`, of every entry and every local copy: its decision was the
  policy's when it was taken, and it expires a lag and a ttl later at the latest.
  The bound is strict, and it is tight: the model reaches it less one.
  `NobodyStrandedHolds`, from `QueueInv`: the queue of a mutex lists the tasks
  that wait for it or hold it, each once, so a task that returns and drops its
  guard leaves no place behind and takes nobody else's. This is the part of
  `EveryCallReturns` that is a safety property: no waiter without somebody before
  it who can go on.
- **SecretsCache.** `TypeCorrect`, `ServedAliveHolds`, `OwnApiKeyHolds`,
  `NeverMuchOlderHolds`. None speaks of tokens that are still on the way, so none
  is inductive. `TokenInv` does: a call under way is at most `AnswerLag` old and
  began with the bucket's API key of then (`Young`); every token, cached or in
  hand, has the life IAM gives and was issued at most a call after its key left
  the bucket (`Genuine`).
- **UrlTracker.** `TrackerImplementsQuota`: by `TicketInv` the uses of
  a URL have different tickets, none above the count, and an admitted one has a
  ticket of at most `Max`; so fewer than `Max` others were admitted when `Get`
  admits one, which is `Admit`'s guard. `RejectedOverLimitHolds`, from `CountInv`:
  the count of a URL is the number of its uses so far. `SequentialUsesServedHolds`,
  from `SequenceInv`: while the uses of a URL do not overlap, at most one is under
  way, and all counted before it were let through as far as the limit allows.
- **SigningKeyCache.** `CacheTypeCorrect`, `ReturnedIsDerivedHolds`, `DaysBoundedHolds`.
  The last sends each day in the cache to a thread that inserted a key of it last,
  and `DayInv` makes that injective: keys of one thread are of one day, since a
  thread about to insert has swept what it inserted for another day.
- **RequestSigning.** `ForwardedVerifiesHolds`, `PeerIsAuthorityHolds` and
  `ReturnedIsDerivedForRequests`, from `SigningInv`: a request that waits for its key
  has its own date among its headers and has asked for the key of that date and
  of the bucket's secret (`ReadyToSign`), and gets it (`KeyInv`). `ForwardedNamesObjectHolds`,
  from `PathInv`: a request past the filter has a path that parses, and the upstream
  request is aimed at what it parses to; and from lemmas on sequences: where the
  rest of a path is new, `parse_path` splits it at its second slash
  (`ParseIsSplit`), and either style's target splits back into the same two
  (`TargetDesignates`). It holds for paths of any length over any characters.
- **RequestSigning, the check.** `VerifiedIsUntouchedHolds`, `GenuineVerifiesHolds`,
  `OneSignatureHolds`, from `CheckInv`: where a request came from is known at every
  place (`FromClient`: it is what its client made at some time, altered one way),
  what is being verified is checked with the key of the scope the client names and the
  secret of its access key (`AskedForItsKey`), and places behind the check, and places of those turned away,
  imply what the check says. The properties speak of `verified` and `rejected` only,
  so none is inductive. The check itself is two lemmas for
  each way to sign: `HeaderMatches` and `PresignedMatches` (equal
  signatures mean equal secret and equal covered parts), `HeaderGenuine` and
  `PresignedGenuine` (untouched means equal signatures), each up to the exceptions of
  section 4. They rest on lemmas about
  queries of any length: what joining, reversing and filtering them
  does to a parameter that occurs once (`CarriedValue`, `CarriedInReverse`,
  `PresignedPlaces`), and that a query whose parameters are all read back as they are
  is rebuilt as it was (`RereadIsSame`). `RequestsUseTheCache`: the composition implements `CacheSpec`;
  a request calls `signing_key` only when it has returned, with arguments the cache
  is modelled for (`RequestTypes`), so `DaysBoundedForRequests` is the cache's own
  theorem. `TypeCorrect` comes from the same.
- **ChunkStream.** `TypeCorrect`, `ChainIsIntact`, and `StreamImplementsRelay`, the
  refinement of `UploadRelay`, for uploads of any length and pieces of
  any size. `StreamInv` says that the bytes received split at the end of some frame:
  those before have been relayed, and `decode_buf` is what the upload has behind it
  (`Taken`); when the upload is closed, the next frame is not a chunk that got across. A piece keeps this
  because `FirstFrame` says what `parse_aws_chunk_header` sees of a frame
  whose first bytes are in the buffer, whatever the payload looks like, `OneTurn` what a turn
  of the loop makes of it, and `AllTurns` that the loop stops only where no whole
  frame is left. `ChainInv` adds that `prior_sig` is the signature of the last frame
  sent, or the seed of the attempt. `RelayedSoFar` then gives the state
  `UploadRelay` sees. `BytesOf` and `Turns` are recursive functions: that they have the
  values their definitions give, and what holds of them for every argument, is
  proved by `Climb`, which gets induction from the well-foundedness of the
  subsets of an interval.
- **ProxyRequest.** `TypeCorrect`, `CredentialsFoundHolds`,
  `CredentialsKeptHolds`, `NoPanicHolds`, `ForwardedIsAuthorizedHolds`. The
  invariant: a request about to write back holds credentials, and for one past the
  write-back there are some in the map (`ConfigInv`); a request about to read its
  key again finds one there (`KeyInv`), as no step removes keys; whatever is in
  the keystore was issued (`KeystoreIssued`); and every place behind a check
  implies that the check was passed (`AuthInv`), for requests without
  `Expect: 100-continue`. None of these properties is inductive alone,
  as each speaks of the end of a path.

Every safety property and every refinement the passing runs check is stated by a theorem. Only
model-checked: `EveryCallReturns`, since liveness under fairness and `ENABLED` are beyond the
provers; `NobodyStrandedHolds` is as much of it as can be proved. The findings are counterexamples.

## 6. What is not modelled

- Start-up and Python bindings, the parsing of Python dictionaries: run once, before
  any request, with no state to interleave with.
- Of SigV4: percent-encoding, trimming and case where they undo each other or
  apply to both sides alike; header values with doubled blanks, which AWS
  collapses and the code does not, or that are not ASCII, which it leaves out;
  the hash functions (injective here). `wrap_streaming_body`
  and its `ChunkSigner` are used by nothing in the proxy.
- `parse_query`, which only fills the dictionary a validator is given; duplicate
  headers; request targets in absolute form.
- Counters and histograms, `response_filter`, `list_buckets`: they add up, change
  headers or only answer.
- `get_all` (only reads), `hmac_keystore.rs` (unused).
- Dropped requests: nothing in `src/` cancels a filter (no `select!`, no timeout
  around an await), and what pingora does when a client goes away is not here.
- That the path is not part of the cache key although a validator may see the
  request: `README.md:315` lists it as not implemented yet.
- The growth of the map of key mutexes and of the tracker: nothing bounds them.

## 7. Plan

Done: the authorization cache, the tracker, the lifecycle, streaming uploads, the
token cache, the cache of signing keys, signatures and targets. Next, in order of
importance:

1. `ProxyRequest` composed with `SecretsCache` and `AuthCache`, in place of their
   verdicts, in the runs there are.
2. `BucketCredential::parse` and `parse_cos_map`: which credentials a bucket ends up
   with, and which of them the filters then use.
