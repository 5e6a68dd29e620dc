------------------------------- MODULE UrlTracker ------------------------------
(***************************************************************************)
(* The hit counter of presigned URLs (lib.rs:93-141) as request_filter     *)
(* uses it (lib.rs:493-552): track, then get, then compare with the limit. *)
(* track and get are two operations of a DashMap; each is atomic, and      *)
(* requests handled by other workers run between them.                     *)
(***************************************************************************)
EXTENDS Naturals, FiniteSets

CONSTANTS
    Requests,    \* every request made, each handled once
    Presigned,   \* those whose query has an X-Amz-Signature
    Urls,
    UrlOf,       \* UrlOf[r]: the URL of request r
    Max          \* max_presign_url_usage_attempts, 3 when not configured

ASSUME TrackerAssumption ==
    /\ Presigned \subseteq Requests
    /\ UrlOf \in [Requests -> Urls]
    /\ Max \in Nat

VARIABLES
    counts,      \* counts[u]: hits of u, 0 when it has no entry
    pc,          \* pc[r]: how far request r is
    ticket,      \* history: what counts was just after r's own track
    overlapped   \* history: URLs two of whose uses ran at the same time

vars == <<counts, pc, ticket, overlapped>>

\* The presigned requests of r's URL.
Rivals(r) == {q \in Presigned : UrlOf[q] = UrlOf[r]}

Init ==
    /\ counts = [u \in Urls |-> 0]
    /\ pc = [r \in Requests |-> "new"]
    /\ ticket = [r \in Requests |-> 0]
    /\ overlapped = {}

\* Fault: a URL seen for the first time starts at one.
Track_FromOne(r) ==
    /\ pc[r] = "new"
    /\ r \in Presigned
    /\ counts' = [counts EXCEPT ![UrlOf[r]] = IF @ = 0 THEN 2 ELSE @ + 1]
    /\ pc' = [pc EXCEPT ![r] = "tracked"]
    /\ ticket' = [ticket EXCEPT ![r] = counts[UrlOf[r]] + 1]
    /\ overlapped' = IF \E q \in Rivals(r) : pc[q] = "tracked"
                       THEN overlapped \cup {UrlOf[r]} ELSE overlapped

\* self.tracker.track(&url): entry(..).or_insert(0), then += 1 under the
\* shard's lock.
Track(r) ==
    /\ pc[r] = "new"
    /\ r \in Presigned
    /\ counts' = [counts EXCEPT ![UrlOf[r]] = @ + 1]
    /\ pc' = [pc EXCEPT ![r] = "tracked"]
    /\ ticket' = [ticket EXCEPT ![r] = counts[UrlOf[r]] + 1]
    /\ overlapped' = IF \E q \in Rivals(r) : pc[q] = "tracked"
                       THEN overlapped \cup {UrlOf[r]} ELSE overlapped

\* Fault: the limit is compared before this use is counted, off by one.
Get_OffByOne(r) ==
    /\ pc[r] = "tracked"
    /\ pc' = [pc EXCEPT ![r] = IF counts[UrlOf[r]] > Max + 1
                                 THEN "rejected" ELSE "admitted"]
    /\ UNCHANGED <<counts, ticket, overlapped>>

\* Fault: a use that reaches the limit is rejected too.
Get_AtLimit(r) ==
    /\ pc[r] = "tracked"
    /\ pc' = [pc EXCEPT ![r] = IF counts[UrlOf[r]] >= Max
                                 THEN "rejected" ELSE "admitted"]
    /\ UNCHANGED <<counts, ticket, overlapped>>

\* self.tracker.get(&url), and the comparison with the limit: 403 when over.
Get(r) ==
    /\ pc[r] = "tracked"
    /\ pc' = [pc EXCEPT ![r] = IF counts[UrlOf[r]] > Max
                                 THEN "rejected" ELSE "admitted"]
    /\ UNCHANGED <<counts, ticket, overlapped>>

\* A request that is not presigned is neither counted nor limited.
Pass(r) ==
    /\ pc[r] = "new"
    /\ r \notin Presigned
    /\ pc' = [pc EXCEPT ![r] = "admitted"]
    /\ UNCHANGED <<counts, ticket, overlapped>>

Next == \E r \in Requests : Track(r) \/ Get(r) \/ Pass(r)

Spec == Init /\ [][Next]_vars

--------------------------------------------------------------------------------
(* Properties                                                              *)

TypeOK ==
    /\ counts \in [Urls -> Nat]
    /\ pc \in [Requests -> {"new", "tracked", "admitted", "rejected"}]
    /\ ticket \in [Requests -> Nat]
    /\ overlapped \subseteq Urls

Admitted == {r \in Presigned : pc[r] = "admitted"}
Rejected == {r \in Presigned : pc[r] = "rejected"}

\* However uses of a URL interleave between track and get, no more than Max
\* are let through (README.md:165; lib.rs:507-510).
Quota == INSTANCE UsageQuota
           WITH Requests <- Presigned, admitted <- Admitted, rejected <- Rejected
ImplementsQuota == Quota!Spec

\* A use is turned away only after more than Max uses of its URL were counted,
\* whoever made them: a request that is not presigned uses nothing up.
RejectedOverLimit ==
    \A r \in Rejected :
        Cardinality({q \in Rivals(r) : pc[q] # "new"}) > Max

\* As long as no two uses of a URL overlap, none is turned away before the URL
\* has been let through Max times.
SequentialUsesServed ==
    \A r \in Rejected :
        UrlOf[r] \notin overlapped =>
            Cardinality({q \in Rivals(r) : pc[q] = "admitted"}) = Max
================================================================================
