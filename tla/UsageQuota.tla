------------------------------- MODULE UsageQuota ------------------------------
(***************************************************************************)
(* What the usage limit of presigned URLs promises (README.md:165): of the *)
(* requests that use a URL, at most Max are ever let through.  A request   *)
(* is decided once, and for good.                                          *)
(***************************************************************************)
EXTENDS Naturals, FiniteSets

CONSTANTS
    Requests,  \* the presigned requests
    UrlOf,     \* UrlOf[r]: the URL of request r
    Max        \* how often a URL may be used

VARIABLES admitted, rejected

Users(S, r) == {q \in S : UrlOf[q] = UrlOf[r]}

Init == admitted = {} /\ rejected = {}

Admit(r) ==
    /\ r \notin admitted \cup rejected
    /\ Cardinality(Users(admitted, r)) < Max
    /\ admitted' = admitted \cup {r}
    /\ UNCHANGED rejected

Reject(r) ==
    /\ r \notin admitted \cup rejected
    /\ rejected' = rejected \cup {r}
    /\ UNCHANGED admitted

Next == \E r \in Requests : Admit(r) \/ Reject(r)

Spec == Init /\ [][Next]_<<admitted, rejected>>
================================================================================
