---------------------------- MODULE UrlTrackerProofs ---------------------------
(***************************************************************************)
(* Proof that the tracker keeps its promise, for any finite number of      *)
(* requests, URLs and any limit.                                           *)
(***************************************************************************)
EXTENDS UrlTracker, FiniteSetTheorems, TLAPS

USE TrackerAssumption

\* Tickets of one URL are handed out once each, up to the URL's count, and
\* only a request with a ticket within the limit has been admitted.
TicketInv ==
    /\ \A r \in Requests : pc[r] = "tracked" => r \in Presigned
    /\ \A r \in Presigned : pc[r] # "new" => ticket[r] \in 1..counts[UrlOf[r]]
    /\ \A q, r \in Presigned :
         /\ UrlOf[q] = UrlOf[r] /\ ticket[q] = ticket[r]
         /\ pc[q] # "new" /\ pc[r] # "new"
         => q = r
    /\ \A r \in Presigned : pc[r] = "admitted" => ticket[r] <= Max

LEMMA TrackerInit == Init => TypeOK /\ TicketInv
  BY DEF Init, TypeOK, TicketInv

LEMMA TrackerStep == TypeOK /\ TicketInv /\ [Next]_vars => TypeOK' /\ TicketInv'
  <1> SUFFICES ASSUME TypeOK, TicketInv, [Next]_vars PROVE TypeOK' /\ TicketInv'
    OBVIOUS
  <1> USE DEF TypeOK, TicketInv
  <1>1. ASSUME NEW r \in Requests, Track(r) PROVE TypeOK' /\ TicketInv'
    <2>1. TypeOK' BY <1>1 DEF Track
    <2>2. TicketInv' BY <1>1 DEF Track
    <2> QED BY <2>1, <2>2
  <1>2. ASSUME NEW r \in Requests, Get(r) PROVE TypeOK' /\ TicketInv'
    BY <1>2 DEF Get
  <1>3. ASSUME NEW r \in Requests, Pass(r) PROVE TypeOK' /\ TicketInv'
    BY <1>3 DEF Pass
  <1>4. CASE UNCHANGED vars
    BY <1>4 DEF vars
  <1> QED BY <1>1, <1>2, <1>3, <1>4 DEF Next

\* At most Max requests of a URL hold the tickets 1..Max.
LEMMA TicketsBound ==
  ASSUME TypeOK, TicketInv, NEW u \in Urls, NEW S \in SUBSET Presigned,
         \A q \in S : UrlOf[q] = u /\ pc[q] # "new" /\ ticket[q] <= Max
  PROVE  IsFiniteSet(S) /\ Cardinality(S) <= Max
  <1> DEFINE f == [q \in S |-> ticket[q]]
  <1>1. f \in [S -> 1..Max]
    <2> SUFFICES ASSUME NEW q \in S PROVE ticket[q] \in 1..Max
      OBVIOUS
    <2>1. ticket[q] \in 1..counts[UrlOf[q]] /\ ticket[q] <= Max
      BY DEF TicketInv
    <2> QED BY <2>1 DEF TypeOK
  <1>2. \A p, q \in S : f[p] = f[q] => p = q
    BY DEF TicketInv
  <1>3. f \in Injection(S, 1..Max)
    BY <1>1, <1>2 DEF Injection, IsInjective
  <1>4. IsFiniteSet(1..Max) /\ Cardinality(1..Max) = Max
    BY FS_Interval
  <1> QED BY <1>3, <1>4, FS_Injection

\* A decision is a step of the quota; every other step is invisible to it.
LEMMA QuotaStep ==
  TypeOK /\ TicketInv /\ [Next]_vars => [Quota!Next]_<<Admitted, Rejected>>
  <1> SUFFICES ASSUME TypeOK, TicketInv, [Next]_vars
               PROVE  Quota!Next \/ UNCHANGED <<Admitted, Rejected>>
    OBVIOUS
  <1>1. ASSUME NEW r \in Requests, Track(r)
        PROVE  UNCHANGED <<Admitted, Rejected>>
    BY <1>1 DEF Track, Admitted, Rejected, TypeOK
  <1>2. ASSUME NEW r \in Requests, Pass(r)
        PROVE  UNCHANGED <<Admitted, Rejected>>
    BY <1>2 DEF Pass, Admitted, Rejected, TypeOK
  <1>3. ASSUME NEW r \in Requests, Get(r)
        PROVE  Quota!Next
    <2>1. r \in Presigned /\ pc[r] = "tracked" /\ UrlOf[r] \in Urls
      BY <1>3 DEF Get, TicketInv
    <2>2. r \notin Admitted \cup Rejected
      BY <2>1 DEF Admitted, Rejected
    <2>3. CASE counts[UrlOf[r]] > Max
      <3>1. Rejected' = Rejected \cup {r} /\ UNCHANGED Admitted
        BY <1>3, <2>1, <2>3 DEF Get, Admitted, Rejected, TypeOK
      <3> QED BY <2>1, <2>2, <3>1 DEF Quota!Next, Quota!Reject
    <2>4. CASE ~(counts[UrlOf[r]] > Max)
      <3>1. Admitted' = Admitted \cup {r} /\ UNCHANGED Rejected
        BY <1>3, <2>1, <2>4 DEF Get, Admitted, Rejected, TypeOK
      <3>2. ticket[r] <= Max
        <4>1. ticket[r] \in 1..counts[UrlOf[r]] BY <2>1 DEF TicketInv
        <4>2. counts[UrlOf[r]] \in Nat /\ counts[UrlOf[r]] <= Max
          BY <2>1, <2>4 DEF TypeOK
        <4> QED BY <4>1, <4>2
      <3> DEFINE S == Quota!Users(Admitted, r)
      <3>3. /\ S \in SUBSET Presigned /\ r \notin S
            /\ \A q \in S \cup {r} :
                 UrlOf[q] = UrlOf[r] /\ pc[q] # "new" /\ ticket[q] <= Max
        BY <2>1, <2>2, <3>2 DEF Quota!Users, Admitted, TicketInv
      <3>4. IsFiniteSet(S) /\ Cardinality(S \cup {r}) <= Max
        <4>1. S \cup {r} \in SUBSET Presigned BY <2>1, <3>3
        <4>2. IsFiniteSet(S \cup {r}) /\ Cardinality(S \cup {r}) <= Max
          BY <2>1, <3>3, <4>1, TicketsBound
        <4>3. S \in SUBSET (S \cup {r}) OBVIOUS
        <4> QED BY <4>2, <4>3, FS_Subset
      <3>5. Cardinality(S \cup {r}) = Cardinality(S) + 1 /\ Cardinality(S) \in Nat
        BY <3>3, <3>4, FS_AddElement, FS_CardinalityType
      <3>6. Cardinality(S) < Max
        BY <3>4, <3>5
      <3>7. Quota!Admit(r)
        BY <2>2, <3>1, <3>6 DEF Quota!Admit, Quota!Cardinality, Cardinality
      <3> QED BY <2>1, <3>7 DEF Quota!Next
    <2> QED BY <2>3, <2>4
  <1>4. CASE UNCHANGED vars
    BY <1>4 DEF vars, Admitted, Rejected
  <1> QED BY <1>1, <1>2, <1>3, <1>4 DEF Next

\* For any number of concurrent requests and any limit, track-then-get lets a
\* presigned URL through at most Max times: the tracker implements the quota
\* (lib.rs:93-141, 500-552).
THEOREM TrackerImplementsQuota == Spec => ImplementsQuota
  <1>1. Init => Quota!Init
    BY DEF Init, Quota!Init, Admitted, Rejected
  <1> QED BY <1>1, TrackerInit, TrackerStep, QuotaStep, PTL
          DEF Spec, ImplementsQuota, Quota!Spec

--------------------------------------------------------------------------------
(* What a rejection means                                                  *)

\* The uses of u that were counted, let through, and are between track and get.
Used(u) == {q \in Presigned : UrlOf[q] = u /\ pc[q] # "new"}
Served(u) == {q \in Presigned : UrlOf[q] = u /\ pc[q] = "admitted"}
InUse(u) == {q \in Presigned : UrlOf[q] = u /\ pc[q] = "tracked"}

\* The count is the number of uses, and a rejection came when it was over Max.
CountInv ==
    /\ \A u \in Urls : IsFiniteSet(Used(u)) /\ Cardinality(Used(u)) = counts[u]
    /\ \A r \in Rejected : counts[UrlOf[r]] > Max

LEMMA CountInit == Init => CountInv
  BY FS_EmptySet DEF Init, CountInv, Used, Rejected

LEMMA CountStep == TypeOK /\ TicketInv /\ CountInv /\ [Next]_vars => CountInv'
  <1> SUFFICES ASSUME TypeOK, TicketInv, CountInv, [Next]_vars PROVE CountInv'
    OBVIOUS
  <1> USE DEF TypeOK, CountInv
  <1>1. ASSUME NEW r \in Requests, Track(r) PROVE CountInv'
    <2> DEFINE v == UrlOf[r]
    <2>1. r \notin Used(v) /\ v \in Urls
      BY <1>1 DEF Track, Used
    <2>2. Used(v)' = Used(v) \cup {r} /\ \A u \in Urls \ {v} : Used(u)' = Used(u)
      BY <1>1 DEF Track, Used
    <2>3. IsFiniteSet(Used(v)') /\ Cardinality(Used(v)') = counts[v] + 1
      BY <2>1, <2>2, FS_AddElement
    <2>4. \A u \in Urls : IsFiniteSet(Used(u)') /\ Cardinality(Used(u)') = counts'[u]
      BY <1>1, <2>1, <2>2, <2>3 DEF Track
    <2>5. Rejected' = Rejected
      BY <1>1 DEF Track, Rejected
    <2>6. \A q \in Rejected : UrlOf[q] \in Urls /\ counts[UrlOf[q]] > Max
      BY DEF Rejected
    <2>7. \A u \in Urls : counts[u] > Max => counts'[u] > Max
      BY <1>1 DEF Track
    <2> QED BY <2>4, <2>5, <2>6, <2>7
  <1>2. ASSUME NEW r \in Requests, Get(r) \/ Pass(r) PROVE CountInv'
    <2>1. \A u \in Urls : Used(u)' = Used(u)
      BY <1>2 DEF Get, Pass, Used
    <2>2. \A q \in Rejected' : q \in Rejected \/ (q = r /\ Get(r) /\ counts[UrlOf[r]] > Max)
      BY <1>2 DEF Get, Pass, Rejected
    <2>3. counts' = counts
      BY <1>2 DEF Get, Pass
    <2> QED BY <2>1, <2>2, <2>3
  <1>3. CASE UNCHANGED vars
    BY <1>3 DEF vars, Used, Rejected
  <1> QED BY <1>1, <1>2, <1>3 DEF Next

\* A use is turned away only after more than Max uses of its URL were counted
\* (lib.rs:508-511).
THEOREM RejectedOverLimitHolds == Spec => []RejectedOverLimit
  <1>1. ASSUME TypeOK, CountInv, NEW r \in Rejected
        PROVE  Cardinality({q \in Rivals(r) : pc[q] # "new"}) > Max
    <2>1. {q \in Rivals(r) : pc[q] # "new"} = Used(UrlOf[r])
      BY DEF Rivals, Used
    <2>2. UrlOf[r] \in Urls
      BY DEF Rejected
    <2> QED BY <1>1, <2>1, <2>2 DEF CountInv
  <1>2. TypeOK /\ CountInv => RejectedOverLimit
    BY <1>1 DEF RejectedOverLimit
  <1> QED BY <1>2, TrackerInit, TrackerStep, CountInit, CountStep, PTL DEF Spec

--------------------------------------------------------------------------------
(* Uses that do not overlap                                                *)

\* How many of n uses, one after the other, are let through.
Quotient(n) == IF n <= Max THEN n ELSE Max

\* While uses of u have not overlapped, all that were counted before the one
\* under way, if there is one, were decided in the order they were counted.
InTurn(u) ==
    /\ \A q, r \in InUse(u) : q = r
    /\ Cardinality(Served(u)) =
         IF InUse(u) = {} THEN Quotient(counts[u]) ELSE Quotient(counts[u] - 1)
    /\ \A r \in Rejected : UrlOf[r] = u => Cardinality(Served(u)) = Max

SequenceInv == \A u \in Urls : u \notin overlapped => InTurn(u)

LEMMA SequenceInit == Init => SequenceInv
  <1> SUFFICES ASSUME Init, NEW u \in Urls PROVE InTurn(u)
    BY DEF SequenceInv
  <1>1. InUse(u) = {} /\ Served(u) = {} /\ Rejected = {} /\ counts[u] = 0
    BY DEF Init, InUse, Served, Rejected
  <1> QED BY <1>1, FS_EmptySet DEF InTurn, Quotient

LEMMA SequenceStep ==
  TypeOK /\ TicketInv /\ CountInv /\ SequenceInv /\ [Next]_vars => SequenceInv'
  <1> SUFFICES ASSUME TypeOK, TicketInv, CountInv, SequenceInv, [Next]_vars,
                      NEW u \in Urls, u \notin overlapped'
               PROVE  InTurn(u)'
    BY DEF SequenceInv
  <1>0. u \notin overlapped /\ InTurn(u)
    BY DEF Next, Track, Get, Pass, vars, SequenceInv
  <1>1. ASSUME NEW r \in Requests, Track(r) PROVE InTurn(u)'
    <2>1. Served(u)' = Served(u) /\ Rejected' = Rejected
      BY <1>1 DEF Track, TypeOK, Served, Rejected
    <2>2. CASE UrlOf[r] = u
      <3>1. InUse(u) = {}
        BY <1>1, <2>2 DEF Track, InUse, Rivals
      <3>2. InUse(u)' = {r} /\ counts'[u] = counts[u] + 1
        BY <1>1, <2>2, <3>1 DEF Track, TypeOK, InUse
      <3>3. counts'[u] - 1 = counts[u]
        BY <3>2 DEF TypeOK
      <3> QED BY <1>0, <2>1, <3>1, <3>2, <3>3 DEF InTurn
    <2>3. CASE UrlOf[r] # u
      <3>1. InUse(u)' = InUse(u) /\ counts'[u] = counts[u]
        BY <1>1, <2>3 DEF Track, TypeOK, InUse
      <3> QED BY <1>0, <2>1, <3>1 DEF InTurn, Quotient
    <2> QED BY <2>2, <2>3
  <1>2. ASSUME NEW r \in Requests, Get(r) PROVE InTurn(u)'
    <2>1. r \in Presigned /\ pc[r] = "tracked" /\ counts' = counts
      BY <1>2 DEF Get, TicketInv
    <2>2. CASE UrlOf[r] = u
      <3>1. InUse(u) = {r}
        BY <1>0, <2>1, <2>2 DEF InTurn, InUse
      <3>2. InUse(u)' = {}
        BY <1>2, <3>1 DEF Get, TypeOK, InUse
      <3>3. Cardinality(Served(u)) = Quotient(counts[u] - 1)
        BY <1>0, <3>1 DEF InTurn
      <3>4. counts[u] \in Nat /\ counts[u] >= 1
        BY <2>1, <2>2 DEF TicketInv, TypeOK
      <3>5. CASE counts[u] > Max
        <4>1. Served(u)' = Served(u)
          BY <1>2, <2>2, <3>5 DEF Get, TypeOK, Served
        <4>2. Cardinality(Served(u)) = Max /\ Quotient(counts[u]) = Max
          BY <3>3, <3>4, <3>5 DEF Quotient
        <4> QED BY <2>1, <3>2, <4>1, <4>2 DEF InTurn, Quotient
      <3>6. CASE ~(counts[u] > Max)
        <4>1. Served(u)' = Served(u) \cup {r} /\ r \notin Served(u)
          BY <1>2, <2>1, <2>2, <3>6 DEF Get, TypeOK, Served
        <4>2. IsFiniteSet(Served(u))
          <5>1. Served(u) \subseteq Used(u) BY DEF Served, Used
          <5> QED BY <5>1, FS_Subset DEF CountInv
        <4>3. Cardinality(Served(u)') = Cardinality(Served(u)) + 1
          BY <4>1, <4>2, FS_AddElement
        <4>4. Cardinality(Served(u)') = Quotient(counts[u])
          BY <3>3, <3>4, <3>6, <4>3 DEF Quotient
        <4>5. \A q \in Rejected' : UrlOf[q] # u
          <5>1. Rejected' = Rejected
            BY <1>2, <2>2, <3>6 DEF Get, TypeOK, Rejected
          <5> QED BY <3>6, <5>1 DEF CountInv
        <4> QED BY <2>1, <3>2, <4>4, <4>5 DEF InTurn, Quotient
      <3> QED BY <3>5, <3>6
    <2>3. CASE UrlOf[r] # u
      <3>1. InUse(u)' = InUse(u) /\ Served(u)' = Served(u)
        BY <1>2, <2>3 DEF Get, TypeOK, InUse, Served
      <3>2. \A q \in Rejected' : UrlOf[q] = u => q \in Rejected
        BY <1>2, <2>3 DEF Get, TypeOK, Rejected
      <3> QED BY <1>0, <2>1, <3>1, <3>2 DEF InTurn, Quotient
    <2> QED BY <2>2, <2>3
  <1>3. ASSUME NEW r \in Requests, Pass(r) PROVE InTurn(u)'
    <2>1. /\ InUse(u)' = InUse(u) /\ Served(u)' = Served(u)
          /\ Rejected' = Rejected /\ counts' = counts
      BY <1>3 DEF Pass, TypeOK, InUse, Served, Rejected
    <2> QED BY <1>0, <2>1 DEF InTurn, Quotient
  <1>4. CASE UNCHANGED vars
    <2>1. /\ InUse(u)' = InUse(u) /\ Served(u)' = Served(u)
          /\ Rejected' = Rejected /\ counts' = counts
      BY <1>4 DEF vars, InUse, Served, Rejected
    <2> QED BY <1>0, <2>1 DEF InTurn, Quotient
  <1> QED BY <1>1, <1>2, <1>3, <1>4 DEF Next

\* As long as no two uses of a URL overlap, none is turned away before Max of
\* them were let through (lib.rs:123-132, 508-511).
THEOREM SequentialUsesServedHolds == Spec => []SequentialUsesServed
  <1>1. ASSUME SequenceInv, NEW r \in Rejected, UrlOf[r] \notin overlapped
        PROVE  Cardinality({q \in Rivals(r) : pc[q] = "admitted"}) = Max
    <2>1. {q \in Rivals(r) : pc[q] = "admitted"} = Served(UrlOf[r])
      BY DEF Rivals, Served
    <2>2. UrlOf[r] \in Urls
      BY DEF Rejected
    <2> QED BY <1>1, <2>1, <2>2 DEF SequenceInv, InTurn
  <1>2. SequenceInv => SequentialUsesServed
    BY <1>1 DEF SequentialUsesServed
  <1> QED BY <1>2, TrackerInit, TrackerStep, CountInit, CountStep,
             SequenceInit, SequenceStep, PTL DEF Spec
================================================================================
