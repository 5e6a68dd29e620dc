------------------------------ MODULE UploadRelay ------------------------------
(***************************************************************************)
(* What a streaming upload through the proxy promises (DEVELOP.md:501):    *)
(* the backend gets the client's chunks, in order, none twice, and the     *)
(* upload is closed only after the last of them.  A retry starts over.     *)
(***************************************************************************)
EXTENDS Naturals, Sequences

VARIABLES
    source,    \* the chunks the client sends
    relayed,   \* the chunks the backend has got
    closed     \* the backend has got the end of the upload

Init == relayed = <<>> /\ closed = FALSE

Relay ==
    /\ ~closed
    /\ \E k \in Len(relayed)..Len(source) : relayed' = SubSeq(source, 1, k)
    /\ closed' \in BOOLEAN
    /\ closed' => relayed' = source
    /\ UNCHANGED source

Restart == relayed' = <<>> /\ closed' = FALSE /\ UNCHANGED source

Next == Relay \/ Restart

Spec == Init /\ [][Next]_<<source, relayed, closed>>
================================================================================
