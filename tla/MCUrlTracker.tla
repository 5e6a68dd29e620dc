------------------------------ MODULE MCUrlTracker -----------------------------
(* An instance of UrlTracker for TLC: five presigned requests of two URLs, *)
(* and one that is not presigned.                                          *)
EXTENDS UrlTracker

CONSTANTS r1, r2, r3, r4, r5, plain, u1, u2, u3

MCUrlOf == [r \in Requests |-> IF r = plain THEN u3 ELSE IF r = r5 THEN u2 ELSE u1]
================================================================================
