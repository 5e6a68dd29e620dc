------------------------------ MODULE MCAuthCache ------------------------------
(* Instances of AuthCache for TLC.                                         *)
EXTENDS AuthCache

CONSTANT UniformTtl

\* Every key has the ttl the run chooses.
MCTtl == [k \in Keys |-> UniformTtl]
================================================================================
