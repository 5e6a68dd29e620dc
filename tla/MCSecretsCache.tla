----------------------------- MODULE MCSecretsCache ----------------------------
(* An instance of SecretsCache for TLC.                                    *)
EXTENDS SecretsCache, TLC

\* Tasks and API keys are interchangeable.
SecretsSymmetry == Permutations(Tasks) \cup Permutations(ApiKeys)
================================================================================
