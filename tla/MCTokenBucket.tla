---------------------------- MODULE MCTokenBucket ----------------------------
(* TokenBucket for TLC: three callers, one of them patient, a bucket of two   *)
(* tokens, a token every two ticks.                                           *)
EXTENDS TokenBucket

CONSTANTS c1, c2, c3

MCCallers == {c1, c2, c3}
MCPatient == {c1}
=============================================================================
