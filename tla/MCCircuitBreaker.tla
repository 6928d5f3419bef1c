-------------------------- MODULE MCCircuitBreaker ---------------------------
(***************************************************************************)
(* Instances of CircuitBreaker for TLC.                                    *)
(***************************************************************************)
EXTENDS CircuitBreaker

CONSTANTS s1, s2, s3, a1
==============================================================================
