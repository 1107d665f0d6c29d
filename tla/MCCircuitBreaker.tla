-------------------------- MODULE MCCircuitBreaker --------------------------
(***************************************************************************)
(* Small instances of CircuitBreaker.                                      *)
(***************************************************************************)
EXTENDS CircuitBreaker

CONSTANTS w1, w2, w3, p1, p2, p3, p4

=============================================================================
