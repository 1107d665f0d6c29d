----------------------------- MODULE MCThrottle -----------------------------
(***************************************************************************)
(* Small instances of Throttle.                                            *)
(***************************************************************************)
EXTENDS Throttle

CONSTANTS w1, w2, w3

=============================================================================
