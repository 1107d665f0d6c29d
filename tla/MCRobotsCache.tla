--------------------------- MODULE MCRobotsCache ---------------------------
(***************************************************************************)
(* Small instances of RobotsCache.                                         *)
(***************************************************************************)
EXTENDS RobotsCache, TLC

CONSTANTS c1, c2, c3, o1, o2, o3

Symmetry == Permutations(Clients) \cup Permutations(Origins)

=============================================================================
