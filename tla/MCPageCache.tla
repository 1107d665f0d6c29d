----------------------------- MODULE MCPageCache -----------------------------
(***************************************************************************)
(* Constants of the runs of PageCache.                                     *)
(***************************************************************************)
EXTENDS PageCache

CONSTANTS c1, c2, u1, u2

Pair == {c1, c2}
TwoUrls == {u1, u2}

\* The callers are alike, and so are the URLs.
CacheSymmetry == Permutations(Pair) \cup Permutations(TwoUrls)
=============================================================================
