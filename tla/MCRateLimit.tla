---------------------------- MODULE MCRateLimit ----------------------------
(* RateLimit with model values for requests and keys.                      *)
EXTENDS RateLimit, TLC
CONSTANTS r1, r2, k1, k2
Symmetry == Permutations(Requests) \cup Permutations(Keys)
=============================================================================
