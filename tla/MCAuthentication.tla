-------------------------- MODULE MCAuthentication --------------------------
EXTENDS Authentication, TLC

CONSTANTS r1, r2, a1, a2, m1

(* The client signs one tick ahead of the relayer's clock.                 *)
MCStamp == [m \in Messages |-> 1]

Symmetry == Permutations(Requests)
=============================================================================
