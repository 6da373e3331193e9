---------------------------- MODULE MCMemoryIndex ----------------------------
(* MemoryIndex with model values for its blobs and requests.               *)
EXTENDS MemoryIndex, TLC
CONSTANTS b1, b2, r1, r2, q1

(* Two restores may be exchanged; the blobs are written in different ways. *)
RestoreSymmetry == Permutations(Restores)
=============================================================================
