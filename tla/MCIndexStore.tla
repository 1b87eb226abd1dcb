---------------------------- MODULE MCIndexStore ----------------------------
(* Model-checking instance of IndexStore. *)
EXTENDS IndexStore, TLC

CONSTANTS b1, b2

Symmetry == Permutations(Backends)
=============================================================================
