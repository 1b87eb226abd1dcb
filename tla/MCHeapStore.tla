---------------------------- MODULE MCHeapStore ----------------------------
(* Model-checking instance of HeapStore. *)
EXTENDS HeapStore, TLC

Symmetry == Permutations(Backends)
=============================================================================
