-------------------------- MODULE MCSnapshotKinds --------------------------
(* Model-checking instance of SnapshotKinds. *)
EXTENDS SnapshotKinds, TLC

CONSTANTS me, p1, p2

Symmetry == Permutations(Procs \ {Me})
=============================================================================
