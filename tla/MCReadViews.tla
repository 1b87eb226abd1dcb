---------------------------- MODULE MCReadViews ----------------------------
(* Model-checking instance of ReadViews. *)
EXTENDS ReadViews

CONSTANTS b1, b2, r1, r2
=============================================================================
