-------------------------- MODULE MCSchemaInstall --------------------------
(* Model-checking instance of SchemaInstall. *)
EXTENDS SchemaInstall

CONSTANTS b1, b2
=============================================================================
