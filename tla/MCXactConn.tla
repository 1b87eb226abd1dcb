------------------------------ MODULE MCXactConn ------------------------------
EXTENDS XactConn, TLC

CONSTANTS r1, r2

Symmetry == Permutations(Rels)
=============================================================================
