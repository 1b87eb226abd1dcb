----------------------------- MODULE MCScanCursor -----------------------------
EXTENDS ScanCursor

\* The packing that the scans rely on, on this instance (TidPacking: on all).
ASSUME PackingHolds == TidsFaithful

\* The bounds the executor makes of the ctid of a row: inclusive as it is,
\* exclusive by ItemPointerInc or ItemPointerDec, and the open ends.
RowTids   == {rowid_to_tid(r) : r \in 1..MaxRowid}
LowerTids == RowTids \cup {[t EXCEPT !.off = @ + 1] : t \in RowTids} \cup {NoTid}
UpperTids == RowTids \cup {[t EXCEPT !.off = @ - 1] : t \in RowTids}
             \cup {[blk |-> Blocks - 1, off |-> Offsets - 1]}
=============================================================================
