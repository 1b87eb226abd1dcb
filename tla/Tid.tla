--------------------------------- MODULE Tid ---------------------------------
(***************************************************************************)
(* src/src/ffi.rs: SQLite rowids packed into Postgres TIDs.                *)
(*                                                                         *)
(* A TID is a block number and an offset.  The code uses 256 offsets of    *)
(* every block (TIDS_PER_BLOCK), 2^32 block numbers (u32) and keeps the    *)
(* offset in a u16; all three are parameters.                              *)
(***************************************************************************)
EXTENDS Integers

CONSTANTS
    TIDS_PER_BLOCK,
    Blocks,         \* block numbers: the cast `as BlockNumber` is modulo this
    Offsets         \* offset numbers: the cast `as OffsetNumber` is modulo this

ASSUME TidAssumption ==
    /\ TIDS_PER_BLOCK \in Nat \ {0} /\ Blocks \in Nat \ {0} /\ Offsets \in Nat
    /\ TIDS_PER_BLOCK < Offsets

TID == [blk: 0..(Blocks - 1), off: 0..(Offsets - 1)]

tid_to_rowid(tid) == tid.blk * TIDS_PER_BLOCK + tid.off

rowid_to_tid(rowid) ==
    [blk |-> ((rowid - 1) \div TIDS_PER_BLOCK) % Blocks,
     off |-> (((rowid - 1) % TIDS_PER_BLOCK) + 1) % Offsets]

\* The rowids that have a TID of their own.
Packable == 1..(TIDS_PER_BLOCK * Blocks)

\* ItemPointerCompare.
TidLE(s, t) == s.blk < t.blk \/ (s.blk = t.blk /\ s.off <= t.off)

\* The packing loses nothing and keeps the order: a rowid decodes to itself, its
\* offset is one Postgres accepts (from 1, at most TIDS_PER_BLOCK), and TIDs
\* compare as their rowids do, across block boundaries too.
TidsFaithful ==
    \A r \in Packable :
        /\ tid_to_rowid(rowid_to_tid(r)) = r
        /\ rowid_to_tid(r).off \in 1..TIDS_PER_BLOCK
        /\ \A s \in Packable : r <= s <=> TidLE(rowid_to_tid(r), rowid_to_tid(s))
=============================================================================
