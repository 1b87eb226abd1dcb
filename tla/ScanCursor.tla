------------------------------ MODULE ScanCursor ------------------------------
(***************************************************************************)
(* One scan descriptor of src/src/tam.rs (SqliteScanState, SqliteCursor)   *)
(* under the executor's calls: sequential, TID range, TABLESAMPLE and      *)
(* bitmap scans, and ANALYZE's, started, stopped early, rescanned and      *)
(* ended while other backends write.                                       *)
(*                                                                         *)
(* The rows of the file are told apart only by what the scan's snapshot    *)
(* makes of them: HeapStore shows that the rows it sees stay as they are   *)
(* while it is held, and that the others come and go.  cursor.rows is in   *)
(* rowid order and so are a page's offsets, so both are sets here, and the *)
(* positions pos and bitmap_offset_pos are the last element examined.      *)
(***************************************************************************)
EXTENDS Tid, Sequences, FiniteSets, Functions

CONSTANTS
    MaxRowid,       \* bound: rowids of the file
    MaxPasses,      \* bound: times one descriptor is started or restarted
    MinTids,        \* TIDs the executor passes as lower ends of a TID range
    MaxTids,        \* ... and as upper ends
    Rescans,        \* kinds of scan that are rescanned
    EarlyRescans    \* kinds that may be rescanned before their end

Kinds == {"seq", "tidrange", "sample", "bitmap", "analyze"}

ASSUME ScanAssumption ==
    /\ MaxRowid \in Nat /\ 1..MaxRowid \subseteq Packable
    /\ MaxPasses \in Nat
    /\ MinTids \subseteq TID /\ MaxTids \subseteq TID
    /\ EarlyRescans \subseteq Rescans /\ Rescans \subseteq Kinds

VARIABLES
    seen,       \* rowids of the row versions the snapshot sees
    unseen,     \* rowids of the other row versions in the file
    kind,       \* the kind of the open scan, "none" if there is none
    passes,     \* passes started on this descriptor
    \* SqliteCursor
    rows, rows_loaded, pos, sample_block_consumed,
    bitmap_blockno, bitmap_offsets, bitmap_offset_pos,
    \* the rest of the descriptor
    mintid, maxtid,     \* rs_mintid, rs_maxtid
    tbm,                \* pages the TID bitmap iterator has left
    haveblock,          \* the executor is inside a block (TABLESAMPLE, ANALYZE)
    stream,             \* ANALYZE: blocks its read stream has left
    stamped,            \* ANALYZE: rowids of the versions with an xmax
    deadrows,           \* ANALYZE: rows counted as dead
    \* History of the pass: what it is to return, what it has, is it over.
    target, got, ended

file    == <<seen, unseen>>
loaded  == <<rows, rows_loaded>>
bitmap  == <<bitmap_blockno, bitmap_offsets, bitmap_offset_pos>>
range   == <<mintid, maxtid>>
analyze == <<stream, stamped, deadrows>>
vars    == <<file, kind, passes, loaded, pos, sample_block_consumed, bitmap,
             range, tbm, haveblock, analyze, target, got, ended>>

RowId  == 1..MaxRowid
InPage == 1..TIDS_PER_BLOCK
Block  == {rowid_to_tid(r).blk : r \in RowId}
NoTid  == [blk |-> 0, off |-> 0]

\* A page of a TID bitmap: the offsets of a block, or the whole block.
Page == [blk: Block, lossy: {FALSE}, offs: SUBSET InPage \ {{}}]
        \cup [blk: Block, lossy: {TRUE}, offs: {{}}]

\* The iterator yields a bitmap's pages in block order, one for a block.
Bitmap == {B \in SUBSET Page : \A p, q \in B : p.blk = q.blk => p = q}

TypeOK ==
    /\ seen \subseteq RowId /\ unseen \subseteq RowId \ seen
    /\ kind \in Kinds \cup {"none"} /\ passes \in 0..MaxPasses
    /\ rows \subseteq RowId /\ rows_loaded \in BOOLEAN /\ pos \in 0..MaxRowid
    /\ sample_block_consumed \in BOOLEAN
    /\ bitmap_blockno \in Block \cup {0} /\ bitmap_offsets \subseteq InPage
    /\ bitmap_offset_pos \in 0..TIDS_PER_BLOCK
    /\ mintid \in TID /\ maxtid \in TID
    /\ tbm \in Bitmap /\ haveblock \in BOOLEAN
    /\ stream \in Nat /\ stamped \subseteq RowId /\ deadrows \in 0..MaxRowid
    /\ target \subseteq RowId /\ got \in Seq(RowId) /\ ended \in BOOLEAN

Init ==
    /\ seen \in SUBSET RowId
    /\ unseen \in SUBSET (RowId \ seen)
    /\ kind = "none" /\ passes = 0
    /\ rows = {} /\ rows_loaded = FALSE /\ pos = 0
    /\ sample_block_consumed = FALSE
    /\ bitmap_blockno = 0 /\ bitmap_offsets = {} /\ bitmap_offset_pos = 0
    /\ mintid = NoTid /\ maxtid = NoTid /\ tbm = {} /\ haveblock = FALSE
    /\ stream = 0 /\ stamped = {} /\ deadrows = 0
    /\ target = {} /\ got = <<>> /\ ended = FALSE
-----------------------------------------------------------------------------
(* Other backends insert, and VACUUM removes, rows the snapshot does not see. *)

scan == <<kind, passes, loaded, pos, sample_block_consumed, bitmap, range, tbm,
          haveblock, analyze, target, got, ended>>

Appear(r) == /\ r \notin seen \cup unseen
             /\ unseen' = unseen \cup {r}
             /\ UNCHANGED <<seen, scan>>

Vanish(r) == /\ r \in unseen
             /\ unseen' = unseen \ {r}
             /\ UNCHANGED <<seen, scan>>
-----------------------------------------------------------------------------
(* Starting a pass. *)

\* Mutant: the size of the file, in blocks of the packing.
relation_size_in_blocks == 2

\* The blocks of the main fork that relation_size reports: the table is one.
relation_size == 1

\* What the executor hands a pass: a TID range its bounds, a bitmap scan its
\* bitmap, ANALYZE a stream of the relation's blocks; and the rows the pass
\* ought to return.
NewPass(k) ==
    /\ passes < MaxPasses /\ passes' = passes + 1
    /\ got' = <<>> /\ ended' = FALSE /\ haveblock' = FALSE
    /\ \/ /\ k \in {"seq", "sample"}
          /\ target' = seen
          /\ UNCHANGED <<range, tbm, analyze>>
       \/ /\ k = "tidrange"
          /\ mintid' \in MinTids /\ maxtid' \in MaxTids
          /\ target' = {r \in seen : /\ TidLE(mintid', rowid_to_tid(r))
                                     /\ TidLE(rowid_to_tid(r), maxtid')}
          /\ UNCHANGED <<tbm, analyze>>
       \/ /\ k = "bitmap"
          /\ tbm' \in Bitmap
          /\ target' = {r \in seen : \E p \in tbm' :
                            /\ p.blk = rowid_to_tid(r).blk
                            /\ p.lossy \/ rowid_to_tid(r).off \in p.offs}
          /\ UNCHANGED <<range, analyze>>
       \/ /\ k = "analyze"
          /\ stream' = relation_size /\ deadrows' = 0
          /\ stamped' \in SUBSET RowId
          /\ target' = seen \ stamped'
          /\ UNCHANGED <<range, tbm>>

NewCursor ==
    /\ rows' = {} /\ rows_loaded' = FALSE /\ pos' = 0
    /\ sample_block_consumed' = FALSE
    /\ bitmap_blockno' = 0 /\ bitmap_offsets' = {} /\ bitmap_offset_pos' = 0

\* scan_begin: alloc makes a new cursor.
scan_begin(k) ==
    /\ kind = "none" /\ kind' = k
    /\ NewPass(k)
    /\ NewCursor
    /\ UNCHANGED file

\* Mutant: the position is not reset.
scan_rescan_keeps_pos ==
    /\ kind \in Rescans /\ (ended \/ kind \in EarlyRescans)
    /\ NewPass(kind)
    /\ UNCHANGED <<file, kind, loaded, pos, sample_block_consumed, bitmap>>

\* scan_rescan resets pos and nothing else; the rows loaded stay.
scan_rescan ==
    /\ kind \in Rescans /\ (ended \/ kind \in EarlyRescans)
    /\ NewPass(kind)
    /\ pos' = 0
    /\ UNCHANGED <<file, kind, loaded, sample_block_consumed, bitmap>>

\* scan_end frees the descriptor and its cursor.
scan_end ==
    /\ kind # "none" /\ kind' = "none"
    /\ NewCursor
    /\ haveblock' = FALSE /\ stream' = 0 /\ stamped' = {} /\ deadrows' = 0
    /\ target' = {} /\ got' = <<>> /\ ended' = FALSE
    /\ UNCHANGED <<file, passes, range, tbm>>
-----------------------------------------------------------------------------
(* Walking the rows of the cursor. *)

RowsNow(now) == IF now /\ ~rows_loaded THEN seen \cup unseen ELSE rows

\* now: whether the caller gets to this call.
ensure_rows_loaded(now) ==
    /\ rows' = RowsNow(now)
    /\ rows_loaded' = (rows_loaded \/ now)

Least(S) == {m \in S : \A n \in S : m <= n}

\* The loop of the getnext callbacks: the first row past pos that passes the
\* callback's tests (the rows in R), or nothing.
Walk(R) ==
    LET hits == {r \in RowsNow(TRUE) \cap R : r > pos}
    IN  /\ ensure_rows_loaded(TRUE)
        /\ \/ \E r \in Least(hits) : pos' = r /\ got' = Append(got, r)
           \/ hits = {} /\ pos' = MaxRowid /\ got' = got
        /\ UNCHANGED <<file, kind, passes, bitmap, range, tbm, target>>

scan_getnextslot ==
    /\ kind = "seq" /\ ~ended
    /\ Walk(seen)
    /\ ended' = (got' = got)
    /\ UNCHANGED <<sample_block_consumed, haveblock, analyze>>

\* The test of scan_getnextslot_tidrange: the bounds decoded to rowids.
InRange == {r \in RowId : ~(r < tid_to_rowid(mintid)) /\ ~(r > tid_to_rowid(maxtid))}

scan_getnextslot_tidrange ==
    /\ kind = "tidrange" /\ ~ended
    /\ Walk(InRange \cap seen)
    /\ ended' = (got' = got)
    /\ UNCHANGED <<sample_block_consumed, haveblock, analyze>>

\* TABLESAMPLE: the executor asks for a block, then for its tuples, then for
\* the next block.
scan_sample_next_block ==
    /\ kind = "sample" /\ ~ended /\ ~haveblock
    /\ \/ /\ ~sample_block_consumed
          /\ sample_block_consumed' = TRUE /\ haveblock' = TRUE /\ pos' = 0
          /\ UNCHANGED ended
       \/ /\ sample_block_consumed
          /\ ended' = TRUE
          /\ UNCHANGED <<sample_block_consumed, haveblock, pos>>
    /\ UNCHANGED <<file, kind, passes, loaded, bitmap, range, tbm, analyze, target,
                   got>>

scan_sample_next_tuple ==
    /\ kind = "sample" /\ ~ended /\ haveblock
    /\ Walk(seen)
    /\ haveblock' = (got' # got)
    /\ UNCHANGED <<sample_block_consumed, analyze, ended>>

\* ANALYZE: as many blocks as the read stream yields, each of them all rows.
scan_analyze_next_block ==
    /\ kind = "analyze" /\ ~ended /\ ~haveblock
    /\ \/ /\ stream > 0
          /\ stream' = stream - 1 /\ haveblock' = TRUE /\ pos' = 0
          /\ UNCHANGED ended
       \/ /\ stream = 0
          /\ ended' = TRUE
          /\ UNCHANGED <<stream, haveblock, pos>>
    /\ UNCHANGED <<file, kind, passes, loaded, sample_block_consumed, bitmap, range,
                   tbm, stamped, deadrows, target, got>>

\* It takes the rows with no xmax, whoever wrote them, and counts the others.
scan_analyze_next_tuple ==
    /\ kind = "analyze" /\ ~ended /\ haveblock
    /\ Walk(RowId \ stamped)
    /\ deadrows' = deadrows
                   + Cardinality({r \in rows' \cap stamped : pos < r /\ r <= pos'})
    /\ haveblock' = (got' # got)
    /\ UNCHANGED <<sample_block_consumed, stream, stamped, ended>>
-----------------------------------------------------------------------------
(* Bitmap scans. *)

\* fetch_one_into_slot: the offsets of a block whose row is there and visible.
Fetched(blk, offs) ==
    {o \in offs : tid_to_rowid([blk |-> blk, off |-> o]) \in seen}

\* Mutant: the offsets of a lossy page are counted from 0.
PageOffsetsZeroBased(p) ==
    IF p.lossy
    THEN {rowid_to_tid(r).off - 1 : r \in {q \in RowsNow(TRUE) : rowid_to_tid(q).blk = p.blk}}
    ELSE p.offs

\* A lossy page stands for the loaded rows of its block.
PageOffsets(p) ==
    IF p.lossy
    THEN {rowid_to_tid(r).off : r \in {q \in RowsNow(TRUE) : rowid_to_tid(q).blk = p.blk}}
    ELSE p.offs

\* Mutant: the offset returned last is not passed over.
UndrainedAgain == {o \in bitmap_offsets : o >= bitmap_offset_pos}

\* The offsets of the current page not yet drained.
Undrained == {o \in bitmap_offsets : o > bitmap_offset_pos}

\* scan_bitmap_next_tuple: the current page first; when nothing of it is left,
\* the next pages of the iterator until one has a visible row; or the end.
scan_bitmap_next_tuple ==
    /\ kind = "bitmap" /\ ~ended
    /\ \/ \E o \in Least(Fetched(bitmap_blockno, Undrained)) :
            /\ bitmap_offset_pos' = o
            /\ got' = Append(got, tid_to_rowid([blk |-> bitmap_blockno, off |-> o]))
            /\ UNCHANGED <<loaded, tbm, bitmap_blockno, bitmap_offsets, ended>>
       \/ \E p \in tbm : \E o \in Least(Fetched(p.blk, PageOffsets(p))) :
            /\ Fetched(bitmap_blockno, Undrained) = {}
            /\ \A q \in tbm : q.blk < p.blk => Fetched(q.blk, PageOffsets(q)) = {}
            /\ tbm' = {q \in tbm : q.blk > p.blk}
            /\ ensure_rows_loaded(\E q \in tbm : q.blk <= p.blk /\ q.lossy)
            /\ bitmap_blockno' = p.blk /\ bitmap_offsets' = PageOffsets(p)
            /\ bitmap_offset_pos' = o
            /\ got' = Append(got, tid_to_rowid([blk |-> p.blk, off |-> o]))
            /\ UNCHANGED ended
       \/ /\ Fetched(bitmap_blockno, Undrained) = {}
          /\ \A q \in tbm : Fetched(q.blk, PageOffsets(q)) = {}
          /\ tbm' = {} /\ ended' = TRUE
          /\ ensure_rows_loaded(\E q \in tbm : q.lossy)
          /\ bitmap_offset_pos' = TIDS_PER_BLOCK    \* every page is drained
          /\ UNCHANGED <<bitmap_blockno, bitmap_offsets, got>>
    /\ UNCHANGED <<file, kind, passes, pos, sample_block_consumed, haveblock,
                   range, analyze, target>>

Next ==
    \/ \E r \in RowId : Appear(r) \/ Vanish(r)
    \/ \E k \in Kinds : scan_begin(k)
    \/ scan_rescan \/ scan_end
    \/ scan_getnextslot \/ scan_getnextslot_tidrange
    \/ scan_sample_next_block \/ scan_sample_next_tuple
    \/ scan_analyze_next_block \/ scan_analyze_next_tuple
    \/ scan_bitmap_next_tuple

Spec == Init /\ [][Next]_vars
-----------------------------------------------------------------------------
(* Properties. *)

\* When a scan says it is at its end it has returned every row it ought to:
\* none was skipped, although rows are loaded once, some time after the scan
\* began, kept across rescans, and read again one by one on the bitmap path
\* while others insert and VACUUM.
EndsComplete == ended => target \subseteq Range(got)

\* A scan returns only rows it ought to, in rowid order, each of them once: in
\* particular nothing is left over from the pass before a rescan, and ANALYZE
\* does not sample the table again for a second block.
ReturnsInOrder ==
    /\ Range(got) \subseteq IF kind = "analyze" THEN rows \ stamped ELSE target
    /\ \A i, j \in DOMAIN got : i < j => got[i] < got[j]

\* ANALYZE counts each row version it has loaded once, as live or as dead: the
\* one block that relation_size reports is the one scan_analyze_next_block
\* yields, so that its extrapolation by blocks is right.
AnalyzeCountsOnce ==
    kind = "analyze" /\ ended => Len(got) + deadrows = Cardinality(rows)
=============================================================================
