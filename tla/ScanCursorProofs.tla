--------------------------- MODULE ScanCursorProofs ---------------------------
(***************************************************************************)
(* Proofs about the TID packing and about ScanCursor, for any number of    *)
(* rows, offsets per block and passes.                                     *)
(***************************************************************************)
EXTENDS ScanCursor, FiniteSetTheorems, TLAPS

-----------------------------------------------------------------------------
(* The TID packing, for every number of offsets per block and of blocks. *)

\* Division with remainder, for the number of offsets of a block.
LEMMA Division ==
    ASSUME NEW x \in Nat, NEW k \in Nat \ {0}
    PROVE  /\ x \div k \in Nat /\ x % k \in 0..(k - 1)
           /\ x = (x \div k) * k + (x % k)
  OBVIOUS

\* A number below the modulus is its own remainder.
LEMMA SmallMod ==
    ASSUME NEW k \in Nat \ {0}, NEW x \in 0..(k - 1)
    PROVE  x % k = x
  OBVIOUS

\* Numbers in order have quotients in order.
LEMMA QuotientOrder ==
    ASSUME NEW k \in Nat \ {0}, NEW a \in Nat, NEW b \in Nat,
           NEW c \in 0..(k - 1), NEW d \in 0..(k - 1), a < b
    PROVE  a * k + c < b * k + d
<1>1. a + 1 <= b OBVIOUS
<1>2. (a + 1) * k <= b * k BY <1>1
<1>3. (a + 1) * k = a * k + k OBVIOUS
<1> QED BY <1>2, <1>3

\* The casts of rowid_to_tid lose nothing on a packable rowid.
LEMMA Packed ==
    ASSUME NEW r \in Packable
    PROVE  /\ r - 1 \in Nat
           /\ rowid_to_tid(r).blk = (r - 1) \div TIDS_PER_BLOCK
           /\ rowid_to_tid(r).off = ((r - 1) % TIDS_PER_BLOCK) + 1
           /\ rowid_to_tid(r).off \in 1..TIDS_PER_BLOCK
<1> DEFINE K == TIDS_PER_BLOCK
           q == (r - 1) \div K
           m == (r - 1) % K
<1>0. K \in Nat \ {0} /\ Blocks \in Nat \ {0} /\ Offsets \in Nat /\ K < Offsets
  BY TidAssumption
<1>1. r - 1 \in Nat /\ r - 1 < K * Blocks
  <2>1. K * Blocks \in Nat BY <1>0
  <2> QED BY <2>1 DEF Packable
<1>2. q \in Nat /\ m \in 0..(K - 1) /\ r - 1 = q * K + m
  BY <1>0, <1>1, Division
<1> HIDE DEF q, m
<1>3. q < Blocks
  <2>1. SUFFICES ASSUME Blocks <= q PROVE FALSE BY <1>0, <1>2
  <2>2. Blocks * K <= q * K BY <2>1, <1>0, <1>2
  <2>3. Blocks * K = K * Blocks BY <1>0
  <2> QED BY <2>2, <2>3, <1>0, <1>1, <1>2
<1>4. q % Blocks = q BY <1>0, <1>2, <1>3, SmallMod
<1>5. (m + 1) % Offsets = m + 1 BY <1>0, <1>2, SmallMod
<1>6. /\ rowid_to_tid(r).blk = q % Blocks
      /\ rowid_to_tid(r).off = (m + 1) % Offsets
  BY DEF rowid_to_tid, q, m
<1>7. rowid_to_tid(r).blk = q /\ rowid_to_tid(r).off = m + 1 BY <1>4, <1>5, <1>6
<1>8. m + 1 \in 1..K BY <1>0, <1>2
<1> QED BY <1>1, <1>7, <1>8 DEF q, m

\* ffi.rs's packing is faithful for every number of offsets per block, of blocks
\* and of offset numbers: encode and decode are inverse, offsets are valid, and
\* the order of TIDs is the order of rowids.
THEOREM TidPacking == TidsFaithful
<1> DEFINE K == TIDS_PER_BLOCK
<1>0. K \in Nat \ {0} BY TidAssumption
<1>1. ASSUME NEW r \in Packable
      PROVE  tid_to_rowid(rowid_to_tid(r)) = r
  <2> DEFINE a == (r - 1) \div K
             c == (r - 1) % K
  <2>1. a \in Nat /\ c \in 0..(K - 1) /\ r - 1 = a * K + c
    BY <1>0, Packed, Division
  <2>2. rowid_to_tid(r).blk = a /\ rowid_to_tid(r).off = c + 1 BY Packed
  <2>3. r \in Int BY DEF Packable
  <2> HIDE DEF a, c
  <2>4. tid_to_rowid(rowid_to_tid(r)) = a * K + (c + 1) BY <2>2 DEF tid_to_rowid
  <2>5. a * K \in Int BY <2>1, <1>0
  <2> QED BY <2>1, <2>3, <2>4, <2>5
<1>2. ASSUME NEW r \in Packable, NEW s \in Packable
      PROVE  r <= s <=> TidLE(rowid_to_tid(r), rowid_to_tid(s))
  <2> DEFINE a == (r - 1) \div K
             b == (s - 1) \div K
             c == (r - 1) % K
             d == (s - 1) % K
  <2>1. /\ a \in Nat /\ c \in 0..(K - 1) /\ r - 1 = a * K + c
        /\ b \in Nat /\ d \in 0..(K - 1) /\ s - 1 = b * K + d
    BY <1>0, Packed, Division
  <2>2. /\ rowid_to_tid(r).blk = a /\ rowid_to_tid(r).off = c + 1
        /\ rowid_to_tid(s).blk = b /\ rowid_to_tid(s).off = d + 1
    BY Packed
  <2>3. r \in Int /\ s \in Int BY DEF Packable
  <2> HIDE DEF a, b, c, d
  <2>4. CASE a < b
    <3>1. r - 1 < s - 1 BY <2>1, <2>4, <1>0, QuotientOrder
    <3> QED BY <3>1, <2>1, <2>2, <2>3, <2>4 DEF TidLE
  <2>5. CASE b < a
    <3>1. s - 1 < r - 1 BY <2>1, <2>5, <1>0, QuotientOrder
    <3> QED BY <3>1, <2>1, <2>2, <2>3, <2>5 DEF TidLE
  <2>6. CASE a = b
    <3>1. a * K \in Int BY <2>1, <1>0
    <3> QED BY <3>1, <2>1, <2>2, <2>3, <2>6, <1>0 DEF TidLE
  <2> QED BY <2>1, <2>4, <2>5, <2>6
<1> QED BY <1>1, <1>2, Packed DEF TidsFaithful

-----------------------------------------------------------------------------
(* The inductive invariant. *)

\* The TID bounds that the executor makes of the ctid of a row, or of an open
\* end: a lower bound is such a TID or the one after it, an upper bound such a
\* TID or the one before it.
RowBounds ==
    /\ \A t \in MinTids : t.off \in 1..(TIDS_PER_BLOCK + 1) \/ t = NoTid
    /\ \A t \in MaxTids : \/ t.off \in 0..TIDS_PER_BLOCK
                          \/ t = [blk |-> Blocks - 1, off |-> Offsets - 1]

\* What has been returned is in order (unless a bitmap scan may be rescanned
\* early, or a TID bound is none of a row).
OrderInv ==
    /\ kind = "bitmap" => "bitmap" \notin EarlyRescans
    /\ kind = "tidrange" => RowBounds
    => \A i, j \in DOMAIN got : i < j => got[i] < got[j]

\* The cursor's rows: all the snapshot sees, once they are loaded.
LoadInv ==
    /\ rows_loaded => seen \subseteq rows
    /\ ~rows_loaded => rows = {}
    /\ kind = "none" => got = <<>> /\ ~ended

\* The rows the position has passed.
Upto(S) == {r \in S : r <= pos}

\* Sequential and TID range scans have returned what they have passed.
WalkInv ==
    kind = "seq" \/ (kind = "tidrange" /\ RowBounds) =>
        /\ target = IF kind = "seq" THEN seen ELSE InRange \cap seen
        /\ Range(got) = Upto(target)
        /\ ended => pos = MaxRowid

\* So has TABLESAMPLE within its one block; it ends after it, unless the scan
\* has been restarted in between.
SampleInv ==
    kind = "sample" =>
        /\ target = seen /\ Range(got) \subseteq seen
        /\ ~sample_block_consumed => got = <<>> /\ ~haveblock /\ ~ended
        /\ haveblock => Range(got) = Upto(seen)
        /\ ended => ~haveblock
        /\ "sample" \notin Rescans /\ sample_block_consumed /\ ~haveblock =>
               seen \subseteq Range(got)

\* ANALYZE has returned or counted what it has passed within the one block of
\* its stream.
AnalyzeInv ==
    kind = "analyze" =>
        /\ target = seen \ stamped /\ stream \in {0, 1} /\ (ended => ~haveblock)
        /\ stream = 1 => got = <<>> /\ deadrows = 0 /\ ~haveblock /\ ~ended
        /\ stream = 0 =>
               /\ Range(got) = Upto(rows \ stamped)
               /\ Len(got) = Cardinality(Upto(rows \ stamped))
               /\ deadrows = Cardinality(Upto(rows \cap stamped))
               /\ pos > 0 \/ ~haveblock => rows_loaded
               /\ ~haveblock => pos = MaxRowid

\* The rows of page p that the scan is to return.
OfPage(p) == {r \in seen : /\ p.blk = rowid_to_tid(r).blk
                           /\ p.lossy \/ rowid_to_tid(r).off \in p.offs}

\* The rows of the pages the iterator has left, and of the current page.
Ahead  == UNION {OfPage(p) : p \in tbm}
OnPage == {tid_to_rowid([blk |-> bitmap_blockno, off |-> o]) :
               o \in Fetched(bitmap_blockno, Undrained)}

\* A bitmap scan has returned, or has ahead, what it is to return; without
\* early rescans nothing else, and in order.
BitmapInv ==
    kind = "bitmap" =>
        /\ target \subseteq Range(got) \cup OnPage \cup Ahead
        /\ ended => tbm = {} /\ bitmap_offset_pos = TIDS_PER_BLOCK
        /\ "bitmap" \notin EarlyRescans =>
               /\ Range(got) \cup OnPage \cup Ahead \subseteq target
               /\ \A g \in Range(got), r \in OnPage \cup Ahead : g < r
               /\ \A r \in OnPage, s \in Ahead : r < s

\* The inductive invariant.
ScanInv == TypeOK /\ OrderInv /\ LoadInv /\ WalkInv /\ SampleInv /\ AnalyzeInv /\ BitmapInv

-----------------------------------------------------------------------------
(* TIDs of rows. *)

\* The TID of a row: its block and offset, and what they decode to.
LEMMA RowTid ==
    ASSUME NEW r \in RowId
    PROVE  /\ r \in Nat /\ r \in Packable
           /\ rowid_to_tid(r).blk \in Nat /\ rowid_to_tid(r).off \in InPage
           /\ r = rowid_to_tid(r).blk * TIDS_PER_BLOCK + rowid_to_tid(r).off
<1>1. r \in Nat /\ r \in Packable BY ScanAssumption DEF RowId
<1>2. TIDS_PER_BLOCK \in Nat \ {0} BY TidAssumption
<1>3. rowid_to_tid(r).off \in 1..TIDS_PER_BLOCK BY <1>1, Packed
<1>4. rowid_to_tid(r).blk \in Nat BY <1>1, <1>2, Packed, Division
<1>5. tid_to_rowid(rowid_to_tid(r)) = r BY <1>1, TidPacking DEF TidsFaithful
<1> QED BY <1>1, <1>3, <1>4, <1>5 DEF InPage, tid_to_rowid

\* Rows of an earlier block come first.
LEMMA BlockOrder ==
    ASSUME NEW a \in Nat, NEW b \in Nat, NEW o \in InPage, NEW u \in InPage, a < b
    PROVE  a * TIDS_PER_BLOCK + o < b * TIDS_PER_BLOCK + u
<1> DEFINE K == TIDS_PER_BLOCK
<1>1. K \in Nat \ {0} BY TidAssumption
<1>2. o - 1 \in 0..(K - 1) /\ u - 1 \in 0..(K - 1) BY <1>1 DEF InPage
<1>3. a * K + (o - 1) < b * K + (u - 1) BY <1>1, <1>2, QuotientOrder
<1>4. a * K \in Nat /\ b * K \in Nat BY <1>1
<1> HIDE DEF K
<1> QED BY <1>2, <1>3, <1>4 DEF InPage, K

\* A whole block lies between the starts of two blocks.
LEMMA BlockLength ==
    ASSUME NEW a \in Nat, NEW b \in Nat, a < b
    PROVE  a * TIDS_PER_BLOCK + TIDS_PER_BLOCK <= b * TIDS_PER_BLOCK
<1> DEFINE K == TIDS_PER_BLOCK
<1>1. K \in Nat \ {0} /\ a + 1 <= b BY TidAssumption
<1>2. (a + 1) * K <= b * K BY <1>1
<1>3. (a + 1) * K = a * K + K BY <1>1
<1> QED BY <1>2, <1>3

\* A block and an offset that decode to a row are the row's.
LEMMA TidOf ==
    ASSUME NEW b \in Nat, NEW o \in InPage, NEW r \in RowId, r = b * TIDS_PER_BLOCK + o
    PROVE  rowid_to_tid(r).blk = b /\ rowid_to_tid(r).off = o
<1> DEFINE c == rowid_to_tid(r).blk
           u == rowid_to_tid(r).off
<1>1. c \in Nat /\ u \in InPage /\ r = c * TIDS_PER_BLOCK + u /\ r \in Nat BY RowTid
<1>0. TIDS_PER_BLOCK \in Nat BY TidAssumption
<1> HIDE DEF c, u
<1>2. ~(b < c) BY <1>1, BlockOrder
<1>3. ~(c < b) BY <1>1, BlockOrder
<1>4. b = c BY <1>1, <1>2, <1>3
<1>5. b * TIDS_PER_BLOCK \in Nat /\ o \in Nat /\ u \in Nat BY <1>0, <1>1 DEF InPage
<1>6. o = u BY <1>1, <1>4, <1>5
<1> QED BY <1>4, <1>6 DEF c, u

\* A bound made of a row's ctid compares with rows as its rowid does.
LEMMA BoundsAre ==
    ASSUME RowBounds, NEW r \in RowId
    PROVE  /\ \A t \in MinTids : TidLE(t, rowid_to_tid(r)) <=> ~(r < tid_to_rowid(t))
           /\ \A t \in MaxTids : TidLE(rowid_to_tid(r), t) <=> ~(r > tid_to_rowid(t))
<1> DEFINE K == TIDS_PER_BLOCK
           b == rowid_to_tid(r).blk
           o == rowid_to_tid(r).off
<1>0. K \in Nat \ {0} /\ Blocks \in Nat \ {0} /\ Offsets \in Nat /\ K < Offsets BY TidAssumption
<1>1. b \in Nat /\ o \in 1..K /\ r = b * K + o /\ r \in Nat /\ b * K \in Nat
  BY <1>0, RowTid DEF InPage
<1>b. b < Blocks
  <2>1. r <= K * Blocks /\ K * Blocks \in Nat BY <1>0, RowTid DEF Packable
  <2>2. SUFFICES ASSUME Blocks <= b PROVE FALSE BY <1>0, <1>1
  <2>3. Blocks * K <= b * K /\ Blocks * K = K * Blocks BY <1>0, <1>1, <2>2
  <2> HIDE DEF K, b, o
  <2> QED BY <1>1, <2>1, <2>3
<1>2. ASSUME NEW t \in MinTids PROVE TidLE(t, rowid_to_tid(r)) <=> ~(r < tid_to_rowid(t))
  <2>0. t \in TID BY ScanAssumption
  <2>1. t.blk \in Nat /\ t.off \in Nat /\ t.blk * K \in Nat BY <1>0, <2>0 DEF TID
  <2>2. TidLE(t, rowid_to_tid(r)) <=> t.blk < b \/ (t.blk = b /\ t.off <= o) BY DEF TidLE
  <2>3. tid_to_rowid(t) = t.blk * K + t.off BY DEF tid_to_rowid
  <2>4. CASE t = NoTid
    <3>1. t.blk = 0 /\ t.off = 0 BY <2>4 DEF NoTid
    <3>2. 0 * K = 0 BY <1>0
    <3> HIDE DEF K, b, o
    <3> QED BY <1>1, <2>2, <2>3, <3>1, <3>2
  <2>5. CASE t.off \in 1..(K + 1)
    <3>1. t.blk < b => t.blk * K + K <= b * K BY <1>1, <2>1, BlockLength
    <3>2. b < t.blk => b * K + K <= t.blk * K BY <1>1, <2>1, BlockLength
    <3> DEFINE x == b * K
               y == t.blk * K
    <3>3. t.blk = b => x = y OBVIOUS
    <3>4. /\ x \in Nat /\ y \in Nat /\ r = x + o /\ tid_to_rowid(t) = y + t.off
          /\ (t.blk < b => y + K <= x) /\ (b < t.blk => x + K <= y)
      BY <1>1, <2>1, <2>3, <3>1, <3>2
    <3> HIDE DEF K, b, o, x, y
    <3> QED BY <1>0, <1>1, <2>1, <2>2, <2>5, <3>3, <3>4
  <2> QED BY <2>4, <2>5 DEF RowBounds
<1>3. ASSUME NEW t \in MaxTids PROVE TidLE(rowid_to_tid(r), t) <=> ~(r > tid_to_rowid(t))
  <2>0. t \in TID BY ScanAssumption
  <2>1. t.blk \in Nat /\ t.off \in Nat /\ t.blk * K \in Nat BY <1>0, <2>0 DEF TID
  <2>2. TidLE(rowid_to_tid(r), t) <=> b < t.blk \/ (b = t.blk /\ o <= t.off) BY DEF TidLE
  <2>3. tid_to_rowid(t) = t.blk * K + t.off BY DEF tid_to_rowid
  <2>4. b < t.blk => b * K + K <= t.blk * K BY <1>1, <2>1, BlockLength
  <2>5. t.blk < b => t.blk * K + K <= b * K BY <1>1, <2>1, BlockLength
  <2> DEFINE x == b * K
             y == t.blk * K
  <2>6. t.blk = b => x = y OBVIOUS
  <2>7. /\ x \in Nat /\ y \in Nat /\ r = x + o /\ tid_to_rowid(t) = y + t.off
        /\ (t.blk < b => y + K <= x) /\ (b < t.blk => x + K <= y)
    BY <1>1, <2>1, <2>3, <2>4, <2>5
  <2>8. CASE t.off \in 0..K
    <3> HIDE DEF K, b, o, x, y
    <3> QED BY <1>0, <1>1, <2>1, <2>2, <2>6, <2>7, <2>8
  <2>9. CASE t = [blk |-> Blocks - 1, off |-> Offsets - 1]
    <3>1. t.blk = Blocks - 1 /\ t.off = Offsets - 1 BY <2>9
    <3> HIDE DEF K, b, o, x, y
    <3> QED BY <1>0, <1>1, <1>b, <2>1, <2>2, <2>6, <2>7, <3>1
  <2> QED BY <2>8, <2>9 DEF RowBounds
<1> QED BY <1>2, <1>3

-----------------------------------------------------------------------------
(* Walking the rows. *)

\* One more row returned.
LEMMA Returned ==
    ASSUME NEW s \in Seq(RowId), NEW r \in RowId
    PROVE  /\ Append(s, r) \in Seq(RowId) /\ Append(s, r) # s
           /\ Len(Append(s, r)) = Len(s) + 1
           /\ Range(Append(s, r)) = Range(s) \cup {r}
           /\ (/\ \A i, j \in DOMAIN s : i < j => s[i] < s[j]
               /\ \A g \in Range(s) : g < r)
              => \A i, j \in DOMAIN Append(s, r) : i < j => Append(s, r)[i] < Append(s, r)[j]
<1> DEFINE a == Append(s, r)
           n == Len(s)
<1>1. n \in Nat /\ DOMAIN s = 1..n OBVIOUS
<1>2. /\ a \in Seq(RowId) /\ Len(a) = n + 1 /\ DOMAIN a = 1..(n + 1) /\ a[n + 1] = r
      /\ \A i \in 1..n : a[i] = s[i]
  OBVIOUS
<1> HIDE DEF a, n
<1>3. \A i \in 1..(n + 1) : i \in 1..n \/ i = n + 1 BY <1>1
<1>4. \A i \in 1..n : i \in 1..(n + 1) BY <1>1
<1>5. n + 1 \in 1..(n + 1) BY <1>1
<1>6. Range(a) = Range(s) \cup {r} BY <1>1, <1>2, <1>3, <1>4, <1>5 DEF Range
<1>7. a # s BY <1>1, <1>2 DEF n
<1>8. ASSUME \A i, j \in DOMAIN s : i < j => s[i] < s[j], \A g \in Range(s) : g < r,
             NEW i \in DOMAIN a, NEW j \in DOMAIN a, i < j
      PROVE  a[i] < a[j]
  <2>1. i \in 1..n BY <1>1, <1>2, <1>8
  <2>2. CASE j \in 1..n BY <1>1, <1>2, <1>8, <2>1, <2>2
  <2>3. CASE j = n + 1
    <3>1. s[i] \in Range(s) BY <1>1, <2>1 DEF Range
    <3> QED BY <1>2, <1>8, <2>1, <2>3, <3>1
  <2> QED BY <1>2, <1>3, <2>2, <2>3
<1> QED BY <1>2, <1>6, <1>7, <1>8 DEF a, n

\* What is loaded has all that the snapshot sees.
LEMMA Loads ==
    ASSUME TypeOK, LoadInv, NEW now \in BOOLEAN, ensure_rows_loaded(now)
    PROVE  /\ rows' \subseteq RowId /\ rows_loaded' \in BOOLEAN
           /\ now => rows_loaded'
           /\ rows_loaded => rows' = rows /\ rows_loaded'
           /\ rows_loaded' => seen \subseteq rows'
           /\ ~rows_loaded' => rows' = {}
<1>1. /\ rows' = IF now /\ ~rows_loaded THEN seen \cup unseen ELSE rows
      /\ rows_loaded' = (rows_loaded \/ now)
  BY DEF ensure_rows_loaded, RowsNow
<1>2. /\ seen \subseteq RowId /\ unseen \subseteq RowId /\ rows \subseteq RowId
      /\ rows_loaded \in BOOLEAN
  BY DEF TypeOK
<1>3. CASE rows_loaded BY <1>1, <1>2, <1>3 DEF LoadInv
<1>4. CASE ~rows_loaded BY <1>1, <1>2, <1>4 DEF LoadInv
<1> QED BY <1>3, <1>4

\* A walk goes to the next row in S, and returns it, or to the end.
LEMMA WalkIs ==
    ASSUME TypeOK, LoadInv, NEW R \in SUBSET RowId, Walk(R)
    PROVE  /\ rows' \subseteq RowId /\ rows_loaded' = TRUE /\ seen \subseteq rows'
           /\ rows_loaded => rows' = rows
           /\ got' \in Seq(RowId) /\ pos' \in 0..MaxRowid
           /\ \/ \E r \in rows' \cap R : /\ r > pos /\ \A q \in rows' \cap R : q > pos => r <= q
                                         /\ pos' = r /\ got' = Append(got, r)
              \/ /\ \A q \in rows' \cap R : ~(q > pos)
                 /\ pos' = MaxRowid /\ got' = got
           /\ UNCHANGED <<seen, unseen, kind, passes, bitmap_blockno, bitmap_offsets,
                          bitmap_offset_pos, mintid, maxtid, tbm, target>>
<1>1. ensure_rows_loaded(TRUE) /\ rows' = RowsNow(TRUE) BY DEF Walk, ensure_rows_loaded
<1>2. /\ rows' \subseteq RowId /\ rows_loaded' \in BOOLEAN /\ rows_loaded'
      /\ rows_loaded => rows' = rows
      /\ seen \subseteq rows'
  BY <1>1, Loads
<1>3. \/ \E r \in rows' \cap R : /\ r > pos /\ \A q \in rows' \cap R : q > pos => r <= q
                                 /\ pos' = r /\ got' = Append(got, r)
      \/ /\ \A q \in rows' \cap R : ~(q > pos)
         /\ pos' = MaxRowid /\ got' = got
  BY <1>1 DEF Walk, Least
<1>4. UNCHANGED <<seen, unseen, kind, passes, bitmap_blockno, bitmap_offsets,
                  bitmap_offset_pos, mintid, maxtid, tbm, target>>
  BY DEF Walk, file, bitmap, range
<1>5. got' \in Seq(RowId) /\ pos' \in 0..MaxRowid
  <2>1. got \in Seq(RowId) /\ MaxRowid \in Nat /\ RowId = 1..MaxRowid
    BY ScanAssumption DEF TypeOK, RowId
  <2>2. \A r \in RowId : r \in 0..MaxRowid /\ Append(got, r) \in Seq(RowId) BY <2>1
  <2>3. MaxRowid \in 0..MaxRowid BY <2>1
  <2> QED BY <1>2, <1>3, <2>1, <2>2, <2>3
<1> QED BY <1>2, <1>3, <1>4, <1>5

\* It keeps what has been returned the rows of S passed, in order.
LEMMA WalkReturns ==
    ASSUME TypeOK, LoadInv, NEW R \in SUBSET RowId, Walk(R),
           NEW S, S = rows' \cap R, Range(got) = {q \in S : q <= pos}
    PROVE  /\ Range(got') = {q \in S : q <= pos'}
           /\ got' \in Seq(RowId) /\ pos' \in 0..MaxRowid /\ pos <= pos'
           /\ got' = got => pos' = MaxRowid
           /\ (\A i, j \in DOMAIN got : i < j => got[i] < got[j])
              => \A i, j \in DOMAIN got' : i < j => got'[i] < got'[j]
           /\ Len(got) = Cardinality({q \in S : q <= pos})
              => Len(got') = Cardinality({q \in S : q <= pos'})
<1>0. /\ got \in Seq(RowId) /\ pos \in 0..MaxRowid /\ MaxRowid \in Nat /\ RowId = 1..MaxRowid
  BY ScanAssumption DEF TypeOK, RowId
<1>s. S \subseteq RowId BY WalkIs
<1>n. \A q \in S : q \in Nat /\ q <= MaxRowid BY <1>0, <1>s
<1>1. CASE \E r \in S : /\ r > pos /\ \A q \in S : q > pos => r <= q
                        /\ pos' = r /\ got' = Append(got, r)
  <2>1. PICK r \in S : /\ r > pos /\ \A q \in S : q > pos => r <= q
                       /\ pos' = r /\ got' = Append(got, r)
    BY <1>1
  <2>2. r \in RowId /\ pos' \in 0..MaxRowid /\ pos <= pos' BY <1>0, <1>s, <2>1
  <2>a. \A q \in S : q <= pos' <=> q <= pos \/ q = r BY <1>0, <1>n, <2>1
  <2>3. {q \in S : q <= pos'} = {q \in S : q <= pos} \cup {r} BY <2>1, <2>a
  <2>4. /\ got' \in Seq(RowId) /\ got' # got /\ Len(got') = Len(got) + 1
        /\ Range(got') = Range(got) \cup {r}
    BY <1>0, <2>1, <2>2, Returned
  <2>b. \A q \in S : q <= pos => q < r BY <1>0, <1>n, <2>1
  <2>5. \A g \in Range(got) : g < r BY <2>b
  <2>6. (\A i, j \in DOMAIN got : i < j => got[i] < got[j])
        => \A i, j \in DOMAIN got' : i < j => got'[i] < got'[j]
    BY <1>0, <2>1, <2>2, <2>5, Returned
  <2>7. Cardinality({q \in S : q <= pos'}) = Cardinality({q \in S : q <= pos}) + 1
    <3>1. IsFiniteSet(RowId) BY <1>0, FS_Interval
    <3>2. IsFiniteSet({q \in S : q <= pos}) BY <1>s, <3>1, FS_Subset
    <3>3. r \notin {q \in S : q <= pos} BY <1>0, <1>n, <2>1
    <3> QED BY <2>3, <3>2, <3>3, FS_AddElement
  <2> QED BY <2>2, <2>3, <2>4, <2>6, <2>7
<1>2. CASE /\ \A q \in S : ~(q > pos)
           /\ pos' = MaxRowid /\ got' = got
  <2>0. \A q \in S : q <= pos /\ q <= pos' BY <1>0, <1>n, <1>2
  <2>1. {q \in S : q <= pos'} = {q \in S : q <= pos} BY <2>0
  <2>2. pos' \in 0..MaxRowid /\ pos <= pos' BY <1>0, <1>2
  <2>3. Range(got') = {q \in S : q <= pos'} BY <1>2, <2>1
  <2>4. (\A i, j \in DOMAIN got : i < j => got[i] < got[j])
        => \A i, j \in DOMAIN got' : i < j => got'[i] < got'[j]
    BY <1>2
  <2>5. Len(got) = Cardinality({q \in S : q <= pos})
        => Len(got') = Cardinality({q \in S : q <= pos'})
    BY <1>2, <2>1
  <2> QED BY <1>0, <1>2, <2>2, <2>3, <2>4, <2>5
<1> QED BY <1>1, <1>2, WalkIs

\* Sequential and TID range scans keep the invariant.
LEMMA WalkSteps ==
    ASSUME ScanInv, scan_getnextslot \/ scan_getnextslot_tidrange
    PROVE  ScanInv'
<1> DEFINE R == IF kind = "seq" THEN seen ELSE InRange \cap seen
<1>0. TypeOK /\ LoadInv /\ OrderInv /\ WalkInv BY DEF ScanInv
<1>1. /\ kind \in {"seq", "tidrange"} /\ ~ended /\ Walk(R) /\ ended' = (got' = got)
      /\ UNCHANGED <<sample_block_consumed, haveblock, stream, stamped, deadrows>>
  BY DEF scan_getnextslot, scan_getnextslot_tidrange, analyze
<1>2. R \in SUBSET RowId /\ R \subseteq seen BY <1>0 DEF TypeOK
<1> HIDE DEF R
<1>3. /\ rows' \subseteq RowId /\ rows_loaded' = TRUE /\ seen \subseteq rows'
      /\ got' \in Seq(RowId) /\ pos' \in 0..MaxRowid
      /\ UNCHANGED <<seen, unseen, kind, passes, bitmap_blockno, bitmap_offsets,
                     bitmap_offset_pos, mintid, maxtid, tbm, target>>
  BY <1>0, <1>1, <1>2, WalkIs
<1>4. TypeOK'
  <2>1. ended' \in BOOLEAN BY <1>1
  <2> QED BY <1>0, <1>1, <1>3, <2>1 DEF TypeOK
<1>5. LoadInv' BY <1>1, <1>3 DEF LoadInv
<1>6. SampleInv' /\ AnalyzeInv' /\ BitmapInv'
  BY <1>1, <1>3 DEF SampleInv, AnalyzeInv, BitmapInv
<1>7. ASSUME kind = "tidrange" => RowBounds
      PROVE  OrderInv' /\ WalkInv'
  <2>1. /\ target = R /\ Range(got) = {r \in target : r <= pos}
        /\ \A i, j \in DOMAIN got : i < j => got[i] < got[j]
    BY <1>0, <1>1, <1>7 DEF WalkInv, OrderInv, Upto, R
  <2>2. R = rows' \cap R BY <1>2, <1>3
  <2>3. /\ Range(got') = {r \in R : r <= pos'}
        /\ got' = got => pos' = MaxRowid
        /\ \A i, j \in DOMAIN got' : i < j => got'[i] < got'[j]
    BY <1>0, <1>1, <1>2, <2>1, <2>2, WalkReturns
  <2>4. OrderInv' BY <2>3 DEF OrderInv
  <2>5. InRange' = InRange BY <1>3 DEF InRange, tid_to_rowid
  <2>6. target' = IF kind' = "seq" THEN seen' ELSE InRange' \cap seen'
    BY <1>3, <2>1, <2>5 DEF R
  <2>7. Range(got') = Upto(target)' BY <1>3, <2>1, <2>3 DEF Upto
  <2>8. ended' => pos' = MaxRowid BY <1>1, <2>3
  <2>9. WalkInv' BY <2>6, <2>7, <2>8 DEF WalkInv
  <2> QED BY <2>4, <2>9
<1>8. CASE ~(kind = "tidrange" => RowBounds)
  BY <1>3, <1>8, <1>4, <1>5, <1>6 DEF ScanInv, OrderInv, WalkInv
<1> QED BY <1>4, <1>5, <1>6, <1>7, <1>8 DEF ScanInv

\* So do writes of rows the snapshot does not see, and steps that change nothing.
LEMMA FileSteps ==
    ASSUME ScanInv, UNCHANGED <<seen, scan>>, unseen' \subseteq RowId \ seen
    PROVE  ScanInv'
<1>0. TypeOK /\ OrderInv /\ LoadInv /\ WalkInv /\ SampleInv /\ AnalyzeInv /\ BitmapInv
  BY DEF ScanInv
<1>1. UNCHANGED <<seen, kind, passes, rows, rows_loaded, pos, sample_block_consumed,
                  bitmap_blockno, bitmap_offsets, bitmap_offset_pos, mintid, maxtid, tbm,
                  haveblock, stream, stamped, deadrows, target, got, ended>>
  BY DEF scan, loaded, bitmap, range, analyze
<1>3. TypeOK' BY <1>0, <1>1 DEF TypeOK
<1>4. OrderInv' /\ LoadInv' BY <1>0, <1>1 DEF OrderInv, LoadInv
<1>5. InRange' = InRange BY <1>1 DEF InRange, tid_to_rowid
<1>6. WalkInv' BY <1>0, <1>1, <1>5 DEF WalkInv, Upto
<1>7. SampleInv' BY <1>0, <1>1 DEF SampleInv, Upto
<1>8. AnalyzeInv' BY <1>0, <1>1 DEF AnalyzeInv, Upto
<1>9. OnPage' = OnPage /\ Ahead' = Ahead
  BY <1>1 DEF OnPage, Ahead, OfPage, Fetched, Undrained, tid_to_rowid, rowid_to_tid
<1>10. BitmapInv' BY <1>0, <1>1, <1>9 DEF BitmapInv
<1> QED BY <1>3, <1>4, <1>6, <1>7, <1>8, <1>10 DEF ScanInv

\* TABLESAMPLE keeps it.
LEMMA SampleSteps ==
    ASSUME ScanInv, scan_sample_next_block \/ scan_sample_next_tuple
    PROVE  ScanInv'
<1>0. TypeOK /\ LoadInv /\ OrderInv /\ SampleInv BY DEF ScanInv
<1>1. CASE scan_sample_next_block
  <2>1. /\ kind = "sample" /\ ~ended /\ ~haveblock
        /\ \/ /\ ~sample_block_consumed
              /\ sample_block_consumed' = TRUE /\ haveblock' = TRUE /\ pos' = 0
              /\ ended' = ended
           \/ /\ sample_block_consumed
              /\ ended' = TRUE
              /\ UNCHANGED <<sample_block_consumed, haveblock, pos>>
    BY <1>1 DEF scan_sample_next_block
  <2>2. UNCHANGED <<seen, unseen, kind, passes, rows, rows_loaded, bitmap_blockno,
                    bitmap_offsets, bitmap_offset_pos, mintid, maxtid, tbm, stream, stamped,
                    deadrows, target, got>>
    BY <1>1 DEF scan_sample_next_block, file, loaded, bitmap, range, analyze
  <2>3. pos' \in 0..MaxRowid BY <1>0, <2>1, ScanAssumption DEF TypeOK
  <2>4. TypeOK' BY <1>0, <2>1, <2>2, <2>3 DEF TypeOK
  <2>5. OrderInv' /\ LoadInv' BY <1>0, <2>1, <2>2 DEF OrderInv, LoadInv
  <2>6. WalkInv' /\ AnalyzeInv' /\ BitmapInv' BY <2>1, <2>2 DEF WalkInv, AnalyzeInv, BitmapInv
  <2>7. SampleInv'
    <3>1. CASE sample_block_consumed BY <1>0, <2>1, <2>2, <3>1 DEF SampleInv, Upto
    <3>2. CASE ~sample_block_consumed
      <4>1. got = <<>> BY <1>0, <2>1, <3>2 DEF SampleInv
      <4>2. Range(got) = {} BY <4>1 DEF Range
      <4>3. \A r \in seen : ~(r <= 0) BY <1>0, ScanAssumption DEF TypeOK, RowId
      <4>4. Range(got') = Upto(seen)' BY <2>1, <2>2, <3>2, <4>2, <4>3 DEF Upto
      <4> QED BY <1>0, <2>1, <2>2, <3>2, <4>2, <4>4 DEF SampleInv
    <3> QED BY <3>1, <3>2
  <2> QED BY <2>4, <2>5, <2>6, <2>7 DEF ScanInv
<1>2. CASE scan_sample_next_tuple
  <2>1. /\ kind = "sample" /\ ~ended /\ haveblock /\ Walk(seen)
        /\ haveblock' = (got' # got)
        /\ UNCHANGED <<sample_block_consumed, stream, stamped, deadrows, ended>>
    BY <1>2 DEF scan_sample_next_tuple, analyze
  <2>2. seen \in SUBSET RowId BY <1>0 DEF TypeOK
  <2>3. /\ rows' \subseteq RowId /\ rows_loaded' = TRUE /\ seen \subseteq rows'
        /\ got' \in Seq(RowId) /\ pos' \in 0..MaxRowid
        /\ UNCHANGED <<seen, unseen, kind, passes, bitmap_blockno, bitmap_offsets,
                       bitmap_offset_pos, mintid, maxtid, tbm, target>>
    BY <1>0, <2>1, <2>2, WalkIs
  <2>4. TypeOK'
    <3>1. haveblock' \in BOOLEAN BY <2>1
    <3> QED BY <1>0, <2>1, <2>3, <3>1 DEF TypeOK
  <2>5. LoadInv' BY <2>1, <2>3 DEF LoadInv
  <2>6. WalkInv' /\ AnalyzeInv' /\ BitmapInv' BY <2>1, <2>3 DEF WalkInv, AnalyzeInv, BitmapInv
  <2>7. /\ Range(got) = {r \in seen : r <= pos}
        /\ \A i, j \in DOMAIN got : i < j => got[i] < got[j]
    BY <1>0, <2>1 DEF SampleInv, OrderInv, Upto
  <2>8. seen = rows' \cap seen BY <2>3
  <2>9. /\ Range(got') = {r \in seen : r <= pos'}
        /\ got' = got => pos' = MaxRowid
        /\ \A i, j \in DOMAIN got' : i < j => got'[i] < got'[j]
    BY <1>0, <2>1, <2>2, <2>7, <2>8, WalkReturns
  <2>10. OrderInv' BY <2>9 DEF OrderInv
  <2>11. \A r \in seen : r <= MaxRowid BY <2>2, ScanAssumption DEF RowId
  <2>12. ~haveblock' => seen \subseteq Range(got') BY <2>1, <2>9, <2>11
  <2>13. SampleInv' BY <1>0, <2>1, <2>3, <2>9, <2>12 DEF SampleInv, Upto
  <2> QED BY <2>4, <2>5, <2>6, <2>10, <2>13 DEF ScanInv
<1> QED BY <1>1, <1>2

\* ANALYZE keeps it.
LEMMA AnalyzeSteps ==
    ASSUME ScanInv, scan_analyze_next_block \/ scan_analyze_next_tuple
    PROVE  ScanInv'
<1>0. TypeOK /\ LoadInv /\ OrderInv /\ AnalyzeInv BY DEF ScanInv
<1>z. \A S \in SUBSET RowId : {q \in S : q <= 0} = {}
  <2>1. \A q \in RowId : ~(q <= 0) BY ScanAssumption DEF RowId
  <2> QED BY <2>1
<1>1. CASE scan_analyze_next_block
  <2>1. /\ kind = "analyze" /\ ~ended /\ ~haveblock
        /\ \/ /\ stream > 0
              /\ stream' = stream - 1 /\ haveblock' = TRUE /\ pos' = 0
              /\ ended' = ended
           \/ /\ stream = 0
              /\ ended' = TRUE
              /\ UNCHANGED <<stream, haveblock, pos>>
    BY <1>1 DEF scan_analyze_next_block
  <2>2. UNCHANGED <<seen, unseen, kind, passes, rows, rows_loaded, sample_block_consumed,
                    bitmap_blockno, bitmap_offsets, bitmap_offset_pos, mintid, maxtid, tbm,
                    stamped, deadrows, target, got>>
    BY <1>1 DEF scan_analyze_next_block, file, loaded, bitmap, range
  <2>3. pos' \in 0..MaxRowid /\ stream' \in Nat BY <1>0, <2>1, ScanAssumption DEF TypeOK
  <2>4. TypeOK' BY <1>0, <2>1, <2>2, <2>3 DEF TypeOK
  <2>5. OrderInv' /\ LoadInv' BY <1>0, <2>1, <2>2 DEF OrderInv, LoadInv
  <2>6. WalkInv' /\ SampleInv' /\ BitmapInv' BY <2>1, <2>2 DEF WalkInv, SampleInv, BitmapInv
  <2>7. AnalyzeInv'
    <3>0. stream \in {0, 1} /\ target = seen \ stamped BY <1>0, <2>1 DEF AnalyzeInv
    <3>1. CASE stream = 0 BY <1>0, <2>1, <2>2, <3>1 DEF AnalyzeInv, Upto
    <3>2. CASE stream = 1
      <4>1. got = <<>> /\ deadrows = 0 BY <1>0, <2>1, <3>2 DEF AnalyzeInv
      <4>2. Range(got) = {} /\ Len(got) = 0 BY <4>1 DEF Range
      <4>3. stream' = 0 /\ haveblock' = TRUE /\ pos' = 0 /\ ~ended' BY <2>1, <3>2
      <4>4. rows \ stamped \in SUBSET RowId /\ rows \cap stamped \in SUBSET RowId
        BY <1>0 DEF TypeOK
      <4>5. Upto(rows \ stamped)' = {} /\ Upto(rows \cap stamped)' = {}
        BY <1>z, <2>2, <4>3, <4>4 DEF Upto
      <4>6. Cardinality({}) = 0 BY FS_EmptySet
      <4>7. /\ Range(got') = Upto(rows \ stamped)'
            /\ Len(got') = Cardinality(Upto(rows \ stamped))'
            /\ deadrows' = Cardinality(Upto(rows \cap stamped))'
        BY <2>2, <4>1, <4>2, <4>5, <4>6
      <4>8. target' = seen' \ stamped' BY <2>2, <3>0
      <4> QED BY <4>3, <4>7, <4>8 DEF AnalyzeInv
    <3> QED BY <3>0, <3>1, <3>2
  <2> QED BY <2>4, <2>5, <2>6, <2>7 DEF ScanInv
<1>2. CASE scan_analyze_next_tuple
  <2> DEFINE D == rows' \cap stamped
             S == rows' \cap (RowId \ stamped)
             more == {r \in D : pos < r /\ r <= pos'}
  <2>1. /\ kind = "analyze" /\ ~ended /\ haveblock /\ Walk(RowId \ stamped)
        /\ deadrows' = deadrows + Cardinality(more)
        /\ haveblock' = (got' # got)
        /\ UNCHANGED <<sample_block_consumed, stream, stamped, ended>>
    BY <1>2 DEF scan_analyze_next_tuple
  <2>2. RowId \ stamped \in SUBSET RowId OBVIOUS
  <2>3. /\ rows' \subseteq RowId /\ rows_loaded' = TRUE /\ seen \subseteq rows'
        /\ rows_loaded => rows' = rows
        /\ got' \in Seq(RowId) /\ pos' \in 0..MaxRowid
        /\ UNCHANGED <<seen, unseen, kind, passes, bitmap_blockno, bitmap_offsets,
                       bitmap_offset_pos, mintid, maxtid, tbm, target>>
    BY <1>0, <2>1, <2>2, WalkIs
  <2>4. /\ stream = 0 /\ target = seen \ stamped
        /\ Range(got) = {q \in rows \ stamped : q <= pos}
        /\ Len(got) = Cardinality({q \in rows \ stamped : q <= pos})
        /\ deadrows = Cardinality({q \in rows \cap stamped : q <= pos})
        /\ pos > 0 => rows_loaded
        /\ \A i, j \in DOMAIN got : i < j => got[i] < got[j]
    BY <1>0, <2>1 DEF AnalyzeInv, OrderInv, Upto
  <2>5. /\ {q \in rows \ stamped : q <= pos} = {q \in S : q <= pos}
        /\ {q \in rows \cap stamped : q <= pos} = {q \in D : q <= pos}
    <3>1. rows \ stamped \in SUBSET RowId /\ rows \cap stamped \in SUBSET RowId
          /\ S \in SUBSET RowId /\ D \in SUBSET RowId /\ rows \subseteq RowId
      BY <1>0, <2>3 DEF TypeOK
    <3>2. CASE rows_loaded BY <2>3, <3>1, <3>2
    <3>3. CASE pos = 0 BY <1>z, <3>1, <3>3
    <3> QED BY <1>0, <2>4, <3>2, <3>3 DEF TypeOK
  <2>6. /\ Range(got') = {q \in S : q <= pos'} /\ pos <= pos'
        /\ got' = got => pos' = MaxRowid
        /\ \A i, j \in DOMAIN got' : i < j => got'[i] < got'[j]
        /\ Len(got') = Cardinality({q \in S : q <= pos'})
    BY <1>0, <2>1, <2>2, <2>4, <2>5, WalkReturns
  <2>7. /\ deadrows' = Cardinality({q \in D : q <= pos'}) /\ deadrows' \in 0..MaxRowid
    <3> DEFINE past == {q \in D : q <= pos}
               all  == {q \in D : q <= pos'}
    <3>0. MaxRowid \in Nat /\ RowId = 1..MaxRowid /\ pos \in 0..MaxRowid /\ D \subseteq RowId
      BY <1>0, <2>3, ScanAssumption DEF TypeOK, RowId
    <3>1. \A q \in D : q \in Nat BY <3>0
    <3>2. \A q \in D : q <= pos' <=> q <= pos \/ (pos < q /\ q <= pos')
      BY <2>3, <2>6, <3>0, <3>1
    <3>3. \A q \in D : ~(q <= pos /\ pos < q) BY <3>0, <3>1
    <3>4. all = past \cup more /\ past \cap more = {} BY <3>2, <3>3
    <3>5. IsFiniteSet(RowId) /\ Cardinality(RowId) = MaxRowid
      BY <3>0, FS_Interval
    <3>6. IsFiniteSet(past) /\ IsFiniteSet(more) /\ IsFiniteSet(all)
          /\ Cardinality(all) <= Cardinality(RowId)
      BY <3>0, <3>5, FS_Subset
    <3>7. Cardinality(past) \in Nat /\ Cardinality(more) \in Nat /\ Cardinality(all) \in Nat
      BY <3>6, FS_CardinalityType
    <3>8. Cardinality(past \cup more) = Cardinality(past) + Cardinality(more) - Cardinality(past \cap more)
      BY <3>6, FS_Union
    <3>9. Cardinality({}) = 0 BY FS_EmptySet
    <3>10. deadrows = Cardinality(past) BY <2>4, <2>5
    <3> HIDE DEF past, all, more
    <3>a. Cardinality(past \cap more) = 0 /\ Cardinality(all) = Cardinality(past \cup more)
      BY <3>4, <3>9
    <3>11. Cardinality(all) = Cardinality(past) + Cardinality(more) BY <3>7, <3>8, <3>a
    <3>12. deadrows' = Cardinality(all) BY <2>1, <3>10, <3>11
    <3>13. deadrows' \in 0..MaxRowid BY <3>0, <3>5, <3>6, <3>7, <3>12
    <3> QED BY <3>12, <3>13 DEF all
  <2>8. TypeOK'
    <3>1. haveblock' \in BOOLEAN BY <2>1
    <3> QED BY <1>0, <2>1, <2>3, <2>7, <3>1 DEF TypeOK
  <2>9. LoadInv' BY <2>1, <2>3 DEF LoadInv
  <2>10. WalkInv' /\ SampleInv' /\ BitmapInv' BY <2>1, <2>3 DEF WalkInv, SampleInv, BitmapInv
  <2>11. OrderInv' BY <2>6 DEF OrderInv
  <2>12. S = (rows \ stamped)' /\ D = (rows \cap stamped)' BY <2>1, <2>3
  <2>13. AnalyzeInv'
    <3>1. Upto(rows \ stamped)' = {q \in S : q <= pos'}
      BY <2>12 DEF Upto
    <3>2. Upto(rows \cap stamped)' = {q \in D : q <= pos'}
      BY <2>12 DEF Upto
    <3>3. /\ Range(got') = Upto(rows \ stamped)'
          /\ Len(got') = Cardinality(Upto(rows \ stamped)')
          /\ deadrows' = Cardinality(Upto(rows \cap stamped)')
      BY <2>6, <2>7, <3>1, <3>2
    <3>4. target' = seen' \ stamped' /\ stream' = 0 /\ ~ended' BY <2>1, <2>3, <2>4
    <3>5. ~haveblock' => pos' = MaxRowid BY <2>1, <2>6
    <3> QED BY <2>3, <3>3, <3>4, <3>5 DEF AnalyzeInv
  <2> QED BY <2>8, <2>9, <2>10, <2>11, <2>13 DEF ScanInv
<1> QED BY <1>1, <1>2

-----------------------------------------------------------------------------
(* Starting and ending a pass. *)

\* A new pass, of a new cursor or of one restarted, keeps the invariant.
LEMMA PassStarts ==
    ASSUME ScanInv, NEW k \in Kinds, NewPass(k), kind' = k, pos' = 0, UNCHANGED file,
           \/ NewCursor
           \/ /\ kind = k /\ k \in Rescans /\ (ended \/ k \in EarlyRescans)
              /\ UNCHANGED <<loaded, sample_block_consumed, bitmap>>
    PROVE  ScanInv'
<1>0. TypeOK /\ LoadInv /\ SampleInv /\ BitmapInv BY DEF ScanInv
<1>1. /\ passes < MaxPasses /\ passes' = passes + 1 /\ kind' = k /\ pos' = 0
      /\ got' = <<>> /\ ended' = FALSE /\ haveblock' = FALSE /\ seen' = seen /\ unseen' = unseen
  BY DEF NewPass, file
<1>2. \/ /\ rows' = {} /\ rows_loaded' = FALSE /\ sample_block_consumed' = FALSE
         /\ bitmap_blockno' = 0 /\ bitmap_offsets' = {} /\ bitmap_offset_pos' = 0
      \/ /\ kind = k /\ k \in Rescans /\ (ended \/ k \in EarlyRescans)
         /\ UNCHANGED <<rows, rows_loaded, sample_block_consumed, bitmap_blockno,
                        bitmap_offsets, bitmap_offset_pos>>
  BY DEF NewCursor, loaded, bitmap
<1>3. /\ mintid' \in TID /\ maxtid' \in TID /\ tbm' \in Bitmap /\ stream' \in Nat
      /\ stamped' \subseteq RowId /\ deadrows' \in 0..MaxRowid /\ target' \subseteq RowId
  <2>0. seen \subseteq RowId /\ 0 \in 0..MaxRowid /\ 1 \in Nat BY <1>0, ScanAssumption DEF TypeOK
  <2>1. CASE k \in {"seq", "sample"}
    BY <1>0, <2>0, <2>1 DEF NewPass, range, analyze, TypeOK
  <2>2. CASE k = "tidrange"
    <3>1. /\ mintid' \in MinTids /\ maxtid' \in MaxTids /\ target' \subseteq seen
          /\ UNCHANGED <<tbm, stream, stamped, deadrows>>
      BY <2>2 DEF NewPass, analyze
    <3> QED BY <1>0, <2>0, <3>1, ScanAssumption DEF TypeOK
  <2>3. CASE k = "bitmap"
    <3>1. /\ tbm' \in Bitmap /\ target' \subseteq seen
          /\ UNCHANGED <<mintid, maxtid, stream, stamped, deadrows>>
      BY <2>3 DEF NewPass, analyze, range
    <3> QED BY <1>0, <2>0, <3>1 DEF TypeOK
  <2>4. CASE k = "analyze"
    <3>1. /\ stream' = 1 /\ deadrows' = 0 /\ stamped' \subseteq RowId /\ target' \subseteq seen
          /\ UNCHANGED <<mintid, maxtid, tbm>>
      BY <2>4 DEF NewPass, range, relation_size
    <3> QED BY <1>0, <2>0, <3>1 DEF TypeOK
  <2> QED BY <2>1, <2>2, <2>3, <2>4 DEF Kinds
<1>4. TypeOK'
  <2>1. passes' \in 0..MaxPasses /\ 0 \in 0..MaxRowid /\ 0 \in 0..TIDS_PER_BLOCK
    BY <1>0, <1>1, ScanAssumption, TidAssumption DEF TypeOK
  <2>2. <<>> \in Seq(RowId) OBVIOUS
  <2>3. /\ rows' \subseteq RowId /\ rows_loaded' \in BOOLEAN /\ sample_block_consumed' \in BOOLEAN
        /\ bitmap_blockno' \in Block \cup {0} /\ bitmap_offsets' \subseteq InPage
        /\ bitmap_offset_pos' \in 0..TIDS_PER_BLOCK
    BY <1>0, <1>2, <2>1 DEF TypeOK
  <2> QED BY <1>0, <1>1, <1>3, <2>1, <2>2, <2>3 DEF TypeOK
<1>5. LoadInv' BY <1>0, <1>1, <1>2 DEF LoadInv, Kinds
<1>6. Range(got') = {} BY <1>1 DEF Range
<1>7. OrderInv' BY <1>1 DEF OrderInv
<1>8. WalkInv'
  <2>1. SUFFICES ASSUME k = "seq" \/ (k = "tidrange" /\ RowBounds)
                 PROVE  target' = IF k = "seq" THEN seen ELSE InRange' \cap seen
    <3>1. \A r \in target' : ~(r <= 0) BY <1>3, ScanAssumption DEF RowId
    <3>2. Range(got') = Upto(target)' BY <1>1, <1>6, <3>1 DEF Upto
    <3> QED BY <1>1, <2>1, <3>2 DEF WalkInv
  <2>2. CASE k = "seq" BY <2>2 DEF NewPass
  <2>3. CASE k = "tidrange" /\ RowBounds
    <3>1. /\ mintid' \in MinTids /\ maxtid' \in MaxTids
          /\ target' = {r \in seen : /\ TidLE(mintid', rowid_to_tid(r))
                                     /\ TidLE(rowid_to_tid(r), maxtid')}
      BY <2>3 DEF NewPass
    <3>2. InRange' = {r \in RowId : ~(r < tid_to_rowid(mintid')) /\ ~(r > tid_to_rowid(maxtid'))}
      BY DEF InRange, tid_to_rowid
    <3>3. \A r \in RowId : /\ TidLE(mintid', rowid_to_tid(r)) <=> ~(r < tid_to_rowid(mintid'))
                           /\ TidLE(rowid_to_tid(r), maxtid') <=> ~(r > tid_to_rowid(maxtid'))
      BY <2>3, <3>1, BoundsAre
    <3>4. seen \subseteq RowId BY <1>0 DEF TypeOK
    <3> QED BY <2>3, <3>1, <3>2, <3>3, <3>4
  <2> QED BY <2>1, <2>2, <2>3
<1>9. SampleInv'
  <2>1. SUFFICES ASSUME k = "sample" PROVE SampleInv' BY <1>1 DEF SampleInv
  <2>2. target' = seen BY <2>1 DEF NewPass
  <2> QED BY <1>1, <1>2, <1>6, <2>1, <2>2 DEF SampleInv
<1>10. AnalyzeInv'
  <2>1. SUFFICES ASSUME k = "analyze" PROVE AnalyzeInv' BY <1>1 DEF AnalyzeInv
  <2>2. target' = seen \ stamped' /\ stream' = 1 /\ deadrows' = 0
    BY <2>1 DEF NewPass, relation_size
  <2> QED BY <1>1, <2>2 DEF AnalyzeInv
<1>11. BitmapInv'
  <2>1. SUFFICES ASSUME k = "bitmap" PROVE BitmapInv' BY <1>1 DEF BitmapInv
  <2>2. target' = Ahead'
    <3>1. target' = {r \in seen : \E p \in tbm' :
                            /\ p.blk = rowid_to_tid(r).blk
                            /\ p.lossy \/ rowid_to_tid(r).off \in p.offs}
      BY <2>1 DEF NewPass
    <3>2. Ahead' = UNION {{r \in seen : /\ p.blk = rowid_to_tid(r).blk
                                        /\ p.lossy \/ rowid_to_tid(r).off \in p.offs} : p \in tbm'}
      BY <1>1 DEF Ahead, OfPage, rowid_to_tid
    <3> QED BY <3>1, <3>2
  <2>3. ASSUME "bitmap" \notin EarlyRescans PROVE OnPage' = {}
    <3>1. Undrained' = {}
      <4>1. CASE bitmap_offsets' = {} BY <4>1 DEF Undrained
      <4>2. CASE /\ kind = "bitmap" /\ ended
                 /\ UNCHANGED <<bitmap_offsets, bitmap_offset_pos>>
        <5>1. bitmap_offset_pos' = TIDS_PER_BLOCK BY <1>0, <4>2 DEF BitmapInv
        <5>2. bitmap_offsets' \subseteq InPage BY <1>4 DEF TypeOK
        <5>3. \A o \in InPage : ~(o > TIDS_PER_BLOCK) BY TidAssumption DEF InPage
        <5> QED BY <5>1, <5>2, <5>3 DEF Undrained
      <4> QED BY <1>2, <2>1, <2>3, <4>1, <4>2
    <3> QED BY <3>1 DEF OnPage, Fetched
  <2> QED BY <1>1, <1>6, <2>2, <2>3 DEF BitmapInv
<1> QED BY <1>4, <1>5, <1>7, <1>8, <1>9, <1>10, <1>11 DEF ScanInv

\* The end of a scan keeps it.
LEMMA ScanEnds ==
    ASSUME ScanInv, scan_end
    PROVE  ScanInv'
<1>0. TypeOK BY DEF ScanInv
<1>1. /\ kind' = "none" /\ rows' = {} /\ rows_loaded' = FALSE /\ pos' = 0
      /\ sample_block_consumed' = FALSE
      /\ bitmap_blockno' = 0 /\ bitmap_offsets' = {} /\ bitmap_offset_pos' = 0
      /\ haveblock' = FALSE /\ stream' = 0 /\ stamped' = {} /\ deadrows' = 0
      /\ target' = {} /\ got' = <<>> /\ ended' = FALSE
      /\ UNCHANGED <<seen, unseen, passes, mintid, maxtid, tbm>>
  BY DEF scan_end, NewCursor, file, range
<1>2. TypeOK'
  <2>1. 0 \in 0..MaxRowid /\ 0 \in 0..TIDS_PER_BLOCK /\ <<>> \in Seq(RowId)
    BY ScanAssumption, TidAssumption
  <2> QED BY <1>0, <1>1, <2>1 DEF TypeOK
<1>3. OrderInv' /\ LoadInv' BY <1>1 DEF OrderInv, LoadInv
<1>4. WalkInv' /\ SampleInv' /\ AnalyzeInv' /\ BitmapInv'
  BY <1>1 DEF WalkInv, SampleInv, AnalyzeInv, BitmapInv
<1> QED BY <1>2, <1>3, <1>4 DEF ScanInv

-----------------------------------------------------------------------------
(* Bitmap scans. *)

\* The rows fetched from a block are rows the snapshot sees, of that block.
LEMMA FetchedRows ==
    ASSUME TypeOK, NEW b \in Nat, NEW O \in SUBSET InPage, NEW o \in Fetched(b, O)
    PROVE  LET r == tid_to_rowid([blk |-> b, off |-> o])
           IN  /\ r \in seen /\ r \in RowId /\ r = b * TIDS_PER_BLOCK + o
               /\ rowid_to_tid(r).blk = b /\ rowid_to_tid(r).off = o
<1> DEFINE r == tid_to_rowid([blk |-> b, off |-> o])
<1>1. o \in InPage /\ r \in seen BY DEF Fetched
<1>2. r \in RowId BY <1>1 DEF TypeOK
<1>3. r = b * TIDS_PER_BLOCK + o BY DEF tid_to_rowid
<1> HIDE DEF r
<1>4. rowid_to_tid(r).blk = b /\ rowid_to_tid(r).off = o BY <1>1, <1>2, <1>3, TidOf
<1> QED BY <1>1, <1>2, <1>3, <1>4 DEF r

\* What is fetched from a page of the bitmap are its rows.
LEMMA PageRows ==
    ASSUME TypeOK, LoadInv, NEW p \in Page
    PROVE  /\ p.blk \in Block /\ p.blk \in Nat /\ PageOffsets(p) \in SUBSET InPage
           /\ OfPage(p) = {tid_to_rowid([blk |-> p.blk, off |-> o]) :
                               o \in Fetched(p.blk, PageOffsets(p))}
<1> DEFINE row(o) == tid_to_rowid([blk |-> p.blk, off |-> o])
           F == Fetched(p.blk, PageOffsets(p))
<1>1. p.blk \in Block /\ p.lossy \in BOOLEAN /\ p.offs \subseteq InPage BY DEF Page
<1>2. p.blk \in Nat BY <1>1, RowTid DEF Block
<1>3. seen \subseteq RowsNow(TRUE) /\ RowsNow(TRUE) \subseteq RowId
  BY DEF RowsNow, LoadInv, TypeOK
<1>4. PageOffsets(p) \in SUBSET InPage BY <1>1, <1>3, RowTid DEF PageOffsets
<1>5. ASSUME NEW o \in F PROVE row(o) \in OfPage(p)
  <2>1. /\ row(o) \in seen /\ rowid_to_tid(row(o)).blk = p.blk
        /\ rowid_to_tid(row(o)).off = o
    BY <1>2, <1>4, FetchedRows
  <2>2. o \in PageOffsets(p) BY DEF Fetched
  <2> QED BY <1>1, <2>1, <2>2 DEF OfPage, PageOffsets
<1>6. ASSUME NEW r \in OfPage(p)
      PROVE  rowid_to_tid(r).off \in F /\ row(rowid_to_tid(r).off) = r
  <2>1. /\ r \in seen /\ r \in RowId /\ p.blk = rowid_to_tid(r).blk
        /\ p.lossy \/ rowid_to_tid(r).off \in p.offs
    BY DEF OfPage, TypeOK
  <2>2. rowid_to_tid(r).off \in PageOffsets(p) BY <1>1, <1>3, <2>1 DEF PageOffsets
  <2>3. row(rowid_to_tid(r).off) = r BY <2>1, RowTid DEF tid_to_rowid
  <2> QED BY <2>1, <2>2, <2>3 DEF Fetched
<1> HIDE DEF F, row
<1>7. OfPage(p) = {row(o) : o \in F} BY <1>5, <1>6
<1> QED BY <1>1, <1>2, <1>4, <1>7 DEF F, row

\* Returning the first of the rows a bitmap scan has left keeps its invariants.
LEMMA BitmapReturns ==
    ASSUME ScanInv, kind = "bitmap", UNCHANGED <<kind, target, ended>>, ~ended,
           NEW r \in RowId, got' = Append(got, r),
           OnPage \cup Ahead = {r} \cup OnPage' \cup Ahead',
           "bitmap" \notin EarlyRescans => /\ \A s \in OnPage' \cup Ahead' : r < s
                                          /\ \A s \in OnPage', q \in Ahead' : s < q
    PROVE  OrderInv' /\ BitmapInv' /\ got' \in Seq(RowId)
<1>0. got \in Seq(RowId) /\ OrderInv /\ BitmapInv BY DEF ScanInv, TypeOK
<1>1. got' \in Seq(RowId) /\ Range(got') = Range(got) \cup {r} BY <1>0, Returned
<1>2. target' \subseteq Range(got') \cup OnPage' \cup Ahead'
  <2>1. target \subseteq Range(got) \cup OnPage \cup Ahead BY <1>0 DEF BitmapInv
  <2> QED BY <1>1, <2>1
<1>3. ASSUME "bitmap" \notin EarlyRescans
      PROVE  /\ Range(got') \cup OnPage' \cup Ahead' \subseteq target'
             /\ \A g \in Range(got'), s \in OnPage' \cup Ahead' : g < s
             /\ \A i, j \in DOMAIN got' : i < j => got'[i] < got'[j]
  <2>1. /\ Range(got) \cup OnPage \cup Ahead \subseteq target
        /\ \A g \in Range(got), s \in OnPage \cup Ahead : g < s
        /\ \A i, j \in DOMAIN got : i < j => got[i] < got[j]
    BY <1>0, <1>3 DEF BitmapInv, OrderInv
  <2>2. r \in OnPage \cup Ahead /\ OnPage' \cup Ahead' \subseteq OnPage \cup Ahead OBVIOUS
  <2>3. Range(got') \cup OnPage' \cup Ahead' \subseteq target' BY <1>1, <2>1, <2>2
  <2>4. \A g \in Range(got'), s \in OnPage' \cup Ahead' : g < s BY <1>1, <1>3, <2>1, <2>2
  <2>5. \A g \in Range(got) : g < r BY <2>1, <2>2
  <2>6. \A i, j \in DOMAIN got' : i < j => got'[i] < got'[j] BY <1>0, <2>1, <2>5, Returned
  <2> QED BY <2>3, <2>4, <2>6
<1>4. OrderInv' BY <1>3 DEF OrderInv
<1>5. BitmapInv' BY <1>2, <1>3 DEF BitmapInv
<1> QED BY <1>1, <1>4, <1>5

\* Bitmap scans keep the invariant.
LEMMA BitmapSteps ==
    ASSUME ScanInv, scan_bitmap_next_tuple
    PROVE  ScanInv'
<1> DEFINE F == Fetched(bitmap_blockno, Undrained)
           row(b, o) == tid_to_rowid([blk |-> b, off |-> o])
<1>0. TypeOK /\ OrderInv /\ LoadInv /\ BitmapInv BY DEF ScanInv
<1>1. /\ kind = "bitmap" /\ ~ended
      /\ UNCHANGED <<seen, unseen, kind, passes, pos, sample_block_consumed, haveblock, mintid,
                     maxtid, stream, stamped, deadrows, target>>
  BY DEF scan_bitmap_next_tuple, file, range, analyze
<1>2. WalkInv' /\ SampleInv' /\ AnalyzeInv' BY <1>1 DEF WalkInv, SampleInv, AnalyzeInv
<1>3. /\ tbm \subseteq Page /\ \A p, q \in tbm : p.blk = q.blk => p = q
      /\ \A B \in SUBSET tbm : B \in Bitmap
  BY <1>0 DEF TypeOK, Bitmap
<1>4. /\ bitmap_blockno \in Nat /\ Undrained \in SUBSET InPage
      /\ \A o \in InPage : o \in Nat /\ o \in 0..TIDS_PER_BLOCK
      /\ bitmap_offset_pos \in Nat
  <2>1. bitmap_blockno \in Nat BY <1>0, RowTid DEF TypeOK, Block
  <2>2. Undrained \in SUBSET InPage BY <1>0 DEF TypeOK, Undrained
  <2>3. TIDS_PER_BLOCK \in Nat BY TidAssumption
  <2> QED BY <1>0, <2>1, <2>2, <2>3 DEF TypeOK, InPage
<1>5. \A b \in Nat : \A O \in SUBSET InPage : \A o \in Fetched(b, O) :
          /\ o \in InPage /\ row(b, o) \in seen /\ row(b, o) \in RowId
          /\ row(b, o) = b * TIDS_PER_BLOCK + o /\ rowid_to_tid(row(b, o)).blk = b
  <2>1. \A b \in Nat : \A O \in SUBSET InPage : \A o \in Fetched(b, O) : o \in InPage BY DEF Fetched
  <2> QED BY <1>0, <2>1, FetchedRows
<1>6. \A p \in tbm : /\ p.blk \in Nat /\ p.blk \in Block /\ PageOffsets(p) \in SUBSET InPage
                     /\ OfPage(p) = {row(p.blk, o) : o \in Fetched(p.blk, PageOffsets(p))}
  BY <1>0, <1>3, PageRows
<1>7. CASE \E o \in Least(F) :
             /\ bitmap_offset_pos' = o /\ got' = Append(got, row(bitmap_blockno, o))
             /\ UNCHANGED <<loaded, tbm, bitmap_blockno, bitmap_offsets, ended>>
  <2>1. PICK o \in F :
             /\ \A u \in F : o <= u
             /\ bitmap_offset_pos' = o /\ got' = Append(got, row(bitmap_blockno, o))
             /\ UNCHANGED <<rows, rows_loaded, tbm, bitmap_blockno, bitmap_offsets, ended>>
    BY <1>7 DEF Least, loaded
  <2> DEFINE b == bitmap_blockno
             r == row(b, o)
  <2>2. \A u \in F : /\ u \in InPage /\ u \in Nat /\ row(b, u) \in RowId
                     /\ row(b, u) = b * TIDS_PER_BLOCK + u
    BY <1>4, <1>5
  <2>3. Fetched(b, Undrained)' = {u \in F : u > o}
    <3>1. o \in Undrained /\ o \in Nat BY <2>2 DEF Fetched
    <3>2. o > bitmap_offset_pos BY <3>1 DEF Undrained
    <3>3. \A u \in bitmap_offsets : u \in Nat BY <1>0, <1>4 DEF TypeOK
    <3>4. \A u \in bitmap_offsets : u > o => u > bitmap_offset_pos BY <1>4, <3>1, <3>2, <3>3
    <3>5. Undrained' = {u \in Undrained : u > o} BY <2>1, <3>4 DEF Undrained
    <3> QED BY <1>1, <2>1, <3>5 DEF Fetched, tid_to_rowid
  <2>4. OnPage' = {row(b, u) : u \in {v \in F : v > o}} /\ OnPage = {row(b, u) : u \in F}
    BY <2>1, <2>3 DEF OnPage, tid_to_rowid
  <2>5. Ahead' = Ahead BY <1>1, <2>1 DEF Ahead, OfPage, rowid_to_tid
  <2>6. \A u \in F : u = o \/ u > o
    <3>1. o \in Nat /\ \A u \in F : u \in Nat /\ o <= u BY <2>1, <2>2
    <3> HIDE DEF F
    <3> QED BY <3>1
  <2>7. OnPage = {r} \cup OnPage' BY <2>1, <2>4, <2>6
  <2>8. b * TIDS_PER_BLOCK \in Nat BY <1>4, TidAssumption
  <2>9. \A u \in F : u > o => r < row(b, u)
    <3> SUFFICES ASSUME NEW u \in F, u > o PROVE r < row(b, u) OBVIOUS
    <3>1. r = b * TIDS_PER_BLOCK + o /\ row(b, u) = b * TIDS_PER_BLOCK + u BY <2>2
    <3> DEFINE x == b * TIDS_PER_BLOCK
    <3>2. x \in Nat /\ o \in Nat /\ u \in Nat BY <2>2, <2>8
    <3> HIDE DEF x
    <3>3. x + o < x + u BY <3>2
    <3> QED BY <3>1, <3>3 DEF x
  <2>10. \A s \in OnPage' : r < s BY <2>4, <2>9
  <2>11. r \in RowId /\ r \in OnPage BY <2>2, <2>4
  <2>12. ASSUME "bitmap" \notin EarlyRescans
         PROVE  /\ \A s \in OnPage' \cup Ahead' : r < s
                /\ \A s \in OnPage', q \in Ahead' : s < q
    <3>1. \A s \in OnPage, q \in Ahead : s < q BY <1>0, <1>1, <2>12 DEF BitmapInv
    <3> QED BY <2>5, <2>7, <2>10, <2>11, <3>1
  <2>13. OrderInv' /\ BitmapInv' /\ got' \in Seq(RowId)
    <3>1. OnPage \cup Ahead = {r} \cup OnPage' \cup Ahead' BY <2>5, <2>7
    <3> QED BY <1>1, <2>1, <2>11, <2>12, <3>1, BitmapReturns
  <2>14. TypeOK' BY <1>0, <1>1, <1>4, <2>1, <2>2, <2>13 DEF TypeOK
  <2>15. LoadInv' BY <1>0, <1>1, <2>1 DEF LoadInv
  <2> QED BY <1>2, <2>13, <2>14, <2>15 DEF ScanInv
<1>8. CASE \E p \in tbm : \E o \in Least(Fetched(p.blk, PageOffsets(p))) :
             /\ F = {}
             /\ \A q \in tbm : q.blk < p.blk => Fetched(q.blk, PageOffsets(q)) = {}
             /\ tbm' = {q \in tbm : q.blk > p.blk}
             /\ ensure_rows_loaded(\E q \in tbm : q.blk <= p.blk /\ q.lossy)
             /\ bitmap_blockno' = p.blk /\ bitmap_offsets' = PageOffsets(p)
             /\ bitmap_offset_pos' = o
             /\ got' = Append(got, row(p.blk, o))
             /\ ended' = ended
  <2>0. PICK p \in tbm : \E o \in Least(Fetched(p.blk, PageOffsets(p))) :
             /\ F = {}
             /\ \A q \in tbm : q.blk < p.blk => Fetched(q.blk, PageOffsets(q)) = {}
             /\ tbm' = {q \in tbm : q.blk > p.blk}
             /\ ensure_rows_loaded(\E q \in tbm : q.blk <= p.blk /\ q.lossy)
             /\ bitmap_blockno' = p.blk /\ bitmap_offsets' = PageOffsets(p)
             /\ bitmap_offset_pos' = o
             /\ got' = Append(got, row(p.blk, o))
             /\ ended' = ended
    BY <1>8
  <2>1. PICK o \in Fetched(p.blk, PageOffsets(p)) :
             /\ \A u \in Fetched(p.blk, PageOffsets(p)) : o <= u
             /\ F = {}
             /\ \A q \in tbm : q.blk < p.blk => Fetched(q.blk, PageOffsets(q)) = {}
             /\ tbm' = {q \in tbm : q.blk > p.blk}
             /\ ensure_rows_loaded(\E q \in tbm : q.blk <= p.blk /\ q.lossy)
             /\ bitmap_blockno' = p.blk /\ bitmap_offsets' = PageOffsets(p)
             /\ bitmap_offset_pos' = o
             /\ got' = Append(got, row(p.blk, o))
             /\ ended' = ended
    BY <2>0 DEF Least
  <2> DEFINE b == p.blk
             G == Fetched(b, PageOffsets(p))
             r == row(b, o)
  <2>2. b \in Nat /\ b \in Block /\ PageOffsets(p) \in SUBSET InPage /\ OfPage(p) = {row(b, u) : u \in G}
    BY <1>6
  <2>3. \A u \in G : /\ u \in InPage /\ u \in Nat /\ row(b, u) \in RowId
                     /\ row(b, u) = b * TIDS_PER_BLOCK + u
    BY <1>4, <1>5, <2>2
  <2>4. Fetched(bitmap_blockno, Undrained)' = {u \in G : u > o}
    <3>1. Undrained' = {u \in PageOffsets(p) : u > o} BY <2>1 DEF Undrained
    <3>2. Fetched(bitmap_blockno, Undrained)'
          = {u \in Undrained' : tid_to_rowid([blk |-> b, off |-> u]) \in seen}
      BY <1>1, <2>1 DEF Fetched, tid_to_rowid
    <3>3. G = {u \in PageOffsets(p) : tid_to_rowid([blk |-> b, off |-> u]) \in seen} BY DEF Fetched
    <3> QED BY <3>1, <3>2, <3>3
  <2>5. OnPage' = {row(b, u) : u \in {v \in G : v > o}}
    BY <2>1, <2>4 DEF OnPage, tid_to_rowid
  <2>6. OnPage = {} BY <2>1 DEF OnPage
  <2>7. \A u \in G : u = o \/ u > o
    <3>1. o \in Nat /\ \A u \in G : u \in Nat /\ o <= u BY <2>1, <2>3
    <3> HIDE DEF G
    <3> QED BY <3>1
  <2>8. OfPage(p) = {r} \cup OnPage' BY <2>1, <2>2, <2>5, <2>7
  <2>9. Ahead' = UNION {OfPage(q) : q \in tbm'} BY <1>1 DEF Ahead, OfPage, rowid_to_tid
  <2>10. Ahead = OfPage(p) \cup Ahead'
    <3>1. \A q \in tbm : q.blk < b \/ q.blk = b \/ q.blk > b BY <1>6, <2>2
    <3>2. \A q \in tbm : q.blk < b => OfPage(q) = {} BY <1>6, <2>1
    <3>3. \A q \in tbm : q.blk = b => q = p BY <1>3
    <3> QED BY <2>1, <2>9, <3>1, <3>2, <3>3 DEF Ahead
  <2>11. \A u \in G, s \in Ahead' : row(b, u) < s
    <3> SUFFICES ASSUME NEW u \in G, NEW s \in Ahead' PROVE row(b, u) < s OBVIOUS
    <3>1. PICK q \in tbm : q.blk > b /\ s \in OfPage(q) BY <2>1, <2>9
    <3>2. q.blk \in Nat /\ s \in RowId /\ rowid_to_tid(s).blk = q.blk
      BY <1>0, <1>6, <3>1 DEF OfPage, TypeOK
    <3>3. rowid_to_tid(s).off \in InPage /\ s = q.blk * TIDS_PER_BLOCK + rowid_to_tid(s).off
      BY <3>2, RowTid
    <3>4. b < q.blk BY <2>2, <3>1, <3>2
    <3>5. b * TIDS_PER_BLOCK + u < q.blk * TIDS_PER_BLOCK + rowid_to_tid(s).off
      BY <2>2, <2>3, <3>2, <3>3, <3>4, BlockOrder
    <3> QED BY <2>3, <3>3, <3>5
  <2>12. \A u \in G : u > o => r < row(b, u)
    <3> SUFFICES ASSUME NEW u \in G, u > o PROVE r < row(b, u) OBVIOUS
    <3>1. r = b * TIDS_PER_BLOCK + o /\ row(b, u) = b * TIDS_PER_BLOCK + u BY <2>3
    <3> DEFINE x == b * TIDS_PER_BLOCK
    <3>a. b * TIDS_PER_BLOCK \in Nat BY <2>2, TidAssumption
    <3>b. o \in Nat /\ u \in Nat BY <2>1, <2>3
    <3>2. x \in Nat /\ o \in Nat /\ u \in Nat BY <3>a, <3>b
    <3> HIDE DEF x
    <3>3. x + o < x + u BY <3>2
    <3> QED BY <3>1, <3>3 DEF x
  <2>13. /\ \A s \in OnPage' \cup Ahead' : r < s
         /\ \A s \in OnPage', q \in Ahead' : s < q
    BY <2>1, <2>5, <2>11, <2>12
  <2>14. OrderInv' /\ BitmapInv' /\ got' \in Seq(RowId)
    <3>1. OnPage \cup Ahead = {r} \cup OnPage' \cup Ahead' BY <2>6, <2>8, <2>10
    <3>2. r \in RowId BY <2>1, <2>3
    <3> QED BY <1>1, <2>1, <2>13, <3>1, <3>2, BitmapReturns
  <2>15. /\ rows' \subseteq RowId /\ rows_loaded' \in BOOLEAN
         /\ rows_loaded' => seen \subseteq rows'
         /\ ~rows_loaded' => rows' = {}
    <3>1. (\E q \in tbm : q.blk <= p.blk /\ q.lossy) \in BOOLEAN OBVIOUS
    <3> QED BY <1>0, <2>1, <3>1, Loads
  <2>16. TypeOK'
    <3>1. tbm' \in Bitmap BY <1>3, <2>1
    <3>2. bitmap_offset_pos' \in 0..TIDS_PER_BLOCK BY <1>4, <2>1, <2>3
    <3> QED BY <1>0, <1>1, <2>1, <2>2, <2>14, <2>15, <3>1, <3>2 DEF TypeOK
  <2>17. LoadInv' BY <1>1, <2>15 DEF LoadInv
  <2> QED BY <1>2, <2>14, <2>16, <2>17 DEF ScanInv
<1>9. CASE /\ F = {}
           /\ \A q \in tbm : Fetched(q.blk, PageOffsets(q)) = {}
           /\ tbm' = {} /\ ended' = TRUE
           /\ ensure_rows_loaded(\E q \in tbm : q.lossy)
           /\ bitmap_offset_pos' = TIDS_PER_BLOCK
           /\ UNCHANGED <<bitmap_blockno, bitmap_offsets, got>>
  <2>1. OnPage = {} /\ Ahead = {} /\ Ahead' = {} BY <1>6, <1>9 DEF OnPage, Ahead
  <2>2. OnPage' = {}
    <3>1. bitmap_offsets' \subseteq InPage BY <1>0, <1>9 DEF TypeOK
    <3>2. \A o \in InPage : ~(o > TIDS_PER_BLOCK) BY TidAssumption DEF InPage
    <3>3. Undrained' = {} BY <1>9, <3>1, <3>2 DEF Undrained
    <3> QED BY <3>3 DEF OnPage, Fetched
  <2>3. BitmapInv' BY <1>0, <1>1, <1>9, <2>1, <2>2 DEF BitmapInv
  <2>4. OrderInv' BY <1>0, <1>1, <1>9 DEF OrderInv
  <2>5. /\ rows' \subseteq RowId /\ rows_loaded' \in BOOLEAN
        /\ rows_loaded' => seen \subseteq rows'
        /\ ~rows_loaded' => rows' = {}
    <3>1. (\E q \in tbm : q.lossy) \in BOOLEAN OBVIOUS
    <3> QED BY <1>0, <1>9, <3>1, Loads
  <2>6. TypeOK'
    <3>1. tbm' \in Bitmap BY <1>3, <1>9
    <3>2. TIDS_PER_BLOCK \in 0..TIDS_PER_BLOCK BY TidAssumption
    <3> QED BY <1>0, <1>1, <1>9, <2>5, <3>1, <3>2 DEF TypeOK
  <2>7. LoadInv' BY <1>1, <2>5 DEF LoadInv
  <2> QED BY <1>2, <2>3, <2>4, <2>6, <2>7 DEF ScanInv
<1> QED BY <1>7, <1>8, <1>9 DEF scan_bitmap_next_tuple

-----------------------------------------------------------------------------
(* The invariant, and what follows from it. *)

LEMMA ScanInitially == Init => ScanInv
<1> SUFFICES ASSUME Init PROVE ScanInv OBVIOUS
<1>1. TypeOK
  <2>1. /\ 0 \in 0..MaxRowid /\ 0 \in 0..MaxPasses /\ 0 \in 0..TIDS_PER_BLOCK
        /\ <<>> \in Seq(RowId) /\ {} \in Bitmap /\ 0 \in Nat
    BY ScanAssumption, TidAssumption DEF Bitmap
  <2>2. NoTid \in TID
    <3>1. 0 \in 0..(Blocks - 1) /\ 0 \in 0..(Offsets - 1) BY TidAssumption
    <3> QED BY <3>1 DEF NoTid, TID
  <2> QED BY <2>1, <2>2 DEF Init, TypeOK
<1>2. OrderInv /\ LoadInv BY DEF Init, OrderInv, LoadInv
<1>3. WalkInv /\ SampleInv /\ AnalyzeInv /\ BitmapInv
  BY DEF Init, WalkInv, SampleInv, AnalyzeInv, BitmapInv
<1> QED BY <1>1, <1>2, <1>3 DEF ScanInv

LEMMA ScanStep == ScanInv /\ [Next]_vars => ScanInv'
<1> SUFFICES ASSUME ScanInv, [Next]_vars PROVE ScanInv' OBVIOUS
<1>0. unseen \subseteq RowId \ seen BY DEF ScanInv, TypeOK
<1>1. ASSUME NEW r \in RowId, Appear(r) \/ Vanish(r) PROVE ScanInv'
  <2>1. UNCHANGED <<seen, scan>> /\ unseen' \subseteq RowId \ seen
    BY <1>0, <1>1 DEF Appear, Vanish
  <2> QED BY <2>1, FileSteps
<1>2. ASSUME NEW k \in Kinds, scan_begin(k) PROVE ScanInv'
  <2>1. NewPass(k) /\ kind' = k /\ pos' = 0 /\ UNCHANGED file /\ NewCursor
    BY <1>2 DEF scan_begin, NewCursor
  <2> QED BY <2>1, PassStarts
<1>3. CASE scan_rescan
  <2>1. /\ kind \in Kinds /\ NewPass(kind) /\ kind' = kind /\ pos' = 0 /\ UNCHANGED file
        /\ kind \in Rescans /\ (ended \/ kind \in EarlyRescans)
        /\ UNCHANGED <<loaded, sample_block_consumed, bitmap>>
    BY <1>3, ScanAssumption DEF scan_rescan
  <2> QED BY <2>1, PassStarts
<1>4. CASE UNCHANGED vars
  <2>1. UNCHANGED <<seen, scan>> /\ unseen' = unseen BY <1>4 DEF vars, file, scan
  <2> QED BY <1>0, <2>1, FileSteps
<1> QED BY <1>1, <1>2, <1>3, <1>4, ScanEnds, WalkSteps, SampleSteps, AnalyzeSteps, BitmapSteps DEF Next

LEMMA ScanInvariant == Spec => []ScanInv
<1> QED BY ScanInitially, ScanStep, PTL DEF Spec

\* ScanCursor's variables keep their types: whatever TIDs the executor passes and
\* whenever scans are restarted, the cursor of src/src/tam.rs holds rows of the
\* file and offsets of a block.
THEOREM ScanTypeCorrect == Spec => []TypeOK
<1>1. ScanInv => TypeOK BY DEF ScanInv
<1> QED BY <1>1, ScanInvariant, PTL

\* Every scan that reaches its end has returned each row it ought to, although
\* the cursor's rows are loaded once and kept across rescans while other
\* backends write: if TABLESAMPLE scans are not rescanned (scan_rescan leaves
\* sample_block_consumed set) and the bounds of a TID range are made of rows.
THEOREM ScansComplete == "sample" \notin Rescans /\ RowBounds => (Spec => []EndsComplete)
<1> SUFFICES ASSUME "sample" \notin Rescans /\ RowBounds PROVE Spec => []EndsComplete OBVIOUS
<1>1. ASSUME ScanInv, ended PROVE target \subseteq Range(got)
  <2>0. TypeOK /\ LoadInv /\ WalkInv /\ SampleInv /\ AnalyzeInv /\ BitmapInv BY <1>1 DEF ScanInv
  <2>1. \A r \in RowId : r <= MaxRowid BY ScanAssumption DEF RowId
  <2>2. kind \in Kinds BY <1>1, <2>0 DEF LoadInv, TypeOK
  <2>3. CASE kind \in {"seq", "tidrange"}
    <3>1. Range(got) = Upto(target) /\ pos = MaxRowid BY <1>1, <2>0, <2>3 DEF WalkInv
    <3>2. target \subseteq RowId BY <2>0 DEF TypeOK
    <3> QED BY <2>1, <3>1, <3>2 DEF Upto
  <2>4. CASE kind = "sample" BY <1>1, <2>0, <2>4 DEF SampleInv
  <2>5. CASE kind = "analyze"
    <3>1. stream = 0 /\ ~haveblock /\ target = seen \ stamped BY <1>1, <2>0, <2>5 DEF AnalyzeInv
    <3>2. Range(got) = Upto(rows \ stamped) /\ pos = MaxRowid /\ rows_loaded
      BY <2>0, <2>5, <3>1 DEF AnalyzeInv
    <3>3. seen \subseteq rows /\ rows \subseteq RowId BY <2>0, <3>2 DEF LoadInv, TypeOK
    <3> QED BY <2>1, <3>1, <3>2, <3>3 DEF Upto
  <2>6. CASE kind = "bitmap"
    <3>1. /\ target \subseteq Range(got) \cup OnPage \cup Ahead
          /\ tbm = {} /\ bitmap_offset_pos = TIDS_PER_BLOCK
      BY <1>1, <2>0, <2>6 DEF BitmapInv
    <3>2. \A o \in InPage : ~(o > TIDS_PER_BLOCK) BY TidAssumption DEF InPage
    <3>3. Undrained = {} BY <2>0, <3>1, <3>2 DEF Undrained, TypeOK
    <3>4. OnPage = {} /\ Ahead = {} BY <3>1, <3>3 DEF OnPage, Ahead, Fetched
    <3> QED BY <3>1, <3>4
  <2> QED BY <2>2, <2>3, <2>4, <2>5, <2>6 DEF Kinds
<1>2. ScanInv => EndsComplete BY <1>1 DEF EndsComplete
<1> QED BY <1>2, ScanInvariant, PTL

\* Every scan returns only rows it ought to, in order and each once: if bitmap
\* scans are not rescanned before their end (scan_rescan leaves the current
\* page's offsets) and the bounds of a TID range are made of rows.
THEOREM ScansOrdered == "bitmap" \notin EarlyRescans /\ RowBounds => (Spec => []ReturnsInOrder)
<1> SUFFICES ASSUME "bitmap" \notin EarlyRescans /\ RowBounds PROVE Spec => []ReturnsInOrder OBVIOUS
<1>1. ASSUME ScanInv
      PROVE  Range(got) \subseteq IF kind = "analyze" THEN rows \ stamped ELSE target
  <2>0. TypeOK /\ LoadInv /\ WalkInv /\ SampleInv /\ AnalyzeInv /\ BitmapInv BY <1>1 DEF ScanInv
  <2>1. Range(<<>>) = {} BY DEF Range
  <2>2. CASE kind = "none" BY <2>0, <2>1, <2>2 DEF LoadInv
  <2>3. CASE kind \in {"seq", "tidrange"} BY <2>0, <2>3 DEF WalkInv, Upto
  <2>4. CASE kind = "sample" BY <2>0, <2>4 DEF SampleInv
  <2>5. CASE kind = "bitmap" BY <2>0, <2>5 DEF BitmapInv
  <2>6. CASE kind = "analyze" BY <2>0, <2>1, <2>6 DEF AnalyzeInv, Upto
  <2> QED BY <2>0, <2>2, <2>3, <2>4, <2>5, <2>6 DEF TypeOK, Kinds
<1>2. ScanInv => \A i, j \in DOMAIN got : i < j => got[i] < got[j] BY DEF ScanInv, OrderInv
<1>3. ScanInv => ReturnsInOrder BY <1>1, <1>2 DEF ReturnsInOrder
<1> QED BY <1>3, ScanInvariant, PTL

\* ANALYZE counts each row it has loaded once, as live or as dead, however often
\* the descriptor is restarted: relation_size reports the one block that
\* scan_analyze_next_block yields.
THEOREM AnalyzeOnce == Spec => []AnalyzeCountsOnce
<1>1. ASSUME ScanInv, kind = "analyze", ended PROVE Len(got) + deadrows = Cardinality(rows)
  <2> DEFINE live == {q \in rows \ stamped : q <= pos}
             dead == {q \in rows \cap stamped : q <= pos}
  <2>0. TypeOK /\ AnalyzeInv BY <1>1 DEF ScanInv
  <2>1. stream = 0 /\ ~haveblock BY <1>1, <2>0 DEF AnalyzeInv
  <2>2. Len(got) = Cardinality(live) /\ deadrows = Cardinality(dead) /\ pos = MaxRowid
    BY <1>1, <2>0, <2>1 DEF AnalyzeInv, Upto
  <2>3. MaxRowid \in Nat /\ RowId = 1..MaxRowid /\ rows \subseteq RowId
    BY <2>0, ScanAssumption DEF TypeOK, RowId
  <2>4. \A q \in rows : q <= pos BY <2>2, <2>3
  <2>5. live = rows \ stamped /\ dead = rows \cap stamped BY <2>4
  <2>6. rows = live \cup dead /\ live \cap dead = {} BY <2>5
  <2>7. IsFiniteSet(RowId) BY <2>3, FS_Interval
  <2>8. IsFiniteSet(live) /\ IsFiniteSet(dead) BY <2>3, <2>7, FS_Subset
  <2>9. Cardinality(live) \in Nat /\ Cardinality(dead) \in Nat BY <2>8, FS_CardinalityType
  <2>10. Cardinality(live \cup dead) = Cardinality(live) + Cardinality(dead) - Cardinality(live \cap dead)
    BY <2>8, FS_Union
  <2> HIDE DEF live, dead
  <2>11. Cardinality(live \cap dead) = 0 /\ Cardinality(rows) = Cardinality(live \cup dead)
    BY <2>6, FS_EmptySet
  <2> QED BY <2>2, <2>9, <2>10, <2>11
<1>2. ScanInv => AnalyzeCountsOnce BY <1>1 DEF AnalyzeCountsOnce
<1> QED BY <1>2, ScanInvariant, PTL
=============================================================================
