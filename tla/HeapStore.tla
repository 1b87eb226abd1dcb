------------------------------ MODULE HeapStore ------------------------------
(***************************************************************************)
(* One relation of the sqlite_heap table access method, shared by several  *)
(* Postgres backends (src/src/sqlite.rs, tam.rs, visibility.rs).           *)
(*                                                                         *)
(* The relation is one SQLite file.  A backend's first write opens a       *)
(* SQLite transaction (begin_if_needed), which holds the file's only write *)
(* lock until it is committed - in Postgres's PreCommit callback, before   *)
(* the commit record - or rolled back in the Abort callback.  Readers see  *)
(* the last committed file, or their own SQLite transaction.  Row versions *)
(* carry Postgres xids, and visibility.rs decides which a snapshot sees.   *)
(*                                                                         *)
(* External, modelled from how the code uses it: Postgres's xid counter,   *)
(* commit log, proc array, snapshots and horizon; SQLite's single-writer   *)
(* transactions and its choice of rowids.                                  *)
(***************************************************************************)
EXTENDS Visibility, FiniteSets

CONSTANTS
    Backends,
    MaxXid,         \* bound: xids handed out
    MaxRowid,       \* bound: rowids of the file
    MaxCid,         \* bound: commands of one transaction
    MaxBatch,       \* bound: tuples of one multi_insert
    FailureWindow,  \* may a transaction fail after SQLite's COMMIT and before
                    \* Postgres's commit record?
    XidReuse,       \* may a crash make Postgres hand out again an xid that the
                    \* SQLite file knows?
    Vacuums,        \* does VACUUM run?
    Truncates       \* does TRUNCATE run?

ASSUME BackendsAssumption == IsFiniteSet(Backends)
ASSUME BoundsAssumption ==
    /\ MaxXid \in Nat \ {0} /\ MaxRowid \in Nat \ {0}
    /\ MaxCid \in Nat /\ MaxBatch \in Nat \ {0}
ASSUME SwitchesAssumption == {FailureWindow, XidReuse, Vacuums, Truncates} \subseteq BOOLEAN

VARIABLES
    nextXid,    \* the next xid Postgres hands out
    clog,       \* xids with a commit record
    phase,      \* phase[b]: where b's Postgres transaction is
    xid,        \* xid[b]: its xid, 0 while it has none
    cid,        \* cid[b]: its current command id
    snap,       \* snap[b]: the snapshot it holds, NoSnap if none
    in_txn,     \* RelConn.in_txn: b's SQLite transaction is open (and has the
                \* file's write lock)
    local,      \* local[b]: the file as b's open SQLite transaction sees it
    file,       \* the committed SQLite file
    spec,       \* spec[b]: rowid of an undecided speculative insert, else 0
    oldest,     \* oldest[b]: the horizon b's VACUUM has computed, else 0
    excl,       \* excl[b]: b has Postgres's AccessExclusiveLock on the table
    \* What the executor was told, and the table a snapshot stands for: these
    \* two record history for the properties and decide nothing.
    did,        \* did[b]: effects reported to b's transaction
    base        \* base[b]: the committed table when b took its snapshot,
                \* or emptied it

vars == <<nextXid, clog, phase, xid, cid, snap, in_txn, local, file, spec,
          oldest, excl, did, base>>

Xid   == 1..MaxXid
RowId == 1..MaxRowid
Cid   == 0..MaxCid

\* A stored row's MVCC header (StoredHeader); xmin = 0 is an empty slot.
Row   == [xmin: 0..MaxXid, cmin: Cid, xmax: 0..MaxXid, cmax: Cid]
NoRow == [xmin |-> 0, cmin |-> 0, xmax |-> 0, cmax |-> 0]

\* The two SQLite tables: storage, and meta's last_vacuum_xmin.
Content == [rows: [RowId -> Row], last_vacuum_xmin: 0..(MaxXid + 1)]
Empty   == [rows |-> [r \in RowId |-> NoRow], last_vacuum_xmin |-> 0]

Snap   == [xmin: 0..(MaxXid + 1), xmax: 0..(MaxXid + 1), xip: SUBSET Xid]
NoSnap == [xmin |-> 0, xmax |-> 0, xip |-> {}]

\* idle; open: running statements; vacuum: running VACUUM; precommit: past the
\* PreCommit callback; recorded: commit record written, still in the proc array.
Phases == {"idle", "open", "vacuum", "precommit", "recorded"}

\* A row version is named by its rowid and by what inserted it: SQLite reuses
\* the rowids of removed rows.
Id == RowId \X Xid \X Cid
NoDid == [ins |-> {}, del |-> {}, clear |-> FALSE]
Did == [ins: SUBSET Id, del: SUBSET (Id \X Cid), clear: BOOLEAN]

TypeOK ==
    /\ nextXid \in 1..(MaxXid + 1)
    /\ clog \in SUBSET Xid
    /\ phase \in [Backends -> Phases]
    /\ xid \in [Backends -> 0..MaxXid]
    /\ cid \in [Backends -> Cid]
    /\ snap \in [Backends -> Snap]
    /\ in_txn \in [Backends -> BOOLEAN]
    /\ local \in [Backends -> Content]
    /\ file \in Content
    /\ spec \in [Backends -> 0..MaxRowid]
    /\ oldest \in [Backends -> 0..(MaxXid + 1)]
    /\ excl \in [Backends -> BOOLEAN]
    /\ did \in [Backends -> Did]
    /\ base \in [Backends -> SUBSET Id]

Init ==
    /\ nextXid = 1
    /\ clog = {}
    /\ phase = [b \in Backends |-> "idle"]
    /\ xid = [b \in Backends |-> 0]
    /\ cid = [b \in Backends |-> 0]
    /\ snap = [b \in Backends |-> NoSnap]
    /\ in_txn = [b \in Backends |-> FALSE]
    /\ local = [b \in Backends |-> Empty]
    /\ file = Empty
    /\ spec = [b \in Backends |-> 0]
    /\ oldest = [b \in Backends |-> 0]
    /\ excl = [b \in Backends |-> FALSE]
    /\ did = [b \in Backends |-> NoDid]
    /\ base = [b \in Backends |-> {}]
-----------------------------------------------------------------------------
(* Postgres, as the code uses it. *)

\* The xids of the proc array.
Running == {xid[b] : b \in Backends} \ {0}

IsLeast(m, S) == m \in S /\ \A n \in S : m <= n

\* GetSnapshotData: the snapshot b takes now, m being the oldest xid running.
\* b's own xid is not listed.
Snapshot(b, m) == [xmin |-> m, xmax |-> nextXid, xip |-> Running \ {xid[b]}]

\* GetOldestNonRemovableTransactionId: no running transaction and no snapshot
\* needs an xid below it.
IsHorizon(o) ==
    IsLeast(o, {nextXid} \cup Running
               \cup {snap[b].xmin : b \in {c \in Backends : snap[c] # NoSnap}})

\* The transactions whose effects a new snapshot may see.
Ended == clog \ Running

IdOf(rows, r) == <<r, rows[r].xmin, rows[r].cmin>>

\* The logical table: inserted by a transaction that ended in commit, and not
\* deleted by one.
Table == {IdOf(file.rows, r) : r \in {q \in RowId :
             file.rows[q].xmin \in Ended /\ file.rows[q].xmax \notin Ended}}
-----------------------------------------------------------------------------
(* SQLite, as the code uses it. *)

\* What a statement of b's connection reads.
Read(b) == IF in_txn[b] THEN local[b] ELSE file

\* A write statement gets the write lock when no other connection has it; the
\* busy handler waits until then (and after busy_timeout the statement fails
\* and the transaction aborts: the action Abort).
CanWrite(b) == \A c \in Backends \ {b} : ~in_txn[c]

\* INTEGER PRIMARY KEY without AUTOINCREMENT: a new row goes one above the
\* largest rowid there is.
IsTop(rows, t) ==
    /\ t # 0 => rows[t].xmin # 0
    /\ \A r \in RowId : r > t => rows[r].xmin = 0

\* begin_if_needed and one write statement that leaves the file as c.
SqliteWrite(b, c) ==
    /\ CanWrite(b)
    /\ in_txn' = [in_txn EXCEPT ![b] = TRUE]
    /\ local' = [local EXCEPT ![b] = c]
    /\ UNCHANGED file

WithRows(c, rows) == [c EXCEPT !.rows = rows]
-----------------------------------------------------------------------------
(* Reading. *)

Visible(b, row) == visible_mvcc(row, {xid[b]} \ {0}, clog, snap[b], cid[b])

\* select_all filtered by row_visible: the rowids a scan of b returns.
Scan(b) == {r \in RowId : Read(b).rows[r].xmin # 0 /\ Visible(b, Read(b).rows[r])}

\* What the scan ought to return: the table its snapshot stands for, with the
\* effects of b's own earlier commands.
Expected(b) ==
    LET own  == {i \in did[b].ins : i[3] < cid[b]}
        gone == {d[1] : d \in {e \in did[b].del : e[2] < cid[b]}}
    IN  ((IF did[b].clear THEN {} ELSE base[b]) \cup own) \ gone
-----------------------------------------------------------------------------
(* A backend's transaction.  Begin is its first access to the relation. *)

Begin(b) ==
    /\ phase[b] = "idle"
    /\ \A c \in Backends : ~excl[c]
    /\ phase' = [phase EXCEPT ![b] = "open"]
    /\ UNCHANGED <<nextXid, clog, xid, cid, snap, in_txn, local, file, spec,
                   oldest, excl, did, base>>

\* A statement starts: read committed takes a snapshot for every statement,
\* repeatable read one for the transaction.
TakeSnapshot(b) ==
    /\ phase[b] = "open" /\ snap[b] = NoSnap
    /\ \E m \in Running \cup {nextXid} :
         /\ IsLeast(m, Running \cup {nextXid})
         /\ snap' = [snap EXCEPT ![b] = Snapshot(b, m)]
    /\ base' = [base EXCEPT ![b] = Table]
    /\ UNCHANGED <<nextXid, clog, phase, xid, cid, in_txn, local, file, spec,
                   oldest, excl, did>>

\* CommandCounterIncrement between two statements.  keep: repeatable read keeps
\* its snapshot; read committed lets go of it.
NextCommand(b, keep) ==
    /\ phase[b] = "open" /\ snap[b] # NoSnap /\ spec[b] = 0
    /\ cid[b] < MaxCid
    /\ cid' = [cid EXCEPT ![b] = cid[b] + 1]
    /\ snap' = [snap EXCEPT ![b] = IF keep THEN @ ELSE NoSnap]
    /\ UNCHANGED <<nextXid, clog, phase, xid, in_txn, local, file, spec,
                   oldest, excl, did, base>>

\* current_xid_u32: the write callbacks call GetCurrentTransactionId before
\* they reach SQLite, so an xid is running while its owner waits for the lock.
AssignXid(b) ==
    /\ phase[b] = "open" /\ snap[b] # NoSnap /\ xid[b] = 0
    /\ nextXid <= MaxXid
    /\ xid' = [xid EXCEPT ![b] = nextXid]
    /\ nextXid' = nextXid + 1
    /\ UNCHANGED <<clog, phase, cid, snap, in_txn, local, file, spec, oldest,
                   excl, did, base>>

\* What every write callback needs: a statement, its xid, no undecided
\* speculative insert.
Writing(b) == phase[b] = "open" /\ snap[b] # NoSnap /\ xid[b] # 0 /\ spec[b] = 0

\* rows with n new versions of b's current command above rowid top.
WithNew(b, rows, top, n) ==
    [r \in RowId |->
        IF r \in (top + 1)..(top + n)
        THEN [xmin |-> xid[b], cmin |-> cid[b], xmax |-> 0, cmax |-> 0]
        ELSE rows[r]]

\* Mutant: the rowid reported is the one before the row's.
NewIdsLate(b, top, n) == {<<r - 1, xid[b], cid[b]>> : r \in (top + 1)..(top + n)}

NewIds(b, top, n) == {<<r, xid[b], cid[b]>> : r \in (top + 1)..(top + n)}

\* UPDATE storage SET xmax, cmax WHERE rowid = r AND xmax = 0.
Stamped(b, rows, r) ==
    IF rows[r].xmin # 0 /\ rows[r].xmax = 0
    THEN [rows EXCEPT ![r].xmax = xid[b], ![r].cmax = cid[b]]
    ELSE rows

\* update_row: stamp the old version and insert the new one, whether or not the
\* stamp found the old one undeleted.
update_row(b, rows, r, top) == WithNew(b, Stamped(b, rows, r), top, 1)

\* What the stamp did, as the executor's result reports it.
StampedIds(b, rows, r) ==
    IF rows[r].xmin # 0 /\ rows[r].xmax = 0
    THEN {<<IdOf(rows, r), cid[b]>>} ELSE {}

\* The callback's answer to the executor: versions inserted, versions stamped.
Report(b, new, gone) ==
    did' = [did EXCEPT ![b] = [ins   |-> did[b].ins \cup new,
                               del   |-> did[b].del \cup gone,
                               clear |-> did[b].clear]]

writeUnchanged == <<nextXid, clog, phase, xid, cid, snap, oldest, excl, base>>

\* tuple_insert (n = 1) and multi_insert.
Insert(b, n) ==
    /\ Writing(b)
    /\ \E top \in 0..(MaxRowid - n) :
         /\ IsTop(Read(b).rows, top)
         /\ SqliteWrite(b, WithRows(Read(b), WithNew(b, Read(b).rows, top, n)))
         /\ Report(b, NewIds(b, top, n), {})
    /\ UNCHANGED <<writeUnchanged, spec>>

\* tuple_insert_speculative: a row like any other, to be confirmed.
InsertSpeculative(b) ==
    /\ Writing(b)
    /\ \E top \in 0..(MaxRowid - 1) :
         /\ IsTop(Read(b).rows, top)
         /\ SqliteWrite(b, WithRows(Read(b), WithNew(b, Read(b).rows, top, 1)))
         /\ Report(b, NewIds(b, top, 1), {})
         /\ spec' = [spec EXCEPT ![b] = top + 1]
    /\ UNCHANGED writeUnchanged

\* tuple_complete_speculative, won: the row stays.
SpeculationWon(b) ==
    /\ spec[b] # 0
    /\ spec' = [spec EXCEPT ![b] = 0]
    /\ UNCHANGED <<writeUnchanged, in_txn, local, file, did>>

\* Mutant: the losing row is not taken away.
SpeculationLostKept(b) ==
    /\ spec[b] # 0
    /\ did' = [did EXCEPT ![b] = [ins   |-> did[b].ins \ {IdOf(Read(b).rows, spec[b])},
                                  del   |-> did[b].del,
                                  clear |-> did[b].clear]]
    /\ spec' = [spec EXCEPT ![b] = 0]
    /\ UNCHANGED <<writeUnchanged, in_txn, local, file>>

\* tuple_complete_speculative, lost: physical_delete takes the row away.
SpeculationLost(b) ==
    /\ spec[b] # 0
    /\ SqliteWrite(b, WithRows(Read(b), [Read(b).rows EXCEPT ![spec[b]] = NoRow]))
    /\ did' = [did EXCEPT ![b] = [ins   |-> did[b].ins \ {IdOf(Read(b).rows, spec[b])},
                                  del   |-> did[b].del,
                                  clear |-> did[b].clear]]
    /\ spec' = [spec EXCEPT ![b] = 0]
    /\ UNCHANGED writeUnchanged

\* tuple_delete of a row the statement's scan returned.  A stamp that finds
\* xmax already set answers TM_Deleted and still opens the SQLite transaction.
Delete(b, r) ==
    /\ Writing(b) /\ r \in Scan(b)
    /\ SqliteWrite(b, WithRows(Read(b), Stamped(b, Read(b).rows, r)))
    /\ Report(b, {}, StampedIds(b, Read(b).rows, r))
    /\ UNCHANGED <<writeUnchanged, spec>>

\* tuple_update: update_row, answered with TM_Ok in any case.
Update(b, r) ==
    /\ Writing(b) /\ r \in Scan(b)
    /\ \E top \in 0..(MaxRowid - 1) :
         /\ IsTop(Read(b).rows, top)
         /\ SqliteWrite(b, WithRows(Read(b), update_row(b, Read(b).rows, r, top)))
         /\ Report(b, NewIds(b, top, 1), StampedIds(b, Read(b).rows, r))
    /\ UNCHANGED <<writeUnchanged, spec>>

\* relation_set_new_filelocator / relation_nontransactional_truncate: reset
\* empties storage, under the AccessExclusiveLock TRUNCATE has taken.
Truncate(b) ==
    /\ Truncates /\ Writing(b)
    /\ \A c \in Backends \ {b} : phase[c] = "idle"
    /\ SqliteWrite(b, WithRows(Read(b), Empty.rows))
    /\ excl' = [excl EXCEPT ![b] = TRUE]
    /\ did' = [did EXCEPT ![b] = [ins |-> {}, del |-> {}, clear |-> TRUE]]
    /\ base' = [base EXCEPT ![b] = Table]
    /\ UNCHANGED <<nextXid, clog, phase, xid, cid, snap, oldest, spec>>
-----------------------------------------------------------------------------
(* VACUUM. *)

\* relation_vacuum computes the horizon; VACUUM's lock excludes another VACUUM
\* and TRUNCATE, and its transaction takes no xid.
VacuumStart(b) ==
    /\ Vacuums /\ phase[b] = "idle"
    /\ \A c \in Backends : ~excl[c] /\ oldest[c] = 0
    /\ \E o \in Xid \cup {MaxXid + 1} :
         IsHorizon(o) /\ oldest' = [oldest EXCEPT ![b] = o]
    /\ phase' = [phase EXCEPT ![b] = "vacuum"]
    /\ UNCHANGED <<nextXid, clog, xid, cid, snap, in_txn, local, file, spec,
                   excl, did, base>>

\* Mutants: the horizon is included; the newest dead version is spared; the
\* test for xmax = 0 is forgotten.
ReapedAtHorizon(rows, o) ==
    [r \in RowId |-> IF rows[r].xmax # 0 /\ rows[r].xmax <= o THEN NoRow ELSE rows[r]]
ReapedShort(rows, o) ==
    [r \in RowId |-> IF rows[r].xmax # 0 /\ rows[r].xmax + 1 < o THEN NoRow ELSE rows[r]]
ReapedLive(rows, o) ==
    [r \in RowId |-> IF rows[r].xmax < o THEN NoRow ELSE rows[r]]

\* DELETE FROM storage WHERE xmax != 0 AND xmax < oldest.
Reaped(rows, o) ==
    [r \in RowId |-> IF rows[r].xmax # 0 /\ rows[r].xmax < o THEN NoRow ELSE rows[r]]

\* vacuum_dead: nothing to do if a VACUUM already reached this horizon; else
\* delete and advance the watermark, in one SQLite transaction.
VacuumDead(b) ==
    /\ phase[b] = "vacuum" /\ ~in_txn[b]
    /\ ~(oldest[b] <= Read(b).last_vacuum_xmin)
    /\ SqliteWrite(b, [rows |-> Reaped(Read(b).rows, oldest[b]),
                       last_vacuum_xmin |-> oldest[b]])
    /\ UNCHANGED <<writeUnchanged, spec, did>>
-----------------------------------------------------------------------------
(* The end of a transaction. *)

\* Mutant: the callback forgets the SQLite transaction instead of committing it.
PreCommitLost(b) ==
    /\ \/ phase[b] = "open" /\ spec[b] = 0
       \/ phase[b] = "vacuum"
    /\ in_txn' = [in_txn EXCEPT ![b] = FALSE]
    /\ local' = [local EXCEPT ![b] = Empty]
    /\ phase' = [phase EXCEPT ![b] = "precommit"]
    /\ UNCHANGED <<nextXid, clog, xid, cid, snap, file, spec, oldest, excl, did, base>>

\* Mutant: the callback is registered for Commit, and does nothing here.
PreCommitDeferred(b) ==
    /\ phase[b] = "open" /\ spec[b] = 0
    /\ phase' = [phase EXCEPT ![b] = "precommit"]
    /\ UNCHANGED <<nextXid, clog, xid, cid, snap, in_txn, local, file, spec, oldest,
                   excl, did, base>>

\* on_precommit: COMMIT the SQLite transaction, if there is one.  VACUUM gets
\* here after vacuum_dead, having deleted or having had nothing to do.
PreCommit(b) ==
    /\ \/ phase[b] = "open" /\ spec[b] = 0
       \/ /\ phase[b] = "vacuum"
          /\ in_txn[b] \/ oldest[b] <= Read(b).last_vacuum_xmin
    /\ file' = Read(b)
    /\ in_txn' = [in_txn EXCEPT ![b] = FALSE]
    /\ local' = [local EXCEPT ![b] = Empty]
    /\ phase' = [phase EXCEPT ![b] = "precommit"]
    /\ UNCHANGED <<nextXid, clog, xid, cid, snap, spec, oldest, excl, did, base>>

\* Postgres writes the commit record ...
RecordCommit(b) ==
    /\ phase[b] = "precommit" /\ xid[b] # 0
    /\ clog' = clog \cup {xid[b]}
    /\ phase' = [phase EXCEPT ![b] = "recorded"]
    /\ UNCHANGED <<nextXid, xid, cid, snap, in_txn, local, file, spec, oldest,
                   excl, did, base>>

\* Everything a backend forgets when its transaction is over.
Forget(B) ==
    /\ phase'  = [b \in Backends |-> IF b \in B THEN "idle" ELSE phase[b]]
    /\ xid'    = [b \in Backends |-> IF b \in B THEN 0 ELSE xid[b]]
    /\ cid'    = [b \in Backends |-> IF b \in B THEN 0 ELSE cid[b]]
    /\ snap'   = [b \in Backends |-> IF b \in B THEN NoSnap ELSE snap[b]]
    /\ in_txn' = [b \in Backends |-> in_txn[b] /\ b \notin B]
    /\ local'  = [b \in Backends |-> IF b \in B THEN Empty ELSE local[b]]
    /\ spec'   = [b \in Backends |-> IF b \in B THEN 0 ELSE spec[b]]
    /\ oldest' = [b \in Backends |-> IF b \in B THEN 0 ELSE oldest[b]]
    /\ excl'   = [b \in Backends |-> excl[b] /\ b \notin B]
    /\ did'    = [b \in Backends |-> IF b \in B THEN NoDid ELSE did[b]]
    /\ base'   = [b \in Backends |-> IF b \in B THEN {} ELSE base[b]]

\* ... and takes the transaction out of the proc array.
EndXact(b) ==
    /\ \/ phase[b] = "recorded"
       \/ phase[b] = "precommit" /\ xid[b] = 0
    /\ Forget({b})
    /\ UNCHANGED <<nextXid, clog, file>>

\* on_abort: ROLLBACK the SQLite transaction, if it is still open.  An error
\* between the PreCommit callback and the commit record comes too late for it.
Abort(b) ==
    /\ \/ phase[b] \in {"open", "vacuum"}
       \/ FailureWindow /\ phase[b] = "precommit"
    /\ Forget({b})
    /\ UNCHANGED <<nextXid, clog, file>>

\* The file carries no xid from n on, and no watermark above n.
Unknown(n) ==
    /\ file.last_vacuum_xmin <= n
    /\ \A r \in RowId : file.rows[r].xmin < n /\ file.rows[r].xmax < n

\* Where the xid counter may go on after a crash: Postgres recovers it from the
\* commit records, but the assignment of an xid is not logged and the writes of
\* this access method make no WAL.
RecoveredXids ==
    {n \in 1..nextXid : (\A x \in clog : x < n) /\ (XidReuse \/ Unknown(n))}

\* A crash ends every backend; SQLite rolls back what was not committed and
\* keeps what was (synchronous=FULL), and an xid without a commit record has
\* aborted - until it is handed out again.
Crash ==
    /\ FailureWindow \/ \A b \in Backends : phase[b] = "precommit" => xid[b] = 0
    /\ Forget(Backends)
    /\ nextXid' \in RecoveredXids
    /\ UNCHANGED <<clog, file>>

Next ==
    \/ Crash
    \/ \E b \in Backends :
        \/ Begin(b) \/ TakeSnapshot(b) \/ AssignXid(b)
        \/ \E keep \in BOOLEAN : NextCommand(b, keep)
        \/ \E n \in 1..MaxBatch : Insert(b, n)
        \/ InsertSpeculative(b) \/ SpeculationWon(b) \/ SpeculationLost(b)
        \/ \E r \in RowId : Delete(b, r) \/ Update(b, r)
        \/ Truncate(b) \/ VacuumStart(b) \/ VacuumDead(b)
        \/ PreCommit(b) \/ RecordCommit(b) \/ EndXact(b) \/ Abort(b)

Spec == Init /\ [][Next]_vars
-----------------------------------------------------------------------------
(* Properties. *)

\* A scan returns exactly the table its snapshot stands for, plus the earlier
\* commands of its own transaction: whatever other backends insert, delete,
\* commit, abort or vacuum meanwhile, and whether the row versions are read
\* from the file or from the backend's own SQLite transaction (scan_begin's
\* select_all filtered by visibility::row_visible).
ReadsAsOfSnapshot ==
    \A b \in Backends :
        snap[b] # NoSnap =>
            {IdOf(Read(b).rows, r) : r \in Scan(b)} = Expected(b)

\* The committed file holds no trace of a transaction that is still running
\* statements, and no transaction has a commit record while its writes are
\* still in an open SQLite transaction: the two orders the PreCommit callback
\* must keep (sqlite.rs ensure_in_xact: SQLite may be ahead, never behind).
SqliteNeverBehind ==
    \A b \in Backends :
        /\ phase[b] = "open" /\ xid[b] # 0 =>
               \A r \in RowId : xid[b] \notin {file.rows[r].xmin, file.rows[r].xmax}
        /\ in_txn[b] => xid[b] \notin clog

\* vacuum_dead skips when last_vacuum_xmin has reached its horizon.  That is
\* safe: no row of the file was deleted by an xid below the watermark, although
\* a horizon is computed before the wait for the write lock and other
\* transactions stamp rows meanwhile.  (With XidReuse xids may start again below
\* a watermark; what they delete then waits until the horizon has passed it.)
WatermarkSound ==
    \A r \in RowId :
        file.rows[r].xmax # 0 => file.rows[r].xmax >= file.last_vacuum_xmin

\* The facts SqliteNeverBehind rests on.  Rows: the file of b's connection
\* carries no xid of another transaction still running statements.
Carries(c, x) == \E r \in RowId : x \in {c.rows[r].xmin, c.rows[r].xmax}

XidsIssued ==
    /\ \A b \in Backends : xid[b] < nextXid
    /\ \A x \in clog : x < nextXid
    /\ \A b, c \in Backends : xid[b] = xid[c] /\ xid[b] # 0 => b = c

XidsStored ==
    /\ \A r \in RowId : file.rows[r].xmin < nextXid /\ file.rows[r].xmax < nextXid
    /\ \A b \in Backends, r \in RowId :
          local[b].rows[r].xmin < nextXid /\ local[b].rows[r].xmax < nextXid

\* Without failures in the commit window every xid in the file has a commit
\* record, or is about to.
Explained(x) == \/ x = 0 \/ x \in clog
                \/ \E b \in Backends : phase[b] = "precommit" /\ xid[b] = x

XidsExplained ==
    ~FailureWindow =>
        \A r \in RowId :
            /\ Explained(file.rows[r].xmin) /\ Explained(file.rows[r].xmax)
            /\ \A b \in Backends : in_txn[b] =>
                  /\ local[b].rows[r].xmin = xid[b] \/ Explained(local[b].rows[r].xmin)
                  /\ local[b].rows[r].xmax = xid[b] \/ Explained(local[b].rows[r].xmax)

PhaseDiscipline ==
    \A b \in Backends :
        /\ in_txn[b] => phase[b] \in {"open", "vacuum"}
        /\ phase[b] \in {"idle", "vacuum"} => xid[b] = 0
        /\ spec[b] # 0 => phase[b] = "open"
        /\ xid[b] \in clog => phase[b] = "recorded"

WritesArePrivate ==
    \A c \in Backends : phase[c] = "open" /\ xid[c] # 0 =>
        /\ ~Carries(file, xid[c])
        /\ \A b \in Backends \ {c} : in_txn[b] => ~Carries(local[b], xid[c])

CommitOrderInv ==
    XidsIssued /\ XidsStored /\ XidsExplained /\ PhaseDiscipline /\ WritesArePrivate

\* The facts WatermarkSound rests on: whoever may still stamp rows has an xid
\* at or above every watermark stored, pending or about to be stored.
Marked(c) == \A r \in RowId : c.rows[r].xmax # 0 => c.rows[r].xmax >= c.last_vacuum_xmin

Below(o) == /\ o <= nextXid
            /\ \A b \in Backends : xid[b] # 0 /\ phase[b] = "open" => o <= xid[b]

HorizonInv ==
    /\ Marked(file) /\ Below(file.last_vacuum_xmin)
    /\ \A b \in Backends : Marked(local[b]) /\ Below(local[b].last_vacuum_xmin)
    /\ \A b \in Backends : Below(oldest[b])

\* The abstract view of what b's transaction has done.
WorkOf(b) == [ins   |-> did[b].ins \ {d[1] : d \in did[b].del},
              del   |-> {d[1] : d \in did[b].del},
              clear |-> did[b].clear]

\* The table other backends are entitled to: while a TRUNCATE is between its
\* SQLite COMMIT and its end, that is still the table it emptied.
PromisedTable ==
    LET emptying == {b \in Backends : did[b].clear /\ phase[b] \in {"precommit", "recorded"}}
    IN  IF emptying = {} THEN Table ELSE UNION {base[b] : b \in emptying}

Abstract == INSTANCE TransactionalTable
    WITH table   <- PromisedTable,
         work    <- [b \in Backends |-> WorkOf(b)],
         decided <- [b \in Backends |-> phase[b] = "recorded"]

\* The relation is a transactional table: row versions appear and disappear
\* only when a transaction commits, and exactly as its statements reported; a
\* transaction with a commit record is never lost - through crashes, late
\* aborts, rolled back SQLite transactions and VACUUM, as long as no crash
\* brings an xid back that the file knows from a transaction that failed late.
ImplementsTable == Abstract!Spec
-----------------------------------------------------------------------------
(* What comments of the code claim. *)

\* sqlite.rs vacuum_dead: "Physically remove rows whose `xmax` is committed and
\* globally visible" - the rows VACUUM's DELETE takes were deleted by
\* transactions that committed.
VacuumRemovesCommitted ==
    [][\A b \in Backends : VacuumDead(b) =>
          \A r \in RowId : file.rows[r].xmin # 0 /\ local'[b].rows[r].xmin = 0
                           => file.rows[r].xmax \in clog]_vars

\* sqlite.rs ensure_in_xact: "The only crash window then leaves SQLite *ahead*,
\* which self-heals" - what a transaction without a commit record has left in
\* the file stays hidden: when a transaction commits, the only rows that appear
\* are those its own statements inserted.
SelfHeals ==
    [][\A b \in Backends : EndXact(b) => Table' \subseteq Table \cup did[b].ins]_vars
=============================================================================
