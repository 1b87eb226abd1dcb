# sqlite_heap: specification and proofs

`sqlite_heap` is a Postgres table access method that keeps every table in a SQLite file of its own.
Two storage engines have to agree: Postgres owns snapshots, transaction ids (xids), the commit log and
locks; SQLite owns the rows. The extension is the Rust crate in `src/src/`; `src/zig/` and
`src/llvm-ir/` are ports of it. This directory holds TLA+ modules of the Rust extension, TLC
configurations that check them on small instances, and TLAPS proofs that hold for every instance.

`PROJECT.json` lists the components, the runs, the source lines behind every definition, the findings,
the hazards and the theorems.

## 1. The system

| Component | Source | State | Operations | What makes it correct |
|---|---|---|---|---|
| MVCC visibility | `visibility.rs` | none (asks Postgres) | `row_visible` by kind of snapshot, `xid_view` | a snapshot gives one answer for a row version as long as it is held; a dirty check is right when it answers |
| Relation storage | `sqlite.rs`, `tam.rs` | the SQLite tables `storage` (row versions with xmin, cmin, xmax, cmax) and `meta` (`last_vacuum_xmin`), one open SQLite transaction per writer | insert, multi-insert, speculative insert, delete, update, TRUNCATE, VACUUM | the table changes only by commits, and by exactly what the statements reported; VACUUM takes nothing anyone needs |
| Transaction integration | `sqlite.rs`, `lib.rs` | per backend: `CONNS`, `TX_RELS`, `RelConn.in_txn`, SQLite's savepoint stacks, registered callbacks | `ensure_in_xact`, PreCommit, Abort, StartSub, CommitSub, AbortSub, Commit (unlink) | SQLite commits before Postgres and never without it; what Postgres rolls back leaves no trace; nothing outlives its transaction |
| Scans | `tam.rs` | `SqliteCursor`: rows loaded lazily, position, sample flag, offsets of the current bitmap page | sequential, TID range, TABLESAMPLE, bitmap, ANALYZE; rescan | exactly the visible rows, once, in order, after any rescan |
| TID packing | `ffi.rs` | none | `rowid_to_tid`, `tid_to_rowid` | inverse, order preserving, offsets Postgres accepts |
| Index support | `tam.rs` | Postgres indexes hold TIDs | build, fetch, `index_delete_tuples` | no row a snapshot needs loses its entry; an entry never leads to a row it was not made for |
| CLUSTER, estimates | `tam.rs` | - | copy rows, count | no row lost; the rest feeds the planner |
| Schema | `sqlite.rs` | `PRAGMA user_version` | install, migrate | two openers, or a crash in between, leave a usable file |
| Statement cache, read views, locks | `sqlite.rs` | prepared statements, possibly still active; SQLite's read view and write lock per connection | `prepare_cached`, step, wait for a lock, time out | no committed write is overwritten; reads are fresh; nobody waits for ever |
| Inspection, bindings, hashing | `lib.rs`, `raw_pg.rs`, `fxhash.rs` | - | - | not modelled: no state, no decisions |

How they interact. Postgres calls the access method's callbacks (`tam.rs`). A callback reaches SQLite
through `with_conn`, which first runs `ensure_in_xact`: the relation enters `TX_RELS`, its connection is
opened or taken from `CONNS`, and the first relation of a transaction registers the transaction
callbacks. A write path opens the SQLite transaction lazily (`begin_if_needed`), and SQLite allows one
writer per file: the lock is held until the PreCommit callback commits or the Abort callback rolls back.
Readers outside a SQLite transaction see the last committed file; `visibility.rs` filters row versions
with the Postgres snapshot.

What is hard: backends interleave at every SQLite statement; the two commits are two steps with a crash
window between them; VACUUM computes a horizon and then waits for a lock; physical deletes (TRUNCATE, a
lost speculation) bypass MVCC; subtransactions map onto SAVEPOINTs; callbacks are registered lazily and
may fail half way; scan descriptors are reused; statements left at a row keep a view of the file;
rowids are reused under index entries; files are created and migrated by several backends. `hazards` in `PROJECT.json` lists these at their lines,
with the property that covers each, or why none does yet.

## 2. Modules

| Module | Models | Kind |
|---|---|---|
| `Visibility` | `visibility.rs`: `did_commit`, `xid_view` and the verdict of each kind of snapshot | operators |
| `TransactionalTable` | what a table promises: versions appear and disappear only by commits, a decided commit is never lost | abstract specification |
| `HeapStore` | one relation, several backends: transactions, snapshots, rows, VACUUM, failures | state machine, refines `TransactionalTable` |
| `HeapStoreProofs` | types, the order of the two commits and the watermark of `HeapStore` | proofs |
| `HeapTableProofs` | reads, VACUUM and the refinement of `TransactionalTable` by `HeapStore` | proofs |
| `IndexStore`, `IndexStoreProofs` | `HeapStore` with a btree beside it: entries, bottom-up deletion, rebuilds | state machine, composes `HeapStore`; proofs on top of `HeapTableProofs` |
| `SnapshotKinds`, `SnapshotKindsProofs` | one backend's snapshots and dirty checks against transactions with subtransactions | state machine over `Visibility`, proofs |
| `Tid` | `ffi.rs`: the packing | operators |
| `ScanCursor`, `ScanCursorProofs` | one scan descriptor (`tam.rs`) under the executor's calls | state machine over `Tid`, proofs about both |
| `XactConn`, `XactConnProofs` | one backend's connections under Postgres's callbacks (`sqlite.rs`) | state machine, proofs |
| `ReadViews`, `ReadViewsProofs` | several backends' connections to several files: statements left active, read views, write locks (`sqlite.rs`) | state machine with fairness, proofs |
| `SchemaInstall`, `SchemaInstallProofs` | `open_conn`: several backends install or migrate a file | state machine with fairness, proofs |
| `MC...` | model values, symmetry, sets of bounds | TLC |

The modules do not repeat one another's concern. `HeapStore` has one relation, no subtransactions,
callbacks that are always registered and reads of the latest file; `XactConn` has several relations,
subtransactions and the life of the callbacks, and abstracts a file to the set of (sub)transactions that
wrote it; `ReadViews` has the same abstraction for several backends, and what each connection sees of a
file; `SnapshotKinds` has the xids of subtransactions and splits a dirty check into its questions;
`ScanCursor` takes from `HeapStore` that a held snapshot's rows do not change, and follows one descriptor
over them; `SchemaInstall` is about the time before the first statement.

### HeapStore

State. `nextXid`, `clog`, `phase`, `xid`, `cid`, `snap` are Postgres's. `in_txn[b]` is `RelConn.in_txn`,
`local[b]` the file as backend `b`'s open SQLite transaction sees it, `file` the committed file: a record
of `rows` (an `xmin = 0` row is an empty slot) and `last_vacuum_xmin`. `spec` is an undecided speculative
insert, `oldest` a horizon `relation_vacuum` has computed, `excl` TRUNCATE's lock. `did` and `base` are
history: what the executor was told, and the table a snapshot stands for. They decide nothing.

Actions. `Insert` (`tuple_insert`, `multi_insert`), `InsertSpeculative`, `SpeculationWon`,
`SpeculationLost`, `Delete`, `Update`, `Truncate` are the write callbacks with everything they do in
SQLite; `AssignXid` is separate because `current_xid_u32` runs before the wait for the write lock.
`VacuumStart` and `VacuumDead` are two steps for the same reason. `PreCommit`, `RecordCommit` and
`EndXact` are the three points of a commit: SQLite's COMMIT, the commit record, leaving the proc array.
`Abort` and `Crash` may come at every point (`FailureWindow` says whether also between the first two).
A statement that fails after `busy_timeout` is an `Abort`. After a crash the xid counter may go back:
Postgres recovers it from the last checkpoint and the WAL, does not log the assignment of an xid, and the
writes of this access method make no WAL. `RecoveredXids` are the values it may have, above every xid with
a commit record; `XidReuse` says whether also at or below an xid that the file has, from a transaction that
died in the commit window, or below its watermark.

External, from how the code uses it: `Running`, `Snapshot`, `IsHorizon` (Postgres), `CanWrite`, `IsTop`
(SQLite's lock, and the rowid of a new row: one above the largest). Xids do not wrap around here.
SQLite statements are taken as reset after use; `ReadViews` is about those the code leaves active.

### IndexStore

An entry is the identity of the row version it was made for (its rowid is the TID). The executor's
insertion of entries goes with every step of `HeapStore` that reports an insertion; an abort takes no
entry back. `index_delete_tuples` runs while its caller has the file's write lock (btree calls it when it
inserts the entry of a row that is already in SQLite), so no other backend's row can be missing from what
it reads. `build_index` runs when nobody writes and leaves out rows with an `xmax`; `skipped` remembers
them: a snapshot older than the build does not find them, which is also the end of a CLUSTER or
VACUUM FULL. (Their copy goes to the file of the transient relation, and files are keyed by OID, so the
relation keeps its rows where they were.)

### SnapshotKinds

`subs` are the subtransaction xids of a running transaction, `undone` those it has rolled back; both may
be in the file after PreCommit (`XactConn` shows when a savepoint does not take them out). `Fresh` is
`GetSnapshotData`. A dirty check reads a row header and then asks Postgres question by question
(`Questions`, `Ask`), with commits and aborts in between; the verdict is `visible_dirty` of what was
answered.

### ScanCursor

The rows of the file are `seen` (by the scan's snapshot) or `unseen`; other backends make unseen rows
appear and vanish. `rows`, `rows_loaded`, `pos`, `sample_block_consumed` and the bitmap fields are
`SqliteCursor`'s. Since rows and offsets are in order, `rows` and `bitmap_offsets` are sets and a
position is the last element examined. For ANALYZE, `stamped` are the rows with an `xmax` and `stream` the
blocks its read stream yields, as many as `relation_size` reports. `NewPass` is what the executor hands a pass (bounds, a bitmap) and
what it ought to return (`target`); `scan_rescan` changes what the code changes, `pos`.

### XactConn

A file is the set of numbers of the (sub)transactions that wrote it; a savepoint remembers the set and is
named by a counter that starts again with every transaction, as Postgres's SubTransactionId does. `bare`,
`stranded` and `ruined` are history: writes below a level that has no SAVEPOINT on the relation, relations
left open by a COMMIT that failed, and relations on which SQLite has rolled back by itself.
`stack` holds the open levels, each with the numbers that will end with it. `on_precommit` takes
`TX_RELS` and `CommitOne` commits one relation at a time, with an exit of the process possible between
any two. When COMMIT fails (`CommitDies`) SQLite may keep its transaction open, or roll it back by itself,
as it does for SQLITE_FULL, SQLITE_IOERR and SQLITE_NOMEM; so may a failing write (`WriteRollsBack`).
`in_txn` is not told: the relation is `adrift`. Without a savepoint set since (`Lost`) its next write
autocommits (`WriteThrough`) and its COMMIT fails; a SAVEPOINT opens a transaction of its own, whose
RELEASE commits (`Outermost`). This may happen wherever a write or a COMMIT fails. Five constants switch on
what else may go wrong: `FirstOpenFails`, `LaterOpenFails`, `CommitFails`, `SubxactTouch`, `SubxactDrop`.

### ReadViews

`active[b][r]` are the statements of a connection stepped to a row and not reset; while there is one, or
inside BEGIN, the connection is `reading` and `view` is the file it sees. `prepare_cached` resets the one
statement it hands out. `Verdict` is SQLite's answer to a write: it waits in the busy handler only if the
connection has no read transaction, and refuses at once (SQLITE_BUSY, SQLITE_BUSY_SNAPSHOT) if it has one
and the lock is taken or the view is old. COMMIT and ROLLBACK leave active statements, and so the view.
`wrote` is what statements were told; `due` is what was committed when a connection last planned with
nothing else open. A transaction may have one open subtransaction (`sub`; the relations whose writes its
ROLLBACK TO takes back are `undoes`). An error in it runs `on_sub_abort`, after which the transaction goes
on with its locks; only outside one does an error run `on_abort`.

### SchemaInstall

`disk` records which tables, index and column the file has, its journal mode and `user_version`; each
statement of `install_schema` and `migrate_schema` is a step of its own. `FileOf(v)` is what
`migrate_schema` presumes a file of version `v` to be. A statement fails, or a backend is killed, at any
point. `VersionsRead` is what `read_user_version` may return: the version, or 0 when its step gives no row;
`mistaken` is history: a file with another schema was so taken for an empty one.
An `open_conn` that dies leaves the relation in `TX_RELS`. If it was not the first of its transaction,
`on_abort` is registered, takes it out, and a later transaction tries again; if it was the `first`, nothing
does, and the backend is `stuck` until its session ends.

## 3. What TLC checks

Passing runs (2 backends or openers, or 2 relations):

| Run | Bounds | Properties | Shows |
|---|---|---|---|
| `heap_crash` | 2 xids, 3 rowids, 2 commands, batches of 2; late failures; xids lost in a crash if the file does not have them | `TypeOK`, `ReadsAsOfSnapshot`, `SqliteNeverBehind`, `ImplementsTable` | the commit order survives a failure at every point; a command sees earlier commands, not itself, in read committed and repeatable read |
| `heap_vacuum` | 3 xids, 3 rowids, batches of 2, VACUUM, TRUNCATE | `ReadsAsOfSnapshot`, `WatermarkSound`, `ImplementsTable`, `VacuumRemovesCommitted` | VACUUM takes only what no one needs, and may be skipped at the watermark |
| `index_store` | 3 xids, 2 rowids, late failures, `XidReuse` | `IndexFindsAll` | bottom-up deletion takes no entry that a snapshot needs |
| `scan_cursor` | 3 rowids in blocks of 2, 2 passes | `TypeOK`, `EndsComplete`, `ReturnsInOrder`, `AnalyzeCountsOnce` | scans return exactly their rows, also after the rescans that work |
| `xact_conn` | 3 (sub)transactions, depth 2; first touch at any depth, failing COMMITs and opens, SQLite rolling back by itself | `CommittedAreStored`, `UndoneLeavesNoTrace`, `NoneLeftOpen`, `UnlinksOnlyDropped` | savepoints and callbacks keep SQLite in step with Postgres, except where SQLite has rolled back by itself; the callbacks end every transaction they can reach, also one SQLite has left |
| `read_views` | 2 transactions, 2 relations, one of them read, a subtransaction each | `TypeOK`, `CommittedStay`, `PlannedFresh`, `WaitEnds` | whatever views are kept, no committed write is overwritten; every wait ends, also when two backends wait for each other and no client goes on |
| `snapshot_kinds` | 3 backends, 4 xids, 1 row | `SnapshotExact`, `DirtySound`, `KindsAgree` | what a snapshot shows is known exactly, running subtransactions included; the unique check is sound |
| `schema_install` | 2 openers, files of versions 0 to 5, 3 failures | `OpenUsable`, `NewerRefused`, `OpensInTheEnd` | installing and migrating are safe to race and to kill, but for one point and for a version that cannot be read |

Why the bounds suffice for the interesting cases: three xids are a writer, a second writer that
commits between the first one's commit record and its end, and a third party whose snapshot sees one
and not the other; three rowids allow a version, its update and a reused slot. `heap_crash` has two
xids, one that fails in the window and one that goes on after it, for the sake of several commands; with
three xids and one command it has been checked too. Three rowids in blocks
of two cross a block boundary. Three numbers in `XactConn` are two nested subtransactions of one
transaction, or a transaction after one with a subtransaction; with four numbers (31 million states without
SQLite's own rollbacks, too long for a routine run) the reuse of a savepoint's name after a failed COMMIT
has been checked too. Two transactions in `ReadViews` are two writers in a circle of two locks, or a reader
that plans and a writer that commits under it; the safety properties have been checked with three as well.
Four xids in `SnapshotKinds` are two transactions with a subtransaction each
against a backend without an xid, or one of them against a backend with its own; one row is enough, since
every property of rows is about one row.

The passing runs leave out what is known to break. `heap_vacuum` has `FailureWindow = FALSE`, `heap_crash`
and `heap_vacuum` have `XidReuse = FALSE` (`xid_reuse`; and a crash that takes xids back below the
watermark makes what they delete wait for a later VACUUM). `index_store` has late failures and `XidReuse`
but no VACUUM: all three at once are too many states, and `IndexComplete` proves the property with them.
`xact_conn` has first opens that succeed and DROPs outside subtransactions. `scan_cursor` does not rescan a
TABLESAMPLE scan, nor a bitmap scan before its end, and has TID bounds made from the TIDs of rows.

Some properties except, in their own statement, what the code gets wrong: `UndoneLeavesNoTrace` writes
without a savepoint (`bare`) and, with `CommittedAreStored`, relations SQLite has rolled back by itself
(`ruined`); `NoneLeftOpen` connections whose COMMIT failed (`stranded`); `SnapshotExact` subtransactions that
were running when the snapshot was taken; `IndexFindsAll` rows the last build left out; `OpenUsable` and
`NewerRefused` files whose version was misread (`mistaken`); `OpensInTheEnd` a backend that is stuck, and
a file left between the two statements of a migration (`HalfMigrated`).

What has no run of its own, and is worth knowing (each is reproduced by setting the constant named, or by
dropping the exception from the property):

* When SQLite's COMMIT fails in `on_precommit`, `TX_RELS` is already taken and `on_abort` finds nothing to
  roll back: the SQLite transaction and its write lock stay open (`stranded`), and the backend's next
  transaction on the relation commits them with its own.
* When SQLite rolls back by itself (SQLITE_FULL, SQLITE_IOERR, SQLITE_NOMEM; `ruined`), `in_txn` stays TRUE,
  BEGIN is skipped and the next write autocommits: a Postgres rollback leaves it in the file, against
  `EXPLAINER.html:962-964`. And the transaction's earlier writes are gone; if a subtransaction's rollback
  hides the error, the COMMIT that follows may commit a transaction that a SAVEPOINT has opened since,
  without an error.
* A step of `PRAGMA user_version` that gives no row counts as version 0 (`mistaken`): `install_schema` stamps
  a newer file down to 4, against "refusing to read" (`sqlite.rs:310`), and a file of version 1 to 3 up to 4
  without migrating it.
* A backend that stops between DROP COLUMN and the new `user_version` of a version 3 file (`HalfMigrated`)
  leaves a file that every later open tries to migrate in vain.
* A subtransaction that was running when a snapshot was taken is in `subxip`, which `xid_view` does not
  search: its rows appear in the held snapshot when its transaction commits, against `visibility.rs:20-21`.
* Rows of an inserter that failed in the commit window have `xmax = 0`, and `vacuum_dead` asks for
  `xmax != 0`: no VACUUM removes them, against `EXPLAINER.html:934-935`.
* After a failed open of a transaction's first relation (`FirstOpenFails`), `TX_RELS` is never emptied and
  no later transaction of the backend registers callbacks: its commits do not reach SQLite, and
  `CommittedAreStored` fails, against `sqlite.rs:534-538`. The relation itself cannot be opened again by this
  backend (`stuck` in `SchemaInstall`): `ensure_in_xact` takes it for open, `with_conn` finds no connection.
  The loser of a race to migrate a version 3 file can get there too.
* A relation touched first inside a subtransaction has no SAVEPOINT: what the subtransaction wrote stays
  after its rollback (`bare`), against `EXPLAINER.html:963-965`. Visibility hides the rows; a TRUNCATE is
  not undone, and a row it deleted falls to the next VACUUM.
* A DROP TABLE rolled back with its subtransaction (`SubxactDrop`) still removes the file, against
  `sqlite.rs:488-489`: `UnlinksOnlyDropped` fails.
* TRUNCATE followed by a failure in the commit window (`Truncates` and `FailureWindow`) loses the table:
  `ImplementsTable` fails, against "self-heals" in `sqlite.rs:535-536`.
* A rescanned TABLESAMPLE (`"sample"` in `Rescans`) returns nothing, since `scan_rescan` does not reset
  `sample_block_consumed`: `EndsComplete` fails, against "never empty" in `tam.rs:930-931`.
* A connection that has planned a query holds a read view; if another backend then commits, the
  connection's next write is refused at once, without the busy timeout, until it plans again. It fails, it
  does not lose anything (`CommittedStay`).
* A row whose deleter failed in the commit window keeps its `xmax`. It is visible, but `set_xmax` asks for
  `xmax = 0`: every later DELETE is answered TM_Deleted, and VACUUM removes the row (`vacuum_aborted`).
* `build_index` leaves out every row with an `xmax`, so a rebuilt index misses rows that old snapshots see,
  and rows whose deleter failed in the commit window.
* A bitmap scan rescanned before its end (`"bitmap"` in `EarlyRescans`) first returns the rest of the page
  before, which breaks `ReturnsInOrder`.
* A TID bound whose offset no row has (0, or above `TIDS_PER_BLOCK`) decodes to a rowid of a neighbouring
  block, so a `ctid` range misses rows or returns rows outside it.
* Two backends updating one row are part of the passing runs: `update_row` stamps only a row with
  `xmax = 0` and inserts the new version all the same, so two live versions of the row remain.

Runs that TLC must find violated, each against a sentence of the code or its documentation
(`findings` quotes it):

| Run | What the code does |
|---|---|
| `vacuum_aborted` | VACUUM deletes rows whose deleter did not commit |
| `xid_reuse` | after a crash in the commit window the xid is handed out again, and its new owner's commit makes the dead transaction's rows appear |
| `stale_entry` | an index entry of a rolled back insert leads to the row that got its rowid |
| `stale_read` | a statement left active makes later transactions read an old file |

`ImplementsTable` is a refinement: `HeapStore` implements `TransactionalTable` under the mapping that
takes the committed table (`PromisedTable`), what each transaction's statements reported (`WorkOf`) and
whether its commit record is written. It says that a commit record is never followed by a loss, that an
abort, a late abort, a crash and VACUUM change nothing, and that a commit changes what was reported.

Fairness and liveness. `WaitEnds` assumes weak fairness of `BusyTimeout` and of the abort after an error,
and nothing else: SQLite's busy handler gives up after `busy_timeout` (5 s), and Postgres then aborts what
the error ends, the subtransaction if there is one (`on_sub_abort`), else the transaction (`on_abort`).
Clients may stop for ever, also with locks held and after an error in a subtransaction, so neither `Granted`
nor the end of an open transaction is fair. So a wait ends with the lock, or, outside a subtransaction, with
every lock released; inside one only with the subtransaction gone, and its transaction's locks still held.
`OpensInTheEnd` assumes that a backend that is opening a file goes on. That it starts again is the client's
choice and not assumed: the property is about a backend that starts again and again and is not stuck in
between. Kills and failing statements are bounded by `MaxFails`. The other modules have no liveness: a backend may stop at any
point. Deadlock is checked in every run but `scan_cursor`, whose descriptor has a bounded number of passes
and then stops.

## 4. What is proved

All theorems are for every number of backends, relations and (sub)transactions and for every bound. Where
a theorem has a hypothesis on a switch, section 3 says how the code breaks the property without it. Each
inductive invariant was checked by TLC, on the instance of the component's passing run or a larger one,
before it was proved.

**Relation storage** (`HeapStoreProofs`, `HeapTableProofs`)

* `TypeCorrect`: `Spec => []TypeOK`.
* `NeverBehind`: `Spec => []SqliteNeverBehind` if `FailureWindow => ~XidReuse` (the new owner of a reused xid
  runs while the file has rows of it). The property is not inductive: that a running
  transaction's xid is not in the file depends on who else may write it there. `CommitOrderInv` adds that
  xids are issued once and below `nextXid` (`XidsIssued`), which phases allow an open SQLite transaction,
  an xid and a commit record (`PhaseDiscipline`), and that no other backend's open SQLite transaction
  carries the xid (`WritesArePrivate`). All writes go through one lemma (`WriteActions`): a write adds
  only its own xid to what its connection read.
* `WatermarkCorrect`: `Spec => []WatermarkSound` if `~XidReuse`. `HorizonInv` adds that every watermark, stored, pending
  in a SQLite transaction or only computed, is at most `nextXid` and at most the xid of any transaction
  still running statements; so a later stamp is never below it. It holds with and without failures in the
  commit window.
* `ReadsCorrect`: `Spec => []ReadsAsOfSnapshot`, and `VacuumCorrect`: `Spec => VacuumRemovesCommitted` (an
  action property), both if `FailureWindow => ~Vacuums /\ ~XidReuse`: with late failures, VACUUM removes rows
  whose deleter failed (`vacuum_aborted`) and a reused xid brings rows back (`xid_reuse`). The invariant is `TableInv`. Its centre is `CopyInv`, how the private copy of
  an open SQLite transaction may differ from the file: a row in a slot that was empty, a stamp on a
  committed row without one, or a reaped row below the horizon. So the commit of the copy changes no
  snapshot's view (`BaseInv`: what a snapshot stands for can still be read from the file) and no other
  transaction's rows (`OwnInv`: what was reported to a transaction is what its rows say). TRUNCATE is the
  exception, and its lock makes it one (`ClearInv`, `LockInv`).
* `TableRefinement`: `Spec => ImplementsTable`, if `FailureWindow => ~Vacuums /\ ~Truncates /\ ~XidReuse` (a
  TRUNCATE whose transaction fails in the window loses the table). So crashes that lose xids are covered, as
  long as the file has none of them. One lemma per action shows the step of
  `TransactionalTable` it is: statements are `Do`, `RecordCommit` is `Decide`, `EndXact` is `Commit`,
  aborts are `Fail`, crashes are `Crash`, and SQLite's COMMIT and VACUUM are invisible.

**Index** (`IndexStoreProofs`)

* `IndexedHeap`: `IndexSpec => Spec`: the steps of the index leave the heap alone, so what is proved of
  `HeapStore` holds under an index.
* `IndexComplete`: `IndexSpec => []IndexFindsAll` if `~Truncates`, with late failures, VACUUM and reused xids
  at once.
  `IndexInv` says that every stored row has its entry, was left out by the last build, or is `Dead`: its
  deleter has a commit record and is older than every running xid and every snapshot (`EntryInv`). Dead
  rows stay dead (`DeadStays`), since new xids are larger and new snapshots start at a running xid or the
  next one, so no one ever misses the entry. This is said of the file and of the private copy of an open
  SQLite transaction, because bottom-up deletion reads its caller's copy and takes the entries from
  everybody. `KeepInv` carries the argument from the one to the other: a statement keeps a row of the file
  or stamps it with its own xid, which has no commit record, and VACUUM keeps it or removes it.
  TRUNCATE is excepted: after one, the copy is empty, deletion would take any entry, and an abort brings
  the rows back. Postgres gives the index a new file in that case; the model has one.
* `IndexScansCorrect`: with `ReadsCorrect`, under its hypothesis too: a fetch through any entry
  returns a row the snapshot ought to see or nothing, and every such row is found through its own entry,
  unless the last build left it out. (A row may be found through an older entry of its rowid as well:
  `stale_entry`.)

**Transaction integration** (`XactConnProofs`)

* `NoTransactionLeft`: `Spec => []NoneLeftOpen` if `~FirstOpenFails`. `CallInv` says that a relation in
  `TX_RELS` implies registered callbacks, and that an open SQLite transaction is in reach of PreCommit or
  Abort, or stranded; it does not need to know whether SQLite still has the transaction.
* `UnlinksFollowDrops`: `Spec => []UnlinksOnlyDropped` if `~SubxactDrop`. `DropInv`: a pending unlink is of
  a relation that the top transaction dropped.
* `RollbacksLeaveNoTrace`: `Spec => []UndoneLeavesNoTrace` if `~FirstOpenFails`, with first
  touches at any depth, COMMITs that fail, and SQLite's own rollbacks. The invariant has to speak of everything a ROLLBACK TO could bring back, not
  only of what is in view: `Contents` are the file, the open transaction's view and the content each
  savepoint remembers, and `TraceOf` says of all of them that a number in them was not rolled back, and if
  it still may be, then every level above it has its savepoint. `LevelsOf` says which levels have one: all
  from some level on, and all above a level that has written. `OrderOf` orders the savepoints and relates
  names to numbers, so that a name that an earlier transaction's stranded savepoint carries too is not
  mistaken for the level's own (`PlaceCases`).
* `CommitsAreStored`: `Spec => []CommittedAreStored` if also `~SubxactDrop`. `StoreOf` says that a committed
  number is in all `Contents`, and during PreCommit that what the transaction wrote to a relation is in the
  view still to be committed or already in the file. Both invariants speak of the relations that are not
  `ruined`; a relation `adrift` always is.

**Statement cache, read views, locks** (`ReadViewsProofs`): `NoLostWrites`, `Spec => []CommittedStay`;
`PlansReadFresh`, `Spec => []PlannedFresh`; `ViewsTypeCorrect`. `ViewsInv` says that the holder of a write
lock sees all of the file (`LockInv`), that who waits has no view yet and so will get the newest
(`WaitInv`), and where a transaction's writes are in each phase (`WroteInv`).

**MVCC visibility** (`SnapshotKindsProofs`): `SnapshotsExact`, `DirtyChecksSound`, `KindsOfSnapshotAgree`
for `SnapshotExact`, `DirtySound`, `KindsAgree`. `KindsInv` says that an xid belongs to one transaction,
that the commit log has a running transaction's xids from its commit record on, that a snapshot lists
every xid below its end that may still commit, as a transaction or as a subtransaction (`SnapInv`), and what a dirty check knows after each answer
(`CheckInv`). That `GetSnapshotData` finds a least running xid uses the well-foundedness of `<`.

**Schema** (`SchemaInstallProofs`): `OpensUsable`, `Spec => []OpenUsable`, and `NewerFilesRefused`,
`Spec => NewerRefused` (an action property), without a hypothesis. `Sound` is `mistaken \/ OpenInv`; `OpenInv` says what there may be in a file of each version,
and how far each opener's program can be given the file, whoever else is at it.

**Scans** (`ScanCursorProofs`)

* `ScansComplete`: `Spec => []EndsComplete` if TABLESAMPLE scans are not rescanned and `RowBounds` holds;
  `ScansOrdered`: `Spec => []ReturnsInOrder` if bitmap scans are not rescanned before their end and
  `RowBounds` holds; `AnalyzeOnce`, `Spec => []AnalyzeCountsOnce`, and `ScanTypeCorrect`,
  `Spec => []TypeOK`, without a condition. `RowBounds` says that a TID bound is the TID of a row, the one
  after it (lower) or before it (upper), or an open end, as the executor makes them; the bounds of
  `scan_cursor` satisfy it. For any other bound, `tid_to_rowid` of an offset past the block's end is a row
  of the next block, and the code's comparison by rowid is not Postgres's by TID.
* `ScanInv` says for each kind of scan how what was returned relates to the position. A walk has returned
  exactly the rows up to `pos` (`WalkInv`, `SampleInv`); ANALYZE has returned or counted them (`AnalyzeInv`);
  a bitmap scan has returned, has on its page or has ahead in the iterator everything it ought to, and these
  three are in order (`BitmapInv`). `LoadInv` says that loaded rows include all the snapshot sees, whenever
  they were loaded. All walks go through `WalkReturns`, and the bitmap's pages through `PageRows` (the
  offsets fetched from a page, exact or lossy, are those of its rows), which rests on `TidPacking`.

**TID packing** (`ScanCursorProofs`): `TidPacking`, which is `TidsFaithful` for every number of offsets per block,
blocks and offset numbers, from division with remainder.

Assumptions, evaluated by TLC in the runs: `BackendsAssumption`, `LockAssumption`, `SchemaAssumption` and
`XactAssumption` (finite sets, natural bounds, switches that are Booleans, a `None` that is no backend),
`BoundsAssumption`, `SwitchesAssumption`, `KindsAssumption` (`Me` is a backend), `TidAssumption` (offsets per
block below the number of offset numbers), `ScanAssumption` (every rowid has a TID of its own, the executor's
bounds are TIDs).

Every safety property of a passing run is a theorem. Only model-checked: `WaitEnds` and `OpensInTheEnd`,
which are liveness under fairness and out of the prover's reach (as are `ENABLED` and induction over data),
and what the violating runs refute.

## 5. Not modelled

* Backward scans: `scan_getnextslot` ignores its direction (`tam.rs:159`) and goes forward; the executor's
  backward calls (a cursor's FETCH BACKWARD, which Postgres allows on a sequential scan) would get the rows
  after the current one.
* TRUNCATE under an older snapshot: `reset` deletes the rows for everybody, so a repeatable read transaction
  that took its snapshot before another backend's TRUNCATE and touches the table for the first time after it
  finds it empty. Postgres documents the same of its own tables; in `HeapStore` a transaction begins with its
  first access.
* A row of another backend with equal xmin and xmax in a dirty check: `SnapshotKinds` keeps the answers per
  xid, and its rows of other backends have two xids or no xmax.
* SAVEPOINT, RELEASE and ROLLBACK TO that fail for another reason than that there is no such savepoint: the
  code warns and goes on.
* Parallel scans: the shared scan state is stored and not used, so every participant returns the whole
  table (`FUNCTIONS.html:774`); there is no protocol to model.
* `REINDEX CONCURRENTLY` and `CREATE INDEX CONCURRENTLY`: `index_validate_scan` does nothing, and says so.
* Xid wraparound, and xids from 2^31 on, which `bind_u32` stores as negative numbers: TLC's instances have
  a handful of xids, and the modules use `<`.
* The copy of CLUSTER and VACUUM FULL: it has no effect on the relation (see IndexStore).
* Row locks: `tuple_lock` is a fetch and takes no lock.
* Left out for good: inspection functions, bindings, hashing, tuple layout, paths, benchmarks. The Zig port
  differs in resetting its statements and in clearing TX_RELS after the commits; the LLVM port has no MVCC.

## 6. Plan

Done: every module of section 2, and the theorems of section 4. What could follow: the Zig port, as
parameters of `ReadViews` (statements that are reset) and `XactConn` (TX_RELS cleared after the commits).
