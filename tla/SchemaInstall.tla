---------------------------- MODULE SchemaInstall ----------------------------
(***************************************************************************)
(* Opening the SQLite file of a relation (src/src/sqlite.rs, open_conn):   *)
(* several backends read user_version, install the schema into a new file  *)
(* or migrate an old one, statement by statement, each statement a SQLite  *)
(* transaction of its own.  Backends are killed, and statements fail, at   *)
(* any point.  Whether a backend may try again depends on TX_RELS: see     *)
(* die.                                                                    *)
(***************************************************************************)
EXTENDS Naturals, Sequences, FiniteSets

CONSTANTS
    Backends,
    Versions,   \* user_version of the file found on disk; 0: an empty file
    MaxFails    \* bound: kills and failing statements

SCHEMA_VERSION == 4

ASSUME SchemaAssumption ==
    /\ IsFiniteSet(Backends) /\ Versions \subseteq Nat /\ MaxFails \in Nat

VARIABLES
    disk,       \* the file: user_version, which tables, indexes and columns
                \* there are, journal mode
    todo,       \* todo[b]: statements open_conn has still to execute
    pc,         \* pc[b]: closed; opening; running: executing todo; open;
                \* stuck: in TX_RELS for ever, without a connection
    first,      \* first[b]: the relation is the first of its transaction
    active,     \* active[b]: user_version's statement was stepped, not reset
    fails,
    mistaken    \* history: a file with another schema was taken for an empty one

vars == <<disk, todo, pc, first, active, fails, mistaken>>

\* A file as some version of the code left it.  Every version has had both
\* tables, the first one the index storage_dead, the third one the column prev.
FileOf(v) == [version |-> v, storage |-> v # 0, meta |-> v # 0, wal |-> v # 0,
              storage_dead |-> v = 1, prev |-> v = 3]

TypeOK ==
    /\ disk \in [version: Nat, storage: BOOLEAN, meta: BOOLEAN, wal: BOOLEAN,
                 storage_dead: BOOLEAN, prev: BOOLEAN]
    /\ pc \in [Backends -> {"closed", "opening", "running", "open", "stuck"}]
    /\ first \in [Backends -> BOOLEAN] /\ active \in [Backends -> BOOLEAN]
    /\ fails \in 0..MaxFails /\ mistaken \in BOOLEAN

Init ==
    /\ \E v \in Versions : disk = FileOf(v)
    /\ todo = [b \in Backends |-> <<>>] /\ pc = [b \in Backends |-> "closed"]
    /\ first = [b \in Backends |-> FALSE] /\ active = [b \in Backends |-> FALSE]
    /\ fails = 0 /\ mistaken = FALSE
-----------------------------------------------------------------------------
\* Mutant: the version is stamped before the tables are there.
install_schema_early == <<"journal_mode", "user_version", "storage", "meta">>

\* The statements of install_schema, and of migrate_schema.
install_schema == <<"journal_mode", "storage", "meta", "user_version">>
migrate_schema(from) ==
    (IF from < 2 THEN <<"drop_storage_dead">> ELSE <<>>)
    \o (IF from = 3 THEN <<"drop_prev">> ELSE <<>>)
    \o <<"user_version">>

\* What a statement does to the file: CREATE TABLE IF NOT EXISTS leaves a table
\* that is there alone.
Execute(s) ==
    disk' = CASE s = "journal_mode"      -> [disk EXCEPT !.wal = TRUE]
              [] s = "storage"           -> [disk EXCEPT !.storage = TRUE]
              [] s = "meta"              -> [disk EXCEPT !.meta = TRUE]
              [] s = "drop_storage_dead" -> [disk EXCEPT !.storage_dead = FALSE]
              [] s = "drop_prev"         -> [disk EXCEPT !.prev = FALSE]
              [] s = "user_version"      -> [disk EXCEPT !.version = SCHEMA_VERSION]

\* SQLite refuses: to change the journal mode while a statement of the
\* connection is active, and to drop a column that is not there.
Refused(b, s) ==
    \/ s = "journal_mode" /\ active[b]
    \/ s = "drop_prev" /\ ~disk.prev
-----------------------------------------------------------------------------
\* ensure_in_xact puts the relation into TX_RELS, the first one of its
\* transaction or not, and calls open_conn: sqlite3_open_v2 and the connection's
\* PRAGMAs.
Start(b) ==
    /\ pc[b] = "closed"
    /\ pc' = [pc EXCEPT ![b] = "opening"]
    /\ \E f \in BOOLEAN : first' = [first EXCEPT ![b] = f]
    /\ UNCHANGED <<disk, todo, active, fails, mistaken>>

\* The connection is gone.
Closed(b, stage) ==
    /\ pc' = [pc EXCEPT ![b] = stage]
    /\ todo' = [todo EXCEPT ![b] = <<>>]
    /\ active' = [active EXCEPT ![b] = FALSE]
    /\ UNCHANGED first

\* open_conn gives up and unwinds out of ensure_in_xact.  on_abort empties
\* TX_RELS and a later transaction opens the file anew; but for the first
\* relation of a transaction on_abort was not registered yet, the relation stays
\* in TX_RELS, and whoever touches it meets the missing connection instead.
die(b) == Closed(b, IF first[b] THEN "stuck" ELSE "closed")

\* Mutant: the statement is not reset.
read_user_version_active(b) == active' = [active EXCEPT ![b] = TRUE]

\* PRAGMA user_version: stepped to its row, and reset.
read_user_version(b) == active' = [active EXCEPT ![b] = FALSE]

\* What it returns: the version, or 0 when the step gives no row (SQLITE_BUSY,
\* an I/O error).
VersionsRead == {0, disk.version}

\* Mutant: every other version is migrated, newer ones too.
ToMigrateOther(current) == current # 0 /\ current # SCHEMA_VERSION

\* The versions that open_conn calls migrate_schema for.
ToMigrate(current) == current # 0 /\ current < SCHEMA_VERSION

\* open_conn reads the version and decides; a file newer than the code is
\* refused.
ReadVersion(b) ==
    /\ pc[b] = "opening"
    /\ \E current \in VersionsRead :
        /\ \/ /\ current = 0
              /\ todo' = [todo EXCEPT ![b] = install_schema]
              /\ pc' = [pc EXCEPT ![b] = "running"]
              /\ read_user_version(b) /\ UNCHANGED first
           \/ current > SCHEMA_VERSION /\ die(b)
           \/ /\ ToMigrate(current)
              /\ todo' = [todo EXCEPT ![b] = migrate_schema(current)]
              /\ pc' = [pc EXCEPT ![b] = "running"]
              /\ read_user_version(b) /\ UNCHANGED first
           \/ /\ current = SCHEMA_VERSION
              /\ pc' = [pc EXCEPT ![b] = "open"]
              /\ read_user_version(b) /\ UNCHANGED <<todo, first>>
        /\ mistaken' = (mistaken \/ (current = 0 /\ disk.version \notin {0, SCHEMA_VERSION}))
    /\ UNCHANGED <<disk, fails>>

\* exec, one statement of it; the last one completes open_conn.
Exec(b) ==
    /\ pc[b] = "running"
    /\ \/ /\ ~Refused(b, Head(todo[b])) /\ Execute(Head(todo[b]))
          /\ todo' = [todo EXCEPT ![b] = Tail(@)]
          /\ pc' = [pc EXCEPT ![b] = IF Tail(todo[b]) = <<>> THEN "open" ELSE "running"]
          /\ UNCHANGED <<first, active>>
       \/ Refused(b, Head(todo[b])) /\ die(b) /\ UNCHANGED disk
    /\ UNCHANGED <<fails, mistaken>>

\* A statement of open_conn fails: the lock is not free within busy_timeout, an
\* I/O error.  What was executed stays.
StatementFails(b) ==
    /\ pc[b] \in {"opening", "running"} /\ fails < MaxFails
    /\ die(b) /\ fails' = fails + 1
    /\ UNCHANGED <<disk, mistaken>>

\* The backend is killed while it opens the file.
Killed(b) ==
    /\ pc[b] \in {"opening", "running"} /\ fails < MaxFails
    /\ Closed(b, "closed") /\ fails' = fails + 1
    /\ UNCHANGED <<disk, mistaken>>

\* The session ends, and the process with its TX_RELS: the next one starts anew.
SessionEnds(b) ==
    /\ pc[b] \in {"open", "stuck"}
    /\ Closed(b, "closed")
    /\ UNCHANGED <<disk, fails, mistaken>>

Next == \E b \in Backends :
    \/ Start(b) \/ ReadVersion(b) \/ Exec(b)
    \/ StatementFails(b) \/ Killed(b) \/ SessionEnds(b)

\* A backend that has started to open the file goes on; that it starts again
\* after a failure is the client's choice.
Fairness == \A b \in Backends : WF_vars(ReadVersion(b) \/ Exec(b))

Spec == Init /\ [][Next]_vars /\ Fairness
-----------------------------------------------------------------------------
(* Properties. *)

\* A connection that open_conn returns finds a file of exactly this schema,
\* whoever else is installing or migrating it, and whoever was killed doing so -
\* as long as read_user_version has not returned 0 for a file of another version.
\* (A file of this version taken for an empty one is not harmed.)
OpenUsable ==
    ~mistaken => \A b \in Backends : pc[b] = "open" =>
        /\ disk.version = SCHEMA_VERSION /\ disk.storage /\ disk.meta /\ disk.wal
        /\ ~disk.prev /\ ~disk.storage_dead

\* A file that is newer than the code is refused ("refusing to read"): no opener
\* changes one, whatever it went through before; the same proviso.
NewerRefused == [][disk.version > SCHEMA_VERSION /\ ~mistaken => disk' = disk]_vars

\* A v3 file whose column is dropped, and whose version is not stamped.
HalfMigrated == disk.version = 3 /\ ~disk.prev

\* Openers that were killed or failed half way leave nothing behind that would
\* turn away for ever a backend that tries again and again and is not stuck: it
\* has the file open in the end, unless the file is newer than the code - or was
\* left between the two statements of migrate_schema's last step, which nothing
\* repairs.
OpensInTheEnd ==
    \A b \in Backends :
        []<>(pc[b] \notin {"closed", "stuck"})
            => \/ []<>(pc[b] = "open" \/ disk.version > SCHEMA_VERSION)
               \/ <>[]HalfMigrated
=============================================================================
