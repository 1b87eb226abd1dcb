------------------------------ MODULE ReadViews ------------------------------
(***************************************************************************)
(* The SQLite connections of several backends to the files of several      *)
(* relations (src/src/sqlite.rs): the statement cache, the read view that  *)
(* a statement left active keeps, the files' write locks and the waits for *)
(* them.                                                                   *)
(*                                                                         *)
(* A file, and a view of it, is the set of transactions that wrote it.     *)
(* fetch_one_ref, select_one, meta_get and estimate_size step a statement  *)
(* to a row and leave it there; it is reset when prepare_cached hands it   *)
(* out again.  Until then SQLite (in WAL mode) keeps the connection's read *)
(* transaction: everything the connection reads is as of its start, and a  *)
(* write is refused if the file has moved on.                              *)
(*                                                                         *)
(* External, modelled from how the code uses it: SQLite's read and write   *)
(* transactions, its busy handler; Postgres's transactions.                *)
(***************************************************************************)
EXTENDS Naturals, FiniteSets

CONSTANTS
    Backends, Rels,
    ReadRels,   \* bound: the relations that are read (all may be written)
    None,       \* no backend, no relation
    Lookups,    \* the cached statements that look up one row: by rowid
                \* (fetch_one_ref, select_one) and in meta (meta_get)
    MaxTx       \* bound: transactions

ASSUME LockAssumption ==
    /\ IsFiniteSet(Backends) /\ IsFiniteSet(Rels) /\ IsFiniteSet(Lookups)
    /\ ReadRels \subseteq Rels
    /\ None \notin Backends \cup Rels /\ {"count", "all"} \cap Lookups = {}
    /\ MaxTx \in Nat

VARIABLES
    \* Postgres
    nextTx, tx,     \* tx[b]: b's transaction, 0 if it has none
    phase,          \* phase[b]: idle; open; failed: a statement raised an
                    \* error; precommit: past the PreCommit callback
    committed,      \* transactions with a commit record
    \* the backends' memory
    TX_RELS,        \* TX_RELS[b]: relations touched in b's transaction
    in_txn,         \* in_txn[b][r]: RelConn.in_txn, BEGIN was executed
    sub,            \* sub[b]: b is in a subtransaction (one: XactConn nests them)
    \* SQLite
    active,         \* active[b][r]: statements stepped to a row, not reset
    reading,        \* reading[b][r]: the connection has a read transaction ...
    view,           \* ... in which this is the file, its own writes included
    undoes,         \* undoes[b]: relations that ROLLBACK TO clears of b's writes
    wait,           \* wait[b]: the relation whose lock b's busy handler awaits
    lock,           \* lock[r]: the backend that has the file's write lock
    file,           \* file[r]: the committed file
    \* History, for the properties: what a transaction was told it wrote;
    \* the file when b last planned a statement on r with nothing else open.
    wrote, due

subxact == <<sub, undoes>>
sqlite  == <<active, reading, view, wait, lock, file>>
vars    == <<nextTx, tx, phase, committed, TX_RELS, in_txn, subxact, sqlite, wrote, due>>

Stmts == {"count"} \cup Lookups
Txs   == 1..MaxTx
Conns(S) == [Backends -> [Rels -> S]]

TypeOK ==
    /\ nextTx \in 1..(MaxTx + 1) /\ tx \in [Backends -> 0..MaxTx]
    /\ phase \in [Backends -> {"idle", "open", "failed", "precommit"}]
    /\ committed \in SUBSET Txs /\ TX_RELS \in [Backends -> SUBSET Rels]
    /\ in_txn \in Conns(BOOLEAN) /\ active \in Conns(SUBSET Stmts)
    /\ reading \in Conns(BOOLEAN) /\ view \in Conns(SUBSET Txs)
    /\ sub \in [Backends -> BOOLEAN] /\ undoes \in [Backends -> SUBSET Rels]
    /\ wait \in [Backends -> Rels \cup {None}]
    /\ lock \in [Rels -> Backends \cup {None}]
    /\ file \in [Rels -> SUBSET Txs] /\ wrote \in [Txs -> SUBSET Rels]
    /\ due \in Conns(SUBSET Txs)

Everywhere(x) == [b \in Backends |-> [r \in Rels |-> x]]

Init ==
    /\ nextTx = 1 /\ tx = [b \in Backends |-> 0] /\ committed = {}
    /\ phase = [b \in Backends |-> "idle"]
    /\ TX_RELS = [b \in Backends |-> {}]
    /\ in_txn = Everywhere(FALSE) /\ active = Everywhere({})
    /\ reading = Everywhere(FALSE) /\ view = Everywhere({})
    /\ sub = [b \in Backends |-> FALSE] /\ undoes = [b \in Backends |-> {}]
    /\ wait = [b \in Backends |-> None]
    /\ lock = [r \in Rels |-> None] /\ file = [r \in Rels |-> {}]
    /\ wrote = [t \in Txs |-> {}]
    /\ due = Everywhere({})
-----------------------------------------------------------------------------
(* Reading. *)

\* The file as b's connection reads it now: select_all and select_xmax_batch,
\* which run to their end, return this.
ViewOf(b, r) == IF reading[b][r] THEN view[b][r] ELSE file[r]

\* A callback of an open transaction that is not waiting inside another one.
Running(b) == phase[b] = "open" /\ wait[b] = None

\* with_conn, through ensure_in_xact.
Touch(b, r) == TX_RELS' = [TX_RELS EXCEPT ![b] = @ \cup {r}]

\* Mutant: the statement comes from the cache as it was left.
prepare_cached_dirty(b, r, s) == reading[b][r]

\* Resetting s ends the read transaction, unless another statement is active
\* or the connection is inside BEGIN.  Does it stay open?
prepare_cached(b, r, s) ==
    reading[b][r] /\ (active[b][r] \ {s} # {} \/ in_txn[b][r])

\* Run s on b's connection: it stops at a row, or runs to its end.
StepStatement(b, r, s, row) ==
    LET kept == prepare_cached(b, r, s)
        rest == active[b][r] \ {s}
        open == in_txn[b][r] \/ rest # {} \/ row
    IN  /\ active' = [active EXCEPT ![b][r] = IF row THEN rest \cup {s} ELSE rest]
        /\ reading' = [reading EXCEPT ![b][r] = open]
        /\ view' = [view EXCEPT ![b][r] =
                      CASE ~open -> {}
                        [] open /\ kept -> @
                        [] open /\ ~kept -> file[r]]
        /\ UNCHANGED <<wait, lock, file>>

readUnchanged == <<nextTx, tx, phase, committed, in_txn, subxact, wrote>>

\* estimate_size: count(*) always answers one row, and is left there.
estimate_size(b, r) == StepStatement(b, r, "count", TRUE)

\* relation_estimate_size, when a statement on r is planned.
relation_estimate_size(b, r) ==
    /\ Running(b) /\ Touch(b, r)
    /\ estimate_size(b, r)
    /\ due' = [due EXCEPT ![b][r] =
                 IF active[b][r] \subseteq {"count"} /\ ~in_txn[b][r] THEN file[r] ELSE @]
    /\ UNCHANGED readUnchanged

\* fetch_one_ref, select_one and meta_get: the row is there, or it is not.
Lookup(b, r, s, found) ==
    /\ Running(b) /\ Touch(b, r)
    /\ StepStatement(b, r, s, found)
    /\ UNCHANGED <<readUnchanged, due>>

\* select_all: runs to its end, under whatever view there is.
select_all(b, r) ==
    /\ Running(b) /\ Touch(b, r)
    /\ StepStatement(b, r, "all", FALSE)
    /\ UNCHANGED <<readUnchanged, due>>
-----------------------------------------------------------------------------
(* Writing. *)

\* b's connection gets r's write lock, or has it, and writes.
Acquire(b, r) ==
    /\ lock' = [lock EXCEPT ![r] = b]
    /\ reading' = [reading EXCEPT ![b][r] = TRUE]
    /\ view' = [view EXCEPT ![b][r] = ViewOf(b, r) \cup {tx[b]}]
    /\ wrote' = [wrote EXCEPT ![tx[b]] = @ \cup {r}]

\* SQLite's verdict on a write statement.  A connection in a read transaction
\* is refused at once, without its busy handler, if another has the lock
\* (SQLITE_BUSY) or its view is not the latest (SQLITE_BUSY_SNAPSHOT).
Verdict(b, r) ==
    CASE lock[r] = b -> "ok"
      [] lock[r] # b /\ reading[b][r] /\ (lock[r] # None \/ view[b][r] # file[r]) -> "busy"
      [] lock[r] # b /\ ~reading[b][r] /\ lock[r] # None -> "wait"
      [] OTHER -> "ok"

\* Mutant: step_done takes SQLITE_BUSY for success.
step_done_lenient(b, r) ==
    \/ /\ Verdict(b, r) = "ok" /\ Acquire(b, r)
       /\ UNCHANGED <<phase, wait>>
    \/ /\ Verdict(b, r) = "wait" /\ wait' = [wait EXCEPT ![b] = r]
       /\ UNCHANGED <<phase, lock, reading, view, wrote>>
    \/ /\ Verdict(b, r) = "busy"
       /\ wrote' = [wrote EXCEPT ![tx[b]] = @ \cup {r}]
       /\ UNCHANGED <<phase, wait, lock, reading, view>>

\* step_done: the statement is done, or waits in the busy handler, or dies.
step_done(b, r) ==
    \/ /\ Verdict(b, r) = "ok" /\ Acquire(b, r)
       /\ UNCHANGED <<phase, wait>>
    \/ /\ Verdict(b, r) = "wait" /\ wait' = [wait EXCEPT ![b] = r]
       /\ UNCHANGED <<phase, lock, reading, view, wrote>>
    \/ /\ Verdict(b, r) = "busy" /\ phase' = [phase EXCEPT ![b] = "failed"]
       /\ UNCHANGED <<wait, lock, reading, view, wrote>>

begin_if_needed(b, R) ==
    in_txn' = [in_txn EXCEPT ![b] = [r \in Rels |-> @[r] \/ r \in R]]

\* Any write path: BEGIN (deferred: it takes no lock) and the statement.
Write(b, r) ==
    /\ Running(b) /\ Touch(b, r)
    /\ begin_if_needed(b, {r})
    /\ step_done(b, r)
    /\ UNCHANGED <<nextTx, tx, committed, subxact, active, file, due>>

\* The busy handler finds the lock free; the view is taken only now.
Granted(b) ==
    /\ wait[b] # None /\ lock[wait[b]] = None
    /\ Acquire(b, wait[b])
    /\ wait' = [wait EXCEPT ![b] = None]
    /\ UNCHANGED <<nextTx, tx, phase, committed, TX_RELS, in_txn, subxact, active, file, due>>

\* PRAGMA busy_timeout: the statement gives up with SQLITE_BUSY, and dies.
BusyTimeout(b) ==
    /\ wait[b] # None
    /\ wait' = [wait EXCEPT ![b] = None]
    /\ phase' = [phase EXCEPT ![b] = "failed"]
    /\ UNCHANGED <<nextTx, tx, committed, TX_RELS, in_txn, subxact, active, reading,
                   view, lock, file, wrote, due>>
-----------------------------------------------------------------------------
(* Subtransactions: SAVEPOINT, or a PL/pgSQL block with EXCEPTION. *)

\* on_sub_start: BEGIN and SAVEPOINT on every relation touched so far.
on_sub_start(b) ==
    /\ Running(b) /\ ~sub[b]
    /\ begin_if_needed(b, TX_RELS[b])
    /\ sub' = [sub EXCEPT ![b] = TRUE]
    /\ undoes' = [undoes EXCEPT ![b] = {r \in TX_RELS[b] : tx[b] \notin view[b][r]}]
    /\ UNCHANGED <<nextTx, tx, phase, committed, TX_RELS, sqlite, wrote, due>>

SubEnds(b) == sub' = [sub EXCEPT ![b] = FALSE] /\ undoes' = [undoes EXCEPT ![b] = {}]

\* on_sub_commit: RELEASE.
on_sub_commit(b) ==
    /\ Running(b) /\ sub[b] /\ SubEnds(b)
    /\ UNCHANGED <<nextTx, tx, phase, committed, TX_RELS, in_txn, sqlite, wrote, due>>

\* on_sub_abort, the client's or an error's: ROLLBACK TO takes back what was
\* written since the SAVEPOINT, on relations that have one.  The transaction goes
\* on, and keeps its read transactions and its write locks.
on_sub_abort(b) ==
    /\ phase[b] = "failed" \/ Running(b)
    /\ sub[b] /\ SubEnds(b)
    /\ phase' = [phase EXCEPT ![b] = "open"]
    /\ view' = [view EXCEPT ![b] = [r \in Rels |-> @[r] \ {t \in {tx[b]} : r \in undoes[b]}]]
    /\ wrote' = [wrote EXCEPT ![tx[b]] = @ \ undoes[b]]
    /\ UNCHANGED <<nextTx, tx, committed, TX_RELS, in_txn, active, reading, wait, lock,
                   file, due>>
-----------------------------------------------------------------------------
(* The transaction. *)

Begin(b) ==
    /\ phase[b] = "idle" /\ nextTx <= MaxTx
    /\ tx' = [tx EXCEPT ![b] = nextTx] /\ nextTx' = nextTx + 1
    /\ phase' = [phase EXCEPT ![b] = "open"]
    /\ UNCHANGED <<committed, TX_RELS, in_txn, subxact, sqlite, wrote, due>>

\* COMMIT and ROLLBACK end the SQLite transactions of the relations touched.
\* Statements that are still active keep the read transaction, with v as the
\* file it shows.
EndSqlite(b, v) ==
    LET ending == {r \in TX_RELS[b] : in_txn[b][r]}
        stays(r) == IF r \in ending THEN active[b][r] # {} ELSE reading[b][r]
    IN  /\ in_txn' = [in_txn EXCEPT ![b] = [r \in Rels |-> @[r] /\ r \notin ending]]
        /\ lock' = [r \in Rels |-> IF lock[r] = b /\ r \in ending THEN None ELSE lock[r]]
        /\ reading' = [reading EXCEPT ![b] = [r \in Rels |-> stays(r)]]
        /\ view' = [view EXCEPT ![b] = [r \in Rels |-> IF stays(r) THEN v[r] ELSE {}]]
        /\ TX_RELS' = [TX_RELS EXCEPT ![b] = {}]

\* on_precommit: COMMIT.
on_precommit(b) ==
    /\ Running(b) /\ ~sub[b]
    /\ file' = [r \in Rels |-> IF lock[r] = b THEN view[b][r] ELSE file[r]]
    /\ EndSqlite(b, view[b])
    /\ phase' = [phase EXCEPT ![b] = "precommit"]
    /\ UNCHANGED <<nextTx, tx, committed, subxact, active, wait, wrote, due>>

EndXact(b) ==
    /\ phase[b] = "precommit"
    /\ committed' = committed \cup {tx[b]}
    /\ phase' = [phase EXCEPT ![b] = "idle"] /\ tx' = [tx EXCEPT ![b] = 0]
    /\ UNCHANGED <<nextTx, TX_RELS, in_txn, subxact, sqlite, wrote, due>>

\* Mutant: ROLLBACK is forgotten.
on_abort_forgets(b) ==
    /\ (phase[b] = "failed" /\ ~sub[b]) \/ Running(b)
    /\ SubEnds(b)
    /\ TX_RELS' = [TX_RELS EXCEPT ![b] = {}]
    /\ phase' = [phase EXCEPT ![b] = "idle"] /\ tx' = [tx EXCEPT ![b] = 0]
    /\ wrote' = [wrote EXCEPT ![tx[b]] = {}]
    /\ UNCHANGED <<nextTx, committed, in_txn, sqlite, due>>

\* Mutant: the transaction is aborted while its statement goes on waiting.
on_abort_waiting(b) ==
    /\ (phase[b] = "failed" /\ ~sub[b]) \/ phase[b] = "open"
    /\ SubEnds(b)
    /\ EndSqlite(b, [r \in Rels |-> view[b][r] \ {tx[b]}])
    /\ phase' = [phase EXCEPT ![b] = "idle"] /\ tx' = [tx EXCEPT ![b] = 0]
    /\ wrote' = [wrote EXCEPT ![tx[b]] = {}]
    /\ UNCHANGED <<nextTx, committed, active, wait, file, due>>

\* on_abort: ROLLBACK takes back the transaction's own writes.  (An error in a
\* subtransaction runs on_sub_abort.)
on_abort(b) ==
    /\ (phase[b] = "failed" /\ ~sub[b]) \/ Running(b)
    /\ SubEnds(b)
    /\ EndSqlite(b, [r \in Rels |-> view[b][r] \ {tx[b]}])
    /\ phase' = [phase EXCEPT ![b] = "idle"] /\ tx' = [tx EXCEPT ![b] = 0]
    /\ wrote' = [wrote EXCEPT ![tx[b]] = {}]
    /\ UNCHANGED <<nextTx, committed, active, wait, file, due>>

\* The backend exits: Drop finalizes the statements and closes the connections.
Exit(b) ==
    /\ phase[b] = "idle"
    /\ active' = [active EXCEPT ![b] = [r \in Rels |-> {}]]
    /\ reading' = [reading EXCEPT ![b] = [r \in Rels |-> FALSE]]
    /\ view' = [view EXCEPT ![b] = [r \in Rels |-> {}]]
    /\ UNCHANGED <<nextTx, tx, phase, committed, TX_RELS, in_txn, subxact, wait, lock,
                   file, wrote, due>>

Next ==
    \E b \in Backends :
        \/ Begin(b) \/ on_sub_start(b) \/ on_sub_commit(b) \/ on_sub_abort(b)
        \/ Granted(b) \/ BusyTimeout(b)
        \/ on_precommit(b) \/ EndXact(b) \/ on_abort(b) \/ Exit(b)
        \/ \E r \in Rels : Write(b, r)
        \/ \E r \in ReadRels :
            \/ relation_estimate_size(b, r) \/ select_all(b, r)
            \/ \E s \in Lookups, found \in BOOLEAN : Lookup(b, r, s, found)

\* SQLite's busy handler gives up in the end, and Postgres aborts the transaction
\* or subtransaction whose statement raised an error.  Nothing makes a client go
\* on: what a subtransaction's error leaves open may stay so.
Fairness ==
    \A b \in Backends :
        /\ WF_vars(BusyTimeout(b))
        /\ WF_vars(phase[b] = "failed" /\ (on_sub_abort(b) \/ on_abort(b)))

Spec == Init /\ [][Next]_vars /\ Fairness
-----------------------------------------------------------------------------
(* Properties. *)

\* Whatever views connections keep and whoever commits first, no committed
\* write is overwritten or dropped: a transaction that was told its write was
\* done, and has a commit record, is in the file for good (step_done dies on
\* SQLITE_BUSY and SQLITE_BUSY_SNAPSHOT; on_precommit commits).
CommittedStay ==
    \A t \in committed : \A r \in wrote[t] : t \in file[r]

\* When a statement on r is planned and the connection has no lookup active
\* and no SQLite transaction, what was committed by then is in everything the
\* connection reads from then on: prepare_cached resets the count(*) that an
\* earlier planning left active, and a view never goes back, through the
\* connection's own commits and rollbacks.
PlannedFresh ==
    \A b \in Backends, r \in Rels : due[b][r] \subseteq ViewOf(b, r)

\* Nobody waits for ever, also when two backends write two relations in
\* opposite orders and no client goes on: a backend that waits for a file's lock
\* gets it, or gives up (busy_timeout).  Outside a subtransaction it then lets go
\* of every lock it has (on_abort); in one it goes back to the SAVEPOINT, and the
\* locks its transaction has stay (on_sub_abort).
WaitEnds ==
    \A b \in Backends, r \in Rels :
        /\ wait[b] = r /\ ~sub[b] ~>
               wait[b] = None /\ (lock[r] = b \/ \A q \in Rels : lock[q] # b)
        /\ wait[b] = r /\ sub[b] ~>
               wait[b] = None /\ (lock[r] = b \/ ~sub[b])
-----------------------------------------------------------------------------
(* What comments of the code claim. *)

\* sqlite.rs RelConn: a read-only transaction needs no SQLite transaction,
\* "SQLite's per-statement autocommit gives an identical consistent read" - a
\* statement planned outside a SQLite transaction reads the committed file.
FreshReads ==
    [][\A b \in Backends, r \in Rels :
          relation_estimate_size(b, r) /\ ~in_txn[b][r] => view'[b][r] = file[r]]_vars
=============================================================================
