------------------------------- MODULE XactConn -------------------------------
(***************************************************************************)
(* The SQLite connections of one backend under Postgres's transaction and  *)
(* subtransaction callbacks (src/src/sqlite.rs): TX_RELS, CONNS, the lazy  *)
(* registration of the callbacks, SAVEPOINTs, the commit of several files, *)
(* and the removal of a dropped relation's file.                           *)
(*                                                                         *)
(* A file's content is the set of (sub)transactions that have written it.  *)
(* A (sub)transaction is a number; the xids of HeapStore are such numbers. *)
(***************************************************************************)
EXTENDS Naturals, Sequences, FiniteSets

CONSTANTS
    Rels,           \* relations
    MaxId,          \* bound: transactions and subtransactions
    MaxDepth,       \* bound: open subtransactions
    FirstOpenFails, \* may open_conn fail on a transaction's first relation?
    LaterOpenFails, \* ... on a later one?
    CommitFails,    \* may SQLite's COMMIT fail?
    SubxactTouch,   \* may a relation be touched first in a subtransaction?
    SubxactDrop     \* may a DROP TABLE run in a subtransaction?

ASSUME XactAssumption ==
    /\ IsFiniteSet(Rels) /\ MaxId \in Nat /\ MaxDepth \in Nat
    /\ {FirstOpenFails, LaterOpenFails, CommitFails, SubxactTouch, SubxactDrop}
         \subseteq BOOLEAN

VARIABLES
    \* Postgres
    pg,         \* idle; open; failed: a statement raised an error; precommit:
                \* running the PreCommit callback; late: that raised an error;
                \* committed: commit record written
    stack,      \* open levels, the top transaction first: its number, and the
                \* numbers that will end with it (own and committed children's)
    nextId, committed,
    registered, \* this transaction has our callbacks
    unlinks,    \* relations with a Commit callback that unlinks their file
    dropper,    \* dropper[r]: the (sub)transaction that dropped r, else 0
    \* the backend's memory
    TX_RELS, CONNS, taken,  \* taken: what on_precommit has still to commit
    in_txn,     \* RelConn.in_txn
    work,       \* work[r]: the file as r's open SQLite transaction sees it
    savepoints, \* savepoints[r]: SQLite's savepoint stack
    adrift,     \* relations whose BEGIN SQLite has undone, in_txn being TRUE
    \* the disk
    file, exists,
    \* History, for the properties: rolled back before PreCommit; writes made;
    \* those made below a level with no SAVEPOINT; relations left by a COMMIT
    \* that failed; those SQLite has at some time rolled back by itself.
    undone, wrote, bare, stranded, ruined

postgres == <<pg, stack, nextId, committed, registered, unlinks, dropper>>
sqlite   == <<in_txn, work, savepoints, adrift, file, exists>>
history  == <<undone, wrote, bare, stranded, ruined>>
vars     == <<postgres, TX_RELS, CONNS, taken, sqlite, history>>

Init ==
    /\ pg = "idle" /\ stack = <<>> /\ nextId = 1
    /\ committed = {} /\ undone = {} /\ registered = FALSE
    /\ unlinks = {} /\ dropper = [r \in Rels |-> 0]
    /\ TX_RELS = {} /\ CONNS = {} /\ taken = {}
    /\ in_txn = [r \in Rels |-> FALSE] /\ exists = [r \in Rels |-> TRUE]
    /\ work = [r \in Rels |-> {}] /\ file = [r \in Rels |-> {}]
    /\ wrote = [r \in Rels |-> {}] /\ bare = [r \in Rels |-> {}]
    /\ stranded = {} /\ ruined = {}
    /\ savepoints = [r \in Rels |-> <<>>] /\ adrift = {}

Top == stack[Len(stack)]

\* Everything that ends with the current transaction.
All == UNION {stack[i].all : i \in DOMAIN stack}

\* The catalog knows r: it was not dropped, or not by a transaction still alive.
InCatalog(r) == dropper[r] \notin committed \cup All
-----------------------------------------------------------------------------
Begin ==
    /\ pg = "idle" /\ nextId <= MaxId
    /\ pg' = "open" /\ nextId' = nextId + 1
    /\ stack' = <<[id |-> nextId, all |-> {nextId}]>>
    /\ UNCHANGED <<committed, registered, unlinks, dropper, TX_RELS, CONNS, taken,
                   sqlite, history>>

\* Mutant: the callbacks are registered for the first connection opened, not
\* for the first relation of the transaction.
ensure_in_xact_once(r) ==
    /\ pg = "open" /\ InCatalog(r) /\ r \notin TX_RELS
    /\ SubxactTouch \/ Len(stack) = 1
    /\ TX_RELS' = TX_RELS \cup {r}
    /\ CONNS' = CONNS \cup {r}
    /\ exists' = [exists EXCEPT ![r] = TRUE]
    /\ registered' = (registered \/ (TX_RELS = {} /\ r \notin CONNS))
    /\ UNCHANGED <<pg, stack, nextId, committed, unlinks, dropper, taken,
                   in_txn, work, savepoints, adrift, file, history>>

\* ensure_in_xact, first touch of r in this transaction: r goes into TX_RELS,
\* its file is opened (or created) unless a connection is cached, and the first
\* relation registers the callbacks.
ensure_in_xact(r) ==
    /\ pg = "open" /\ InCatalog(r) /\ r \notin TX_RELS
    /\ SubxactTouch \/ Len(stack) = 1
    /\ TX_RELS' = TX_RELS \cup {r}
    /\ CONNS' = CONNS \cup {r}
    /\ exists' = [exists EXCEPT ![r] = TRUE]
    /\ registered' = (registered \/ TX_RELS = {})
    /\ UNCHANGED <<pg, stack, nextId, committed, unlinks, dropper, taken,
                   in_txn, work, savepoints, adrift, file, history>>

\* The same, when open_conn dies: r is in TX_RELS already, the callbacks are
\* not registered yet.
OpenFails(r) ==
    /\ pg = "open" /\ InCatalog(r) /\ r \notin TX_RELS \cup CONNS
    /\ SubxactTouch \/ Len(stack) = 1
    /\ IF TX_RELS = {} THEN FirstOpenFails ELSE LaterOpenFails
    /\ TX_RELS' = TX_RELS \cup {r}
    /\ pg' = "failed"
    /\ UNCHANGED <<stack, nextId, committed, registered, unlinks, dropper, CONNS,
                   taken, sqlite, history>>

\* with_conn of a relation whose open failed: "connection should be cached".
Uncached(r) ==
    /\ pg = "open" /\ InCatalog(r) /\ r \in TX_RELS \ CONNS
    /\ pg' = "failed"
    /\ UNCHANGED <<stack, nextId, committed, registered, unlinks, dropper, TX_RELS,
                   CONNS, taken, sqlite, history>>

\* in_txn[r] is TRUE, and SQLite has no transaction: neither BEGIN's, nor one
\* that a SAVEPOINT has opened since.
Lost(r) == r \in adrift /\ savepoints[r] = <<>>

\* The file as r's connection sees it.
Current(r) == IF in_txn[r] /\ ~Lost(r) THEN work[r] ELSE file[r]

\* Every open subtransaction has its SAVEPOINT on r.
Savepointed(r) == \A i \in 2..Len(stack) :
    \E j \in DOMAIN savepoints[r] : savepoints[r][j].id = stack[i].id

\* A write path: begin_if_needed and the statement.
Writable(r) == pg = "open" /\ InCatalog(r) /\ r \in TX_RELS \cap CONNS

Written(r) ==
    /\ wrote' = [wrote EXCEPT ![r] = @ \cup {Top.id}]
    /\ bare' = [bare EXCEPT ![r] = IF Savepointed(r) THEN @ ELSE @ \cup {Top.id}]

Write(r) ==
    /\ Writable(r) /\ ~Lost(r)
    /\ in_txn' = [in_txn EXCEPT ![r] = TRUE]
    /\ work' = [work EXCEPT ![r] = Current(r) \cup {Top.id}]
    /\ Written(r)
    /\ UNCHANGED <<postgres, TX_RELS, CONNS, taken, savepoints, adrift, file, exists,
                   undone, stranded, ruined>>

\* The same when in_txn is TRUE but nothing is open: the statement autocommits.
WriteThrough(r) ==
    /\ Writable(r) /\ Lost(r)
    /\ file' = [file EXCEPT ![r] = @ \cup {Top.id}]
    /\ Written(r)
    /\ UNCHANGED <<postgres, TX_RELS, CONNS, taken, in_txn, work, savepoints, adrift,
                   exists, undone, stranded, ruined>>

\* Any other error of a statement.
StatementFails ==
    /\ pg = "open" /\ pg' = "failed"
    /\ UNCHANGED <<stack, nextId, committed, registered, unlinks, dropper, TX_RELS,
                   CONNS, taken, sqlite, history>>

\* SQLite rolls back r's transaction (SQLITE_FULL, SQLITE_IOERR, SQLITE_NOMEM);
\* RelConn is not told.
RolledBack(r) ==
    /\ work' = [work EXCEPT ![r] = {}]
    /\ savepoints' = [savepoints EXCEPT ![r] = <<>>]
    /\ adrift' = adrift \cup {r} /\ ruined' = ruined \cup {r}

\* A write fails in such a way that SQLite rolls back the whole transaction.
WriteRollsBack(r) ==
    /\ Writable(r)
    /\ pg' = "failed"
    /\ in_txn' = [in_txn EXCEPT ![r] = TRUE]
    /\ RolledBack(r)
    /\ UNCHANGED <<stack, nextId, committed, registered, unlinks, dropper, TX_RELS,
                   CONNS, taken, file, exists, undone, wrote, bare, stranded>>
-----------------------------------------------------------------------------
(* Subtransactions: SAVEPOINT, or a PL/pgSQL block with EXCEPTION. *)

\* The relations the subtransaction callbacks work on.
Callable == IF registered THEN TX_RELS \cap CONNS ELSE {}

\* The SubTransactionId a savepoint is named after: Postgres counts them from
\* the start of each transaction.
SubId(id) == id - stack[1].id

on_sub_start ==
    /\ pg = "open" /\ Len(stack) <= MaxDepth /\ nextId <= MaxId
    /\ nextId' = nextId + 1
    /\ stack' = Append(stack, [id |-> nextId, all |-> {nextId}])
    /\ in_txn' = [r \in Rels |-> in_txn[r] \/ r \in Callable]
    /\ work' = [r \in Rels |-> IF r \in Callable THEN Current(r) ELSE work[r]]
    /\ savepoints' = [r \in Rels |->
         IF r \in Callable
         THEN Append(savepoints[r], [id |-> nextId, name |-> SubId(nextId), saved |-> Current(r)])
         ELSE savepoints[r]]
    /\ UNCHANGED <<pg, committed, registered, unlinks, dropper, TX_RELS, CONNS,
                   taken, adrift, file, exists, history>>

\* Where the current subtransaction's savepoint is on r's stack: nowhere (the
\* statement fails with a warning), or at the highest place with its name.
Place(r) ==
    LET named == {i \in DOMAIN savepoints[r] : r \in Callable /\ in_txn[r]
                                   /\ savepoints[r][i].name = SubId(Top.id)}
    IN {i \in named : \A j \in named : j <= i}

\* The outermost savepoint of a transaction without BEGIN: RELEASE commits it.
Outermost(r) == r \in adrift /\ 1 \in Place(r)

\* RELEASE takes the savepoint and all above it off the stack.
on_sub_commit ==
    /\ pg = "open" /\ Len(stack) > 1
    /\ stack' = [SubSeq(stack, 1, Len(stack) - 1)
                    EXCEPT ![Len(stack) - 1].all = @ \cup Top.all]
    /\ savepoints' = [r \in Rels |->
         IF Place(r) = {} THEN savepoints[r]
         ELSE SubSeq(savepoints[r], 1, (CHOOSE i \in Place(r) : TRUE) - 1)]
    /\ work' = [r \in Rels |-> IF Outermost(r) THEN {} ELSE work[r]]
    /\ file' = [r \in Rels |-> IF Outermost(r) THEN work[r] ELSE file[r]]
    /\ UNCHANGED <<pg, nextId, committed, registered, unlinks, dropper, TX_RELS,
                   CONNS, taken, in_txn, adrift, exists, history>>

\* Mutant: RELEASE in the place of ROLLBACK TO.
on_sub_abort_releases ==
    /\ pg \in {"open", "failed"} /\ Len(stack) > 1
    /\ pg' = "open"
    /\ stack' = SubSeq(stack, 1, Len(stack) - 1)
    /\ undone' = undone \cup Top.all
    /\ savepoints' = [r \in Rels |->
         IF Place(r) = {} THEN savepoints[r]
         ELSE SubSeq(savepoints[r], 1, (CHOOSE i \in Place(r) : TRUE) - 1)]
    /\ UNCHANGED <<nextId, committed, registered, unlinks, dropper, TX_RELS, CONNS,
                   taken, in_txn, work, adrift, file, exists, wrote, bare, stranded,
                   ruined>>

\* ROLLBACK TO puts back the content, drops the savepoints above and keeps its
\* own.  The Commit callbacks that were registered stay registered.
on_sub_abort ==
    /\ pg \in {"open", "failed"} /\ Len(stack) > 1
    /\ pg' = "open"
    /\ stack' = SubSeq(stack, 1, Len(stack) - 1)
    /\ undone' = undone \cup Top.all
    /\ work' = [r \in Rels |->
         IF Place(r) = {} THEN work[r]
         ELSE savepoints[r][CHOOSE i \in Place(r) : TRUE].saved]
    /\ savepoints' = [r \in Rels |->
         IF Place(r) = {} THEN savepoints[r]
         ELSE SubSeq(savepoints[r], 1, CHOOSE i \in Place(r) : TRUE)]
    /\ UNCHANGED <<nextId, committed, registered, unlinks, dropper, TX_RELS, CONNS,
                   taken, in_txn, adrift, file, exists, wrote, bare, stranded,
                   ruined>>

\* DROP TABLE: the sql_drop trigger calls drop_relation, which registers a
\* Commit callback.
drop_relation(r) ==
    /\ pg = "open" /\ InCatalog(r)
    /\ SubxactDrop \/ Len(stack) = 1
    /\ dropper' = [dropper EXCEPT ![r] = Top.id]
    /\ unlinks' = unlinks \cup {r}
    /\ UNCHANGED <<pg, stack, nextId, committed, registered, TX_RELS, CONNS, taken,
                   sqlite, history>>
-----------------------------------------------------------------------------
(* The end of the transaction. *)

\* SQLite ends its transaction on the relations in R, leaving the files as f.
EndSqlite(R, f) ==
    /\ in_txn' = [r \in Rels |-> in_txn[r] /\ r \notin R]
    /\ work' = [r \in Rels |-> IF r \in R THEN {} ELSE work[r]]
    /\ savepoints' = [r \in Rels |-> IF r \in R THEN <<>> ELSE savepoints[r]]
    /\ file' = f
    /\ adrift' = adrift \ R /\ stranded' = stranded \ R

\* Mutant: the event trigger's callback runs at PreCommit.
on_precommit_unlinks ==
    /\ pg = "open" /\ Len(stack) = 1
    /\ pg' = "precommit"
    /\ taken' = IF registered THEN TX_RELS ELSE {}
    /\ TX_RELS' = IF registered THEN {} ELSE TX_RELS
    /\ exists' = [r \in Rels |-> exists[r] /\ r \notin unlinks]
    /\ UNCHANGED <<stack, nextId, committed, registered, unlinks, dropper, CONNS,
                   in_txn, work, savepoints, adrift, file, history>>

\* on_precommit takes TX_RELS and commits its connections one after the other.
on_precommit ==
    /\ pg = "open" /\ Len(stack) = 1
    /\ pg' = "precommit"
    /\ taken' = IF registered THEN TX_RELS ELSE {}
    /\ TX_RELS' = IF registered THEN {} ELSE TX_RELS
    /\ UNCHANGED <<stack, nextId, committed, registered, unlinks, dropper, CONNS,
                   sqlite, history>>

\* RelConn::commit, if r has a connection and it is in a transaction.
CommitOne(r) ==
    /\ pg = "precommit" /\ r \in taken
    /\ taken' = taken \ {r}
    /\ IF r \in CONNS /\ in_txn[r]
       THEN ~Lost(r) /\ EndSqlite({r}, [file EXCEPT ![r] = work[r]])
       ELSE UNCHANGED <<in_txn, work, savepoints, adrift, file, stranded>>
    /\ UNCHANGED <<postgres, TX_RELS, CONNS, exists, undone, wrote, bare, ruined>>

\* COMMIT fails, and does if there is no transaction: die leaves the loop, and
\* the relations after r untouched.  SQLite's transaction may stay open, or not.
CommitDies(r) ==
    /\ pg = "precommit" /\ r \in taken \cap CONNS /\ in_txn[r]
    /\ CommitFails \/ Lost(r)
    /\ taken' = {} /\ pg' = "late"
    /\ stranded' = stranded \cup {q \in taken \cap CONNS : in_txn[q]}
    /\ UNCHANGED <<work, savepoints, adrift, ruined>> \/ RolledBack(r)
    /\ UNCHANGED <<stack, nextId, committed, registered, unlinks, dropper, TX_RELS,
                   CONNS, in_txn, file, exists, undone, wrote, bare>>

RecordCommit ==
    /\ pg = "precommit" /\ taken = {}
    /\ pg' = "committed" /\ committed' = committed \cup All
    /\ UNCHANGED <<stack, nextId, registered, unlinks, dropper, TX_RELS, CONNS,
                   taken, sqlite, history>>

\* The transaction is over, its callbacks are forgotten.
EndXact == /\ pg' = "idle" /\ stack' = <<>> /\ registered' = FALSE /\ unlinks' = {}
           /\ UNCHANGED <<nextId, dropper>>

\* The Commit callbacks: unlink_storage closes the connection and removes the
\* file.
unlink_storage ==
    /\ pg = "committed"
    /\ CONNS' = CONNS \ unlinks /\ TX_RELS' = TX_RELS \ unlinks
    /\ exists' = [r \in Rels |-> exists[r] /\ r \notin unlinks]
    /\ EndSqlite(unlinks, [r \in Rels |-> IF r \in unlinks THEN {} ELSE file[r]])
    /\ EndXact
    /\ UNCHANGED <<committed, taken, undone, wrote, bare, ruined>>

\* Mutant: only the relations a savepoint was taken on are rolled back.
on_abort_savepointed ==
    /\ pg \in {"open", "failed", "precommit", "late"} /\ taken = {}
    /\ IF registered
       THEN /\ TX_RELS' = {}
            /\ EndSqlite({r \in TX_RELS \cap CONNS : savepoints[r] # <<>>}, file)
       ELSE UNCHANGED <<TX_RELS, in_txn, work, savepoints, adrift, file, stranded>>
    /\ undone' = IF pg \in {"open", "failed"} THEN undone \cup All ELSE undone
    /\ EndXact
    /\ UNCHANGED <<committed, CONNS, taken, exists, wrote, bare, ruined>>

\* on_abort rolls back what is in TX_RELS.
on_abort ==
    /\ pg \in {"open", "failed", "precommit", "late"} /\ taken = {}
    /\ IF registered
       THEN TX_RELS' = {} /\ EndSqlite(TX_RELS \cap CONNS, file)
       ELSE UNCHANGED <<TX_RELS, in_txn, work, savepoints, adrift, file, stranded>>
    /\ undone' = IF pg \in {"open", "failed"} THEN undone \cup All ELSE undone
    /\ EndXact
    /\ UNCHANGED <<committed, CONNS, taken, exists, wrote, bare, ruined>>

\* The process ends: Drop closes the connections, SQLite rolls back.
Exit ==
    /\ TX_RELS' = {} /\ CONNS' = {} /\ taken' = {}
    /\ EndSqlite(Rels, file)
    /\ EndXact
    /\ UNCHANGED <<committed, exists, undone, wrote, bare, ruined>>

Next ==
    \/ Begin \/ StatementFails
    \/ \E r \in Rels : \/ ensure_in_xact(r) \/ OpenFails(r) \/ Uncached(r)
                        \/ Write(r) \/ WriteThrough(r) \/ WriteRollsBack(r)
    \/ on_sub_start \/ on_sub_commit \/ on_sub_abort
    \/ \E r \in Rels : drop_relation(r)
    \/ on_precommit \/ \E r \in Rels : CommitOne(r) \/ CommitDies(r)
    \/ RecordCommit \/ unlink_storage \/ on_abort \/ Exit

Spec == Init /\ [][Next]_vars
-----------------------------------------------------------------------------
(* Properties. *)

\* No committed write is missing: what a transaction with a commit record wrote
\* is in the files, unless the relation was dropped (sqlite.rs ensure_in_xact:
\* the other order "would leave committed-but-missing data") or SQLite has once
\* rolled back its transaction by itself.
CommittedAreStored ==
    \A r \in Rels \ ruined : InCatalog(r) => wrote[r] \cap committed \subseteq file[r]

\* What was rolled back before the transaction began to commit leaves no trace
\* in a file or in an open SQLite transaction (EXPLAINER.html: "the SQLite
\* transaction simply never happened"), if every subtransaction that was open
\* when it was written had its SAVEPOINT (on_sub_start sets none on a relation
\* touched later), and if SQLite has never rolled back the relation's
\* transaction by itself, whatever it did to the others.
UndoneLeavesNoTrace ==
    \A r \in Rels \ ruined : (Current(r) \cup file[r]) \cap undone \subseteq bare[r]

\* No SQLite transaction, and so no write lock, outlives the Postgres
\* transaction it belongs to, unless its COMMIT failed (on_precommit has
\* emptied TX_RELS, so on_abort rolls back nothing).
NoneLeftOpen == pg = "idle" => \A r \in Rels \ stranded : ~in_txn[r]

\* Only the file of a relation whose DROP committed is removed (sqlite.rs
\* drop_relation: "a rolled-back DROP leaves the file intact").
UnlinksOnlyDropped == \A r \in Rels : ~exists[r] => dropper[r] \in committed
=============================================================================
