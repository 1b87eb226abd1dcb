---------------------------- MODULE SnapshotKinds ----------------------------
(***************************************************************************)
(* The verdicts of src/src/visibility.rs while transactions with           *)
(* subtransactions begin, commit and abort around them.                    *)
(*                                                                         *)
(* HeapStore follows MVCC snapshots of transactions without                *)
(* subtransactions.  Here one backend, Me, holds an MVCC snapshot and runs *)
(* dirty checks (the unique check of an index), whose questions to         *)
(* Postgres are separate steps; the stored rows carry top-level and        *)
(* subtransaction xids.                                                    *)
(*                                                                         *)
(* External, modelled from how the code uses it: xids, the commit log, the *)
(* proc array and GetSnapshotData.                                         *)
(***************************************************************************)
EXTENDS Visibility, FiniteSets

CONSTANTS
    Procs,      \* backends
    Me,         \* the one whose checks are followed
    MaxXid,     \* bound: xids handed out
    MaxRows     \* bound: row versions in the file

ASSUME KindsAssumption == Me \in Procs /\ MaxXid \in Nat /\ MaxRows \in Nat

VARIABLES
    nextXid, clog,
    latest,     \* latestCompletedXid
    phase,      \* phase[p]: idle; open; precommit: its rows are in the SQLite
                \* file; recorded: commit record written, still in the proc array
    top, subs,  \* top[p]: its xid; subs[p]: xids of its subtransactions, running
                \* or committed into it
    undone,     \* undone[p]: xids of its subtransactions that were rolled back
    rows,       \* the row versions in the SQLite file: [xmin, xmax, cmin, cmax]
    snap,       \* Me's MVCC snapshot, NoSnap if none
    \* A dirty check of Me: the row header it has read, the next question, and
    \* what Postgres answered so far.
    check, step, run, done,
    seen        \* history: the xids that had ended in commit when snap was taken

vars == <<nextXid, clog, latest, phase, top, subs, undone, rows, snap,
          check, step, run, done, seen>>

Xid   == 1..MaxXid
Row   == [xmin: Xid, xmax: 0..MaxXid, cmin: {0}, cmax: {0}]
NoRow == [xmin |-> 0, xmax |-> 0, cmin |-> 0, cmax |-> 0]
Snap  == [xmin: Xid \cup {MaxXid + 1}, xmax: Xid \cup {MaxXid + 1},
          xip: SUBSET Xid, subxip: SUBSET Xid]
NoSnap == [xmin |-> 0, xmax |-> 0, xip |-> {}, subxip |-> {}]

TypeOK ==
    /\ nextXid \in 1..(MaxXid + 1) /\ clog \in SUBSET Xid /\ latest \in 0..MaxXid
    /\ phase \in [Procs -> {"idle", "open", "precommit", "recorded"}]
    /\ top \in [Procs -> 0..MaxXid]
    /\ subs \in [Procs -> SUBSET Xid] /\ undone \in [Procs -> SUBSET Xid]
    /\ rows \in SUBSET Row /\ snap \in Snap \cup {NoSnap}
    /\ check \in Row \cup {NoRow} /\ step \in 1..5
    /\ run \in SUBSET Xid /\ done \in SUBSET Xid /\ seen \in SUBSET Xid

Init ==
    /\ nextXid = 1 /\ clog = {} /\ latest = 0
    /\ phase = [p \in Procs |-> "idle"] /\ top = [p \in Procs |-> 0]
    /\ subs = [p \in Procs |-> {}] /\ undone = [p \in Procs |-> {}]
    /\ rows = {} /\ snap = NoSnap /\ seen = {}
    /\ check = NoRow /\ step = 1 /\ run = {} /\ done = {}

checkVars == <<check, step, run, done>>
-----------------------------------------------------------------------------
(* Postgres, as the code uses it. *)

\* TransactionIdIsCurrentTransactionId, TransactionIdIsInProgress.
Xids(p)    == ({top[p]} \ {0}) \cup subs[p]
Current    == Xids(Me)
InProgress == UNION {Xids(p) : p \in Procs}

IsLargest(m, S) == m \in S /\ \A n \in S : n <= m
IsLeast(m, S)   == m \in S /\ \A n \in S : m <= n

\* GetSnapshotData: the running top-level xids are in xip, the running
\* subtransactions in subxip.
Fresh ==
    LET tops == {top[p] : p \in Procs} \ {0}
    IN  [xmin   |-> CHOOSE m \in tops \cup {latest + 1} : IsLeast(m, tops \cup {latest + 1}),
         xmax   |-> latest + 1,
         xip    |-> {x \in tops \ {top[Me]} : x <= latest},
         subxip |-> {x \in UNION {subs[p] : p \in Procs \ {Me}} : x <= latest}]
-----------------------------------------------------------------------------
(* Transactions. *)

AssignXid(p) ==
    /\ phase[p] = "idle" /\ nextXid <= MaxXid
    /\ top' = [top EXCEPT ![p] = nextXid] /\ nextXid' = nextXid + 1
    /\ phase' = [phase EXCEPT ![p] = "open"]
    /\ UNCHANGED <<clog, latest, subs, undone, rows, snap, checkVars, seen>>

AssignSubXid(p) ==
    /\ phase[p] = "open" /\ nextXid <= MaxXid
    /\ subs' = [subs EXCEPT ![p] = @ \cup {nextXid}] /\ nextXid' = nextXid + 1
    /\ UNCHANGED <<clog, latest, phase, top, undone, rows, snap, checkVars, seen>>

AbortSub(p, x) ==
    /\ phase[p] = "open" /\ x \in subs[p]
    /\ subs' = [subs EXCEPT ![p] = @ \ {x}]
    /\ undone' = [undone EXCEPT ![p] = @ \cup {x}]
    /\ latest' = IF x > latest THEN x ELSE latest
    /\ UNCHANGED <<nextXid, clog, phase, top, rows, snap, checkVars, seen>>

\* tuple_insert and tuple_delete under the xid x; a row already stamped is left.
Inserted(x) == [xmin |-> x, xmax |-> 0, cmin |-> 0, cmax |-> 0]
Deleted(r, x) == (rows \ {r}) \cup {[r EXCEPT !.xmax = x]}

\* Me's own writes, which its connection sees at once.  A savepoint does not
\* always take a rolled back subtransaction's rows with it.
Write ==
    /\ phase[Me] = "open" /\ check = NoRow
    /\ \E x \in Current :
        \/ Cardinality(rows) < MaxRows /\ rows' = rows \cup {Inserted(x)}
        \/ \E r \in rows : r.xmax = 0 /\ visible_self(r, Current, clog)
                           /\ rows' = Deleted(r, x)
    /\ UNCHANGED <<nextXid, clog, latest, phase, top, subs, undone, snap, checkVars, seen>>

\* on_precommit of another backend: its SQLite transaction, with an insertion
\* or a deletion, is in the file from here on.  It carries any of its xids.
PreCommit(p) ==
    /\ phase[p] = "open"
    /\ phase' = [phase EXCEPT ![p] = "precommit"]
    /\ \/ UNCHANGED rows
       \/ \E x \in Xids(p) \cup undone[p] :
            /\ p # Me
            /\ \/ Cardinality(rows) < MaxRows /\ rows' = rows \cup {Inserted(x)}
               \/ \E r \in rows : r.xmax = 0 /\ r.xmin \in clog /\ rows' = Deleted(r, x)
    /\ UNCHANGED <<nextXid, clog, latest, top, subs, undone, snap, checkVars, seen>>

RecordCommit(p) ==
    /\ phase[p] = "precommit"
    /\ clog' = clog \cup Xids(p)
    /\ phase' = [phase EXCEPT ![p] = "recorded"]
    /\ UNCHANGED <<nextXid, latest, top, subs, undone, rows, snap, checkVars, seen>>

\* The transaction leaves the proc array, committed or aborted (after PreCommit
\* with its rows in the file).  Me's snapshot and check end with its own.
EndXact(p) ==
    /\ phase[p] # "idle" /\ (p = Me => check = NoRow)
    /\ phase' = [phase EXCEPT ![p] = "idle"]
    /\ top' = [top EXCEPT ![p] = 0]
    /\ subs' = [subs EXCEPT ![p] = {}] /\ undone' = [undone EXCEPT ![p] = {}]
    /\ \E m \in Xid : IsLargest(m, {latest} \cup Xids(p)) /\ latest' = m
    /\ snap' = IF p = Me THEN NoSnap ELSE snap
    /\ seen' = IF p = Me THEN {} ELSE seen
    /\ rows' = IF p = Me /\ phase[p] = "open"
               THEN {[r EXCEPT !.xmax = IF @ \in Xids(Me) \cup undone[Me] THEN 0 ELSE @] :
                       r \in {q \in rows : q.xmin \notin Xids(Me) \cup undone[Me]}}
               ELSE rows
    /\ UNCHANGED <<nextXid, clog, checkVars>>
-----------------------------------------------------------------------------
(* Me's snapshot and its checks. *)

TakeSnapshot ==
    /\ snap = NoSnap /\ snap' = Fresh
    /\ seen' = clog \ InProgress
    /\ UNCHANGED <<nextXid, clog, latest, phase, top, subs, undone, rows, checkVars>>

\* A statement of Me ends.
ReleaseSnapshot ==
    /\ snap # NoSnap /\ snap' = NoSnap /\ seen' = {}
    /\ UNCHANGED <<nextXid, clog, latest, phase, top, subs, undone, rows, checkVars>>

\* index_fetch_tuple with a dirty snapshot: the row header is read first.
StartCheck(r) ==
    /\ check = NoRow /\ r \in rows /\ phase[Me] = "open"
    /\ check' = r /\ step' = 1 /\ run' = {} /\ done' = {}
    /\ UNCHANGED <<nextXid, clog, latest, phase, top, subs, undone, rows, snap, seen>>

\* Mutant: the commit log is asked first.
QuestionsSwapped(r) == <<[ask |-> "committed", xid |-> r.xmin],
                         [ask |-> "running",   xid |-> r.xmin],
                         [ask |-> "committed", xid |-> r.xmax],
                         [ask |-> "running",   xid |-> r.xmax]>>

\* The order in which visible_dirty asks Postgres.
Questions(r) == <<[ask |-> "running",   xid |-> r.xmin],
                  [ask |-> "committed", xid |-> r.xmin],
                  [ask |-> "running",   xid |-> r.xmax],
                  [ask |-> "committed", xid |-> r.xmax]>>

Ask ==
    /\ check # NoRow /\ step <= 4
    /\ LET q == Questions(check)[step]
       IN  /\ run' = run \cup {x \in {q.xid} : q.ask = "running" /\ x \in InProgress}
           /\ done' = done \cup {x \in {q.xid} : q.ask = "committed" /\ x \in clog}
    /\ step' = step + 1
    /\ UNCHANGED <<nextXid, clog, latest, phase, top, subs, undone, rows, snap, check, seen>>

\* The verdict is acted on.
EndCheck ==
    /\ check # NoRow /\ step = 5
    /\ check' = NoRow /\ step' = 1 /\ run' = {} /\ done' = {}
    /\ UNCHANGED <<nextXid, clog, latest, phase, top, subs, undone, rows, snap, seen>>

Next ==
    \/ TakeSnapshot \/ ReleaseSnapshot \/ Write \/ Ask \/ EndCheck
    \/ \E r \in rows : StartCheck(r)
    \/ \E p \in Procs :
        \/ AssignXid(p) \/ AssignSubXid(p) \/ PreCommit(p) \/ RecordCommit(p)
        \/ EndXact(p) \/ \E x \in Xid : AbortSub(p, x)

Spec == Init /\ [][Next]_vars
-----------------------------------------------------------------------------
(* Properties. *)

\* For as long as Me holds its snapshot, an xid of another transaction counts
\* as committed and visible exactly if it had ended in commit when the snapshot
\* was taken - whatever commits, aborts, rolls back to savepoints and late
\* aborts come between - or belongs to a subtransaction that was running then
\* and whose commit record has been written since: xid_view searches xip and
\* not subxip, so these show up in the middle of the snapshot's life, against
\* visibility.rs:20-21 ("Aborted, in-progress, or committed after this
\* snapshot").
SnapshotExact ==
    snap # NoSnap =>
        \A x \in (1..(nextXid - 1)) \ Current :
            xid_view(x, Current, clog, snap) = "CommittedAndVisible"
                <=> x \in seen \cup (snap.subxip \cap clog)

\* Of a row as it was read: the xid is Me's or has committed; the row is alive;
\* it is dead, its inserter having aborted or its deleter being Me or committed;
\* no other running transaction has touched it.
Stands(x)  == x \in Current \cup clog
Alive(r)   == Stands(r.xmin) /\ (r.xmax = 0 \/ ~Stands(r.xmax))
Dead(r)    == \/ ~Stands(r.xmin) /\ r.xmin \notin InProgress
              \/ r.xmax # 0 /\ Stands(r.xmax)
Settled(r) == {r.xmin, r.xmax} \cap InProgress \subseteq Current

\* The dirty check behind unique indexes gives a verdict that is right when it
\* is given, although transactions commit and abort between its questions: a
\* row it calls dead is dead, a row it calls visible without naming a
\* transaction to wait for is alive (visible_dirty asks TransactionIdIsInProgress
\* before TransactionIdDidCommit).
DirtySound ==
    LET v == visible_dirty(check, Current, run, done)
    IN  step = 5 =>
            /\ ~v.visible => Dead(check)
            /\ v.visible /\ v.xmin = 0 /\ v.xmax = 0 => Alive(check)

\* On a row that no other running transaction has touched, the kinds of
\* snapshot agree: SNAPSHOT_SELF, an MVCC snapshot taken now by the next
\* command, a dirty check, and SNAPSHOT_NON_VACUUMABLE for rows inserted by a
\* committed transaction and not deleted by Me.
KindsAgree ==
    \A r \in rows : Settled(r) =>
        /\ visible_self(r, Current, clog) <=> Alive(r)
        /\ visible_mvcc(r, Current, clog, Fresh, 1) <=> Alive(r)
        /\ visible_dirty(r, Current, InProgress, clog).visible <=> Alive(r)
        /\ Stands(r.xmin) /\ r.xmax \notin Current =>
               (visible_non_vacuumable(r, clog) <=> Alive(r))
=============================================================================
