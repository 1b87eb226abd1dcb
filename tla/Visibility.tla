----------------------------- MODULE Visibility -----------------------------
(***************************************************************************)
(* src/src/visibility.rs: which stored row versions a snapshot sees.       *)
(*                                                                         *)
(* A row header is a record [xmin, cmin, xmax, cmax] of naturals, xmax = 0 *)
(* meaning "never deleted".  What the Rust code asks Postgres through      *)
(* raw_pg.rs is a parameter of every operator:                             *)
(*   cur   the xids TransactionIdIsCurrentTransactionId answers true for   *)
(*         (the top transaction and its live or committed subtransactions),*)
(*   clog  the xids TransactionIdDidCommit answers true for,               *)
(*   snap  a snapshot record [xmin, xmax, xip] (with the command id curcid *)
(*         passed separately, because it advances inside one snapshot).    *)
(* Xids are compared with < : TransactionIdPrecedes restricted to a window *)
(* of fewer than 2^31 xids.                                                *)
(***************************************************************************)
EXTENDS Naturals

\* An xid of 0, and an xid whose commit record is not in the clog, has not
\* committed.
did_commit(xid, clog) == xid # 0 /\ xid \in clog

XidViews == {"OurOwnXact", "CommittedAndVisible", "NotVisible"}

\* Mutant: the snapshot's list of running xids is not consulted.
xid_view_no_xip(xid, cur, clog, snap) ==
    IF xid \in cur                     THEN "OurOwnXact"
    ELSE IF ~did_commit(xid, clog)     THEN "NotVisible"
    ELSE IF xid < snap.xmax            THEN "CommittedAndVisible"
    ELSE "NotVisible"

\* The three-valued verdict, with the early returns in the order of the code:
\* own transaction, not committed, before the snapshot's window, after it,
\* listed as in progress by the snapshot.
xid_view(xid, cur, clog, snap) ==
    IF xid \in cur                     THEN "OurOwnXact"
    ELSE IF ~did_commit(xid, clog)     THEN "NotVisible"
    ELSE IF xid < snap.xmin            THEN "CommittedAndVisible"
    ELSE IF ~(xid < snap.xmax)         THEN "NotVisible"
    ELSE IF xid \in snap.xip           THEN "NotVisible"
    ELSE "CommittedAndVisible"

\* Mutant: a command sees its own insertions.
visible_mvcc_own_command(row, cur, clog, snap, curcid) ==
    LET ins == xid_view(row.xmin, cur, clog, snap)
        del == xid_view(row.xmax, cur, clog, snap)
    IN  /\ \/ ins = "CommittedAndVisible"
           \/ ins = "OurOwnXact" /\ row.cmin <= curcid
        /\ \/ row.xmax = 0
           \/ del = "NotVisible"
           \/ del = "OurOwnXact" /\ row.cmax >= curcid

\* SNAPSHOT_MVCC (and HISTORIC_MVCC, TOAST).
visible_mvcc(row, cur, clog, snap, curcid) ==
    LET ins == xid_view(row.xmin, cur, clog, snap)
        del == xid_view(row.xmax, cur, clog, snap)
    IN  /\ \/ ins = "CommittedAndVisible"
           \/ ins = "OurOwnXact" /\ row.cmin < curcid
        /\ \/ row.xmax = 0
           \/ del = "NotVisible"
           \/ del = "OurOwnXact" /\ row.cmax >= curcid
-----------------------------------------------------------------------------
(* The other kinds of snapshot.  run: the xids TransactionIdIsInProgress       *)
(* answers true for.                                                           *)

\* Mutant: the transaction's own deletions are overlooked.
visible_self_own_deletes(row, cur, clog) ==
    /\ row.xmin \in cur \/ did_commit(row.xmin, clog)
    /\ row.xmax = 0 \/ ~did_commit(row.xmax, clog)

\* SNAPSHOT_SELF: written by us or by a committed transaction, and deleted by
\* neither.
visible_self(row, cur, clog) ==
    /\ row.xmin \in cur \/ did_commit(row.xmin, clog)
    /\ row.xmax = 0 \/ ~(row.xmax \in cur \/ did_commit(row.xmax, clog))

\* SNAPSHOT_DIRTY: rows of running transactions count as well, and the xid one
\* would have to wait for is reported in the snapshot's xmin or xmax (else 0).
visible_dirty(row, cur, run, clog) ==
    LET theirs  == row.xmin \notin cur /\ row.xmin \in run
        exists  == row.xmin \in cur \/ row.xmin \in run \/ did_commit(row.xmin, clog)
        mineDel == row.xmax \in cur
        waitDel == row.xmax # 0 /\ ~mineDel /\ row.xmax \in run
        gone    == row.xmax # 0 /\ (mineDel \/ (~waitDel /\ did_commit(row.xmax, clog)))
    IN  [visible |-> exists /\ ~gone,
         xmin    |-> IF theirs THEN row.xmin ELSE 0,
         xmax    |-> IF exists /\ waitDel THEN row.xmax ELSE 0]

\* SNAPSHOT_NON_VACUUMABLE: never deleted, or the deleter has not committed.
visible_non_vacuumable(row, clog) == row.xmax = 0 \/ ~did_commit(row.xmax, clog)
=============================================================================
