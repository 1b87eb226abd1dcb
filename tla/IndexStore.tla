------------------------------ MODULE IndexStore ------------------------------
(***************************************************************************)
(* HeapStore with a Postgres index on the relation (src/src/tam.rs, index  *)
(* access and index build).                                                *)
(*                                                                         *)
(* An index entry is the identity of the row version it was made for: its  *)
(* key is that version's, and its TID that version's rowid.  Entries are   *)
(* shared by all backends at once and are not taken back by an abort; what *)
(* removes them is btree's bottom-up deletion, which asks                  *)
(* index_delete_tuples, and a rebuild.  relation_vacuum leaves them alone. *)
(*                                                                         *)
(* External, modelled from how the code uses it: btree, and the executor's *)
(* insertion of index entries after every insertion of a row.              *)
(***************************************************************************)
EXTENDS HeapStore

VARIABLES
    index,      \* the entries
    skipped     \* history: the row versions the last build left out

indexVars == <<vars, index, skipped>>

IndexInit == Init /\ index = {} /\ skipped = {}
-----------------------------------------------------------------------------
(* Access. *)

\* fetch_one_into_slot: the row at a TID, if b's snapshot sees it.
fetch_one_into_slot(b, r) ==
    Read(b).rows[r].xmin # 0 /\ Visible(b, Read(b).rows[r])

\* index_fetch_tuple: the version that a fetch through entry e returns, if any.
index_fetch_tuple(b, e) ==
    {IdOf(Read(b).rows, r) : r \in {q \in {e[1]} : fetch_one_into_slot(b, q)}}

\* select_xmax_batch: the xmax of the rows at the given rowids that are there.
select_xmax_batch(b, ids) ==
    [r \in {q \in ids : Read(b).rows[q].xmin # 0} |-> Read(b).rows[r].xmax]

\* Mutant: the deleter's commit is not asked for.
DeletableUncommitted(e, xmax, o) ==
    \/ e[1] \notin DOMAIN xmax
    \/ xmax[e[1]] # 0 /\ xmax[e[1]] < o

\* Mutant: the horizon is not asked for.
DeletableRecent(e, xmax, o) ==
    \/ e[1] \notin DOMAIN xmax
    \/ xmax[e[1]] # 0 /\ did_commit(xmax[e[1]], clog)

\* An entry may go if there is no row at its TID, or if that row's deleter has
\* committed and is older than every snapshot.
Deletable(e, xmax, o) ==
    \/ e[1] \notin DOMAIN xmax
    \/ xmax[e[1]] # 0 /\ did_commit(xmax[e[1]], clog) /\ xmax[e[1]] < o

\* index_delete_tuples, for the entries of one page.  btree calls it when b
\* inserts an entry into a full page; b's row is already in SQLite then, and b
\* has the write lock.
index_delete_tuples(b) ==
    /\ Writing(b) /\ in_txn[b] /\ did[b].ins # {}
    /\ \E o \in Xid \cup {MaxXid + 1} : IsHorizon(o) /\
         \E page \in SUBSET index :
             LET xmax == select_xmax_batch(b, {e[1] : e \in page})
             IN  index' = index \ {e \in page : Deletable(e, xmax, o)}
    /\ UNCHANGED <<vars, skipped>>

\* build_index: CREATE INDEX, REINDEX and the end of CLUSTER, under a lock that
\* keeps writers out (not readers).  Rows with an xmax are left out.
build_index(b) ==
    /\ phase[b] = "open" /\ \A c \in Backends : xid[c] = 0
    /\ LET stored == {r \in RowId : Read(b).rows[r].xmin # 0}
           live   == {r \in stored : Read(b).rows[r].xmax = 0}
       IN  /\ index' = {IdOf(Read(b).rows, r) : r \in live}
           /\ skipped' = {IdOf(Read(b).rows, r) : r \in stored \ live}
    /\ UNCHANGED vars

\* The executor inserts an entry for every version the callbacks report.  (A
\* crash may lose entries of transactions without a commit record: they are
\* kept here, which is the harder case.)
HeapStep ==
    /\ Next
    /\ index' = index \cup UNION {did'[b].ins : b \in Backends}
    /\ UNCHANGED skipped

IndexNext ==
    \/ HeapStep
    \/ \E b \in Backends : index_delete_tuples(b) \/ build_index(b)

IndexSpec == IndexInit /\ [][IndexNext]_indexVars
-----------------------------------------------------------------------------
(* Properties. *)

\* Every row that a held snapshot sees, or that the next one will see, has its
\* own entry in the index, unless the last build left it out: bottom-up
\* deletion takes no entry that anyone needs, in spite of transactions that
\* abort after SQLite's COMMIT, VACUUM and crashes (index_delete_tuples asks
\* did_commit and the horizon).
IndexFindsAll ==
    /\ Table \subseteq index \cup skipped
    /\ \A b \in Backends : snap[b] # NoSnap =>
           {IdOf(Read(b).rows, r) : r \in Scan(b)} \subseteq index \cup skipped
-----------------------------------------------------------------------------
(* What comments of the code claim. *)

\* EXPLAINER: an index entry belongs to one row version - a fetch through an
\* entry returns the version it was made for, or nothing.
IndexExact ==
    \A b \in Backends : snap[b] # NoSnap =>
        \A e \in index : index_fetch_tuple(b, e) \subseteq {e}
=============================================================================
