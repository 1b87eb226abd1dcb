--------------------------- MODULE HeapTableProofs ---------------------------
(***************************************************************************)
(* What a relation promises its readers, proved for any set of backends    *)
(* and any bounds: a scan returns the table its snapshot stands for        *)
(* (ReadsAsOfSnapshot), VACUUM removes only what committed transactions    *)
(* deleted (VacuumRemovesCommitted), and HeapStore implements              *)
(* TransactionalTable (ImplementsTable).                                   *)
(*                                                                         *)
(* The argument follows row slots.  A SQLite transaction's private copy    *)
(* differs from the committed file only in slots that were empty, in rows  *)
(* everyone agrees are committed and undeleted, and - for VACUUM - in rows *)
(* below the horizon (CopyInv).  So when PreCommit replaces the file, no   *)
(* snapshot's view of it changes (BaseInv), and nobody else's rows are     *)
(* touched (OwnInv).                                                       *)
(***************************************************************************)
EXTENDS HeapStoreProofs

USE BoundsAssumption DEF Xid, RowId, Cid

\* The foreign xids whose effects b's snapshot shows.
Seen(b) == {x \in clog : x < snap[b].xmax /\ x \notin snap[b].xip /\ x # xid[b]}

\* Row version <<r, x, k>> is stored, and live for who sees the xids in S.
Listed(rows, S, r, x, k) ==
    /\ rows[r].xmin = x /\ rows[r].cmin = k
    /\ x \in S /\ rows[r].xmax \notin S

\* A snapshot shows no transaction that was running when it was taken.
SnapshotInv ==
    \A b \in Backends : snap[b] # NoSnap =>
        /\ phase[b] \in {"open", "precommit", "recorded"}
        /\ snap[b].xmax <= nextXid /\ snap[b].xmin <= snap[b].xmax
        /\ \A x \in snap[b].xip : snap[b].xmin <= x
        /\ \A c \in Backends \ {b} :
              xid[c] # 0 => xid[c] \in snap[b].xip \/ snap[b].xmax <= xid[c]

\* A VACUUM's horizon stays at or below every running xid and every snapshot.
OldestInv ==
    \A d \in Backends :
        /\ oldest[d] <= nextXid
        /\ \A c \in Backends : /\ xid[c] # 0 => oldest[d] <= xid[c]
                               /\ snap[c] # NoSnap => oldest[d] <= snap[c].xmin

\* Locks: one writer of the file; TRUNCATE's backend is alone.
LockInv ==
    \A b \in Backends :
        /\ in_txn[b] => /\ phase[b] = "vacuum" \/ (phase[b] = "open" /\ xid[b] # 0)
                        /\ \A c \in Backends \ {b} : ~in_txn[c]
        /\ excl[b] => \A c \in Backends \ {b} : phase[c] = "idle"
        /\ did[b].clear => Truncates /\ excl[b] /\ xid[b] # 0
        /\ did[b].clear /\ phase[b] = "open" => in_txn[b]
        /\ phase[b] = "recorded" => xid[b] \in clog
        /\ phase[b] = "vacuum" => Vacuums

\* What was reported to a transaction is what its rows say.
OwnOf(b) ==
    /\ \A r \in RowId, x \in Xid, k \in Cid :
          <<r, x, k>> \in did[b].ins <=>
              /\ x = xid[b]
              /\ Read(b).rows[r].xmin = x /\ Read(b).rows[r].cmin = k
    /\ \A r \in RowId, x \in Xid, k \in Cid, l \in Cid :
          <<<<r, x, k>>, l>> \in did[b].del <=>
              /\ xid[b] # 0
              /\ Read(b).rows[r].xmin = x /\ Read(b).rows[r].cmin = k
              /\ Read(b).rows[r].xmax = xid[b] /\ Read(b).rows[r].cmax = l
    /\ \A r \in RowId : xid[b] # 0 /\ Read(b).rows[r].xmin = xid[b] =>
          Read(b).rows[r].xmax \in {0, xid[b]}
    /\ spec[b] # 0 => /\ xid[b] # 0 /\ Read(b).rows[spec[b]].xmin = xid[b]
                      /\ Read(b).rows[spec[b]].xmax = 0
OwnInv == \A b \in Backends : OwnOf(b)

\* How an open SQLite transaction's copy may differ from the committed file:
\* a row put into an empty slot; a committed, undeleted row stamped; a dead row
\* reaped.
PutIn(b, r) ==
    /\ phase[b] = "open" /\ file.rows[r].xmin = 0
    /\ Read(b).rows[r].xmin \in {0, xid[b]}
StampedIn(b, r) ==
    /\ phase[b] = "open"
    /\ file.rows[r].xmin \in Ended /\ file.rows[r].xmax = 0
    /\ Read(b).rows[r].xmin = file.rows[r].xmin /\ Read(b).rows[r].cmin = file.rows[r].cmin
    /\ xid[b] # 0 /\ Read(b).rows[r].xmax = xid[b]
ReapedIn(b, r) ==
    /\ phase[b] = "vacuum" /\ Read(b).rows[r].xmin = 0
    /\ file.rows[r].xmax # 0 /\ file.rows[r].xmax < oldest[b]

CopyOf(b) ==
    ~did[b].clear =>
        \A r \in RowId : \/ Read(b).rows[r] = file.rows[r]
                         \/ PutIn(b, r) \/ StampedIn(b, r) \/ ReapedIn(b, r)
CopyInv == \A b \in Backends : CopyOf(b)

\* After a TRUNCATE the copy holds only the transaction's own rows, and the
\* table it emptied is remembered.
ClearOf(b) ==
    did[b].clear =>
        /\ \A r \in RowId : Read(b).rows[r].xmin \in {0, xid[b]}
        /\ phase[b] = "open" =>
              \A r \in RowId, x \in Xid, k \in Cid :
                  <<r, x, k>> \in base[b] <=> Listed(file.rows, Ended, r, x, k)
ClearInv == \A b \in Backends : ClearOf(b)

\* The file still holds the table of every snapshot.
BaseOf(b) ==
    snap[b] # NoSnap /\ ~did[b].clear =>
        \A r \in RowId, x \in Xid, k \in Cid :
            <<r, x, k>> \in base[b] <=> Listed(file.rows, Seen(b), r, x, k)
BaseInv == \A b \in Backends : BaseOf(b)

\* Without failures in the commit window every deletion in the file has
\* committed or will.
StampInv ==
    ~FailureWindow =>
        \A r \in RowId : file.rows[r].xmin # 0 /\ file.rows[r].xmax # 0 =>
            file.rows[r].xmax \in clog \/ \E c \in Backends : xid[c] = file.rows[r].xmax

\* The inductive invariant.
TableInv ==
    /\ TypeOK /\ CommitOrderInv
    /\ SnapshotInv /\ OldestInv /\ LockInv
    /\ OwnInv /\ CopyInv /\ ClearInv /\ BaseInv /\ StampInv

-----------------------------------------------------------------------------
(* Reading. *)

\* The rows of a connection, one by one.
LEMMA RowType ==
    ASSUME TypeOK, NEW b \in Backends, NEW r \in RowId
    PROVE  Read(b).rows[r] \in Row /\ file.rows[r] \in Row
BY ReadType DEF TypeOK, Content

\* xid_view, for a snapshot in use.
LEMMA ViewOfXid ==
    ASSUME TypeOK, SnapshotInv, NEW b \in Backends, snap[b] # NoSnap, NEW x \in Nat
    PROVE  LET v == xid_view(x, {xid[b]} \ {0}, clog, snap[b])
           IN  /\ v \in XidViews
               /\ v = "OurOwnXact" <=> xid[b] # 0 /\ x = xid[b]
               /\ v = "CommittedAndVisible" <=> x \in Seen(b)
<1>1. /\ snap[b].xmin \in Nat /\ snap[b].xmax \in Nat /\ snap[b].xmin <= snap[b].xmax
      /\ \A y \in snap[b].xip : snap[b].xmin <= y
  BY DEF TypeOK, SnapshotInv, Snap
<1>2. 0 \notin clog BY DEF TypeOK
<1> QED BY <1>1, <1>2 DEF xid_view, did_commit, XidViews, Seen

\* visible_mvcc, for a snapshot in use.
LEMMA VisibleRow ==
    ASSUME TypeOK, SnapshotInv, NEW b \in Backends, snap[b] # NoSnap, NEW row \in Row
    PROVE  Visible(b, row) <=>
             /\ \/ row.xmin \in Seen(b)
                \/ xid[b] # 0 /\ row.xmin = xid[b] /\ row.cmin < cid[b]
             /\ \/ row.xmax = 0
                \/ row.xmax \notin Seen(b) /\ row.xmax # xid[b]
                \/ xid[b] # 0 /\ row.xmax = xid[b] /\ row.cmax >= cid[b]
<1> DEFINE V(x) == xid_view(x, {xid[b]} \ {0}, clog, snap[b])
<1>1. row.xmin \in Nat /\ row.xmax \in Nat BY DEF Row
<1>2. \A x \in {row.xmin, row.xmax} :
         /\ V(x) \in XidViews
         /\ V(x) = "OurOwnXact" <=> xid[b] # 0 /\ x = xid[b]
         /\ V(x) = "CommittedAndVisible" <=> x \in Seen(b)
  BY <1>1, ViewOfXid
<1>3. Visible(b, row) <=>
        /\ \/ V(row.xmin) = "CommittedAndVisible"
           \/ V(row.xmin) = "OurOwnXact" /\ row.cmin < cid[b]
        /\ \/ row.xmax = 0
           \/ V(row.xmax) = "NotVisible"
           \/ V(row.xmax) = "OurOwnXact" /\ row.cmax >= cid[b]
  BY DEF Visible, visible_mvcc
<1> HIDE DEF V
<1>4. V(row.xmax) = "NotVisible" <=> row.xmax \notin Seen(b) /\ ~(xid[b] # 0 /\ row.xmax = xid[b])
  BY <1>2 DEF XidViews
<1> QED BY <1>2, <1>3, <1>4

\* What a scan must return, version by version.
LEMMA ExpectedRow ==
    ASSUME TypeOK, OwnInv, BaseInv, NEW b \in Backends, snap[b] # NoSnap,
           NEW r \in RowId, NEW x \in Xid, NEW k \in Cid
    PROVE  <<r, x, k>> \in Expected(b) <=>
             /\ \/ ~did[b].clear /\ Listed(file.rows, Seen(b), r, x, k)
                \/ /\ x = xid[b] /\ Read(b).rows[r].xmin = x /\ Read(b).rows[r].cmin = k
                   /\ k < cid[b]
             /\ ~ /\ xid[b] # 0 /\ Read(b).rows[r].xmin = x /\ Read(b).rows[r].cmin = k
                  /\ Read(b).rows[r].xmax = xid[b] /\ Read(b).rows[r].cmax < cid[b]
<1> DEFINE i == <<r, x, k>>
           gone == {d[1] : d \in {e \in did[b].del : e[2] < cid[b]}}
           own == {j \in did[b].ins : j[3] < cid[b]}
<1>1. i \in own <=> i \in did[b].ins /\ k < cid[b] OBVIOUS
<1>2. i \in gone <=> \E l \in Cid : <<i, l>> \in did[b].del /\ l < cid[b]
  <2>1. did[b].del \subseteq Id \X Cid BY DEF TypeOK, Did
  <2>2. ASSUME i \in gone PROVE \E l \in Cid : <<i, l>> \in did[b].del /\ l < cid[b]
    <3>1. PICK d \in did[b].del : d[2] < cid[b] /\ d[1] = i BY <2>2
    <3>2. d = <<i, d[2]>> /\ d[2] \in Cid BY <2>1, <3>1
    <3> QED BY <3>1, <3>2
  <2>3. ASSUME NEW l \in Cid, <<i, l>> \in did[b].del, l < cid[b] PROVE i \in gone
    <3>1. <<i, l>>[1] = i /\ <<i, l>>[2] = l OBVIOUS
    <3> QED BY <2>3, <3>1
  <2> QED BY <2>2, <2>3
<1>3. i \in gone <=> /\ xid[b] # 0 /\ Read(b).rows[r].xmin = x /\ Read(b).rows[r].cmin = k
                     /\ Read(b).rows[r].xmax = xid[b] /\ Read(b).rows[r].cmax < cid[b]
  <2>1. Read(b).rows[r].cmax \in Cid BY RowType DEF Row
  <2>2. \A l \in Cid : <<i, l>> \in did[b].del <=>
                  /\ xid[b] # 0
                  /\ Read(b).rows[r].xmin = x /\ Read(b).rows[r].cmin = k
                  /\ Read(b).rows[r].xmax = xid[b] /\ Read(b).rows[r].cmax = l
    BY DEF OwnInv, OwnOf
  <2> QED BY <1>2, <2>1, <2>2
<1>4. i \in did[b].ins <=> x = xid[b] /\ Read(b).rows[r].xmin = x /\ Read(b).rows[r].cmin = k
  BY DEF OwnInv, OwnOf
<1>5. ~did[b].clear => (i \in base[b] <=> Listed(file.rows, Seen(b), r, x, k))
  BY DEF BaseInv, BaseOf
<1>6. i \in Expected(b) <=>
        /\ (~did[b].clear /\ i \in base[b]) \/ i \in own
        /\ i \notin gone
  BY DEF Expected
<1> HIDE DEF gone, own, i
<1> QED BY <1>1, <1>3, <1>4, <1>5, <1>6 DEF i

\* The invariant makes scans right.
LEMMA ReadsFromInv ==
    ASSUME TypeOK, SnapshotInv, LockInv, OwnInv, CopyInv, ClearInv, BaseInv
    PROVE  ReadsAsOfSnapshot
<1> SUFFICES ASSUME NEW b \in Backends, snap[b] # NoSnap
             PROVE  {IdOf(Read(b).rows, r) : r \in Scan(b)} = Expected(b)
  BY DEF ReadsAsOfSnapshot
<1> DEFINE got == {IdOf(Read(b).rows, r) : r \in Scan(b)}
<1>0. ASSUME NEW r \in RowId PROVE Read(b).rows[r] \in Row BY RowType
<1>1. got \subseteq Id
  <2> SUFFICES ASSUME NEW r \in Scan(b) PROVE IdOf(Read(b).rows, r) \in Id OBVIOUS
  <2> QED BY IdOfType, ReadType DEF Scan
<1>2. Expected(b) \subseteq Id BY DEF Expected, TypeOK, Did
<1>3. ASSUME NEW r \in RowId, NEW x \in Xid, NEW k \in Cid
      PROVE  <<r, x, k>> \in got <=> <<r, x, k>> \in Expected(b)
  <2> DEFINE row == Read(b).rows[r]
  <2>1. <<r, x, k>> \in got <=> row.xmin = x /\ row.cmin = k /\ Visible(b, row)
    <3>1. <<r, x, k>> \in got => row.xmin = x /\ row.cmin = k /\ Visible(b, row)
      BY DEF Scan, IdOf
    <3>2. ASSUME row.xmin = x, row.cmin = k, Visible(b, row) PROVE <<r, x, k>> \in got
      <4>1. r \in Scan(b) BY <3>2 DEF Scan
      <4>2. <<r, x, k>> = IdOf(Read(b).rows, r) BY <3>2 DEF IdOf
      <4> QED BY <4>1, <4>2
    <3> QED BY <3>1, <3>2
  <2>2. row \in Row /\ row.cmin \in Nat /\ row.cmax \in Nat /\ cid[b] \in Nat
    BY <1>0 DEF Row, TypeOK
  <2>3. xid[b] \notin Seen(b) /\ 0 \notin Seen(b) BY DEF Seen, TypeOK
  <2>4. phase[b] # "vacuum" BY DEF SnapshotInv
  <2>5. xid[b] # 0 /\ row.xmin = xid[b] => row.xmax \in {0, xid[b]} BY DEF OwnInv, OwnOf
  <2>v. Visible(b, row) <=>
             /\ \/ row.xmin \in Seen(b)
                \/ xid[b] # 0 /\ row.xmin = xid[b] /\ row.cmin < cid[b]
             /\ \/ row.xmax = 0
                \/ row.xmax \notin Seen(b) /\ row.xmax # xid[b]
                \/ xid[b] # 0 /\ row.xmax = xid[b] /\ row.cmax >= cid[b]
    BY <2>2, VisibleRow
  <2>e. <<r, x, k>> \in Expected(b) <=>
             /\ \/ ~did[b].clear /\ Listed(file.rows, Seen(b), r, x, k)
                \/ x = xid[b] /\ row.xmin = x /\ row.cmin = k /\ k < cid[b]
             /\ ~ /\ xid[b] # 0 /\ row.xmin = x /\ row.cmin = k
                  /\ row.xmax = xid[b] /\ row.cmax < cid[b]
    BY ExpectedRow
  <2>6. CASE did[b].clear
    <3>1. row.xmin \in {0, xid[b]} BY <2>6 DEF ClearInv, ClearOf
    <3> QED BY <2>6, <3>1, <2>1, <2>2, <2>3, <2>5, <2>v, <2>e
  <2>7. CASE ~did[b].clear
    <3>1. row = file.rows[r] \/ PutIn(b, r) \/ StampedIn(b, r) BY <2>4, <2>7 DEF CopyInv, CopyOf, ReapedIn
    <3>2. CASE row = file.rows[r]
      <4>1. Listed(file.rows, Seen(b), r, x, k) <=>
              row.xmin = x /\ row.cmin = k /\ x \in Seen(b) /\ row.xmax \notin Seen(b)
        BY <3>2 DEF Listed
      <4> HIDE DEF row
      <4> QED BY <2>7, <4>1, <2>1, <2>2, <2>3, <2>5, <2>v, <2>e
    <3>3. CASE PutIn(b, r)
      <4>1. ~Listed(file.rows, Seen(b), r, x, k) /\ row.xmin \in {0, xid[b]}
        BY <3>3 DEF PutIn, Listed
      <4> HIDE DEF row
      <4> QED BY <2>7, <4>1, <2>1, <2>2, <2>3, <2>5, <2>v, <2>e
    <3>4. CASE StampedIn(b, r)
      <4>1. /\ Listed(file.rows, Seen(b), r, x, k) <=>
                 row.xmin = x /\ row.cmin = k /\ x \in Seen(b)
            /\ xid[b] # 0 /\ row.xmax = xid[b]
        BY <3>4, <2>3 DEF StampedIn, Listed
      <4>2. x = xid[b] /\ row.xmin = x => k \in Nat BY DEF Cid
      <4> HIDE DEF row
      <4> QED BY <2>7, <4>1, <2>1, <2>2, <2>3, <2>5, <2>v, <2>e
    <3> QED BY <3>1, <3>2, <3>3, <3>4
  <2> QED BY <2>6, <2>7
<1> HIDE DEF got
<1>4. got = Expected(b) BY <1>1, <1>2, <1>3 DEF Id
<1> QED BY <1>4 DEF got

-----------------------------------------------------------------------------
(* Steps that write no row. *)

\* The committed table, version by version.
LEMMA TableRow ==
    ASSUME TypeOK, NEW r \in RowId, NEW x \in Xid, NEW k \in Cid
    PROVE  <<r, x, k>> \in Table <=> Listed(file.rows, Ended, r, x, k)
<1>1. ASSUME Listed(file.rows, Ended, r, x, k) PROVE <<r, x, k>> \in Table
  BY <1>1 DEF Listed, Table, IdOf
<1>2. ASSUME <<r, x, k>> \in Table PROVE Listed(file.rows, Ended, r, x, k)
  BY <1>2 DEF Listed, Table, IdOf
<1> QED BY <1>1, <1>2

\* What b reads depends on its own SQLite transaction and on the file only.
LEMMA SameRead ==
    ASSUME NEW b \in Backends, in_txn'[b] = in_txn[b], local'[b] = local[b], file' = file
    PROVE  Read(b)' = Read(b)
BY DEF Read

\* Nor does the table of a snapshot change for a file that does not.
LEMMA SameBase ==
    ASSUME NEW b \in Backends, file' = file, snap'[b] = snap[b], base'[b] = base[b],
           did'[b].clear = did[b].clear, Seen(b)' = Seen(b), BaseOf(b)
    PROVE  BaseOf(b)'
<1> SUFFICES ASSUME snap[b] # NoSnap, ~did[b].clear,
                    NEW r \in RowId, NEW x \in Xid, NEW k \in Cid
             PROVE  <<r, x, k>> \in base[b] <=> Listed(file.rows, Seen(b), r, x, k)'
  BY DEF BaseOf
<1>1. <<r, x, k>> \in base[b] <=> Listed(file.rows, Seen(b), r, x, k) BY DEF BaseOf
<1> QED BY <1>1 DEF Listed

\* Nor do reports and rows disagree, once they agree.
LEMMA SameOwn ==
    ASSUME NEW b \in Backends, Read(b)' = Read(b), xid'[b] = xid[b], did'[b] = did[b],
           spec'[b] \in {0, spec[b]}, OwnOf(b)
    PROVE  OwnOf(b)'
<1>1. spec'[b] # 0 => spec'[b] = spec[b] OBVIOUS
<1> QED BY <1>1 DEF OwnOf

\* Nor does a TRUNCATE's record of the table it emptied change.
LEMMA SameClear ==
    ASSUME NEW b \in Backends, Read(b)' = Read(b), xid'[b] = xid[b], did'[b] = did[b],
           base'[b] = base[b], file' = file, Ended' = Ended,
           phase'[b] = "open" => phase[b] = "open", ClearOf(b)
    PROVE  ClearOf(b)'
BY DEF ClearOf, Listed

\* A transaction starts.
LEMMA BeginKeeps ==
    ASSUME TableInv, TypeOK', CommitOrderInv', NEW b \in Backends, Begin(b)
    PROVE  TableInv'
<1>u. /\ UNCHANGED <<nextXid, clog, xid, cid, snap, in_txn, local, file, spec,
                     oldest, excl, did, base>>
      /\ phase' = [phase EXCEPT ![b] = "open"] /\ phase[b] = "idle"
      /\ \A c \in Backends : ~excl[c]
  BY DEF Begin
<1>t. TypeOK BY DEF TableInv
<1>p. /\ \A c \in Backends : c # b => phase'[c] = phase[c]
      /\ phase'[b] = "open"
  BY <1>u, <1>t DEF TypeOK
<1>e. /\ snap[b] = NoSnap /\ ~in_txn[b] /\ xid[b] = 0 /\ ~did[b].clear /\ Read(b) = file
  BY <1>u DEF TableInv, SnapshotInv, LockInv, CommitOrderInv, PhaseDiscipline, Read
<1>r. \A c \in Backends : Read(c)' = Read(c) BY <1>u, SameRead
<1>s. Ended' = Ended /\ \A c \in Backends : Seen(c)' = Seen(c)
  BY <1>u DEF Ended, Running, Seen
<1>1. SnapshotInv' BY <1>u, <1>p, <1>e DEF TableInv, SnapshotInv
<1>2. OldestInv' BY <1>u DEF TableInv, OldestInv
<1>3. LockInv' BY <1>u, <1>p, <1>e DEF TableInv, LockInv
<1>4. OwnInv' BY <1>u, <1>r DEF TableInv, OwnInv, OwnOf
<1>5. CopyInv'
  BY <1>u, <1>p, <1>r, <1>s, <1>e DEF TableInv, CopyInv, CopyOf, PutIn, StampedIn, ReapedIn
<1>6. ClearInv' BY <1>u, <1>p, <1>r, <1>s, <1>e DEF TableInv, ClearInv, ClearOf, Listed
<1>7. BaseInv' BY <1>u, <1>s, SameBase DEF TableInv, BaseInv
<1>8. StampInv' BY <1>u DEF TableInv, StampInv
<1> QED BY <1>1, <1>2, <1>3, <1>4, <1>5, <1>6, <1>7, <1>8 DEF TableInv

\* VACUUM computes its horizon.
LEMMA VacuumStartKeeps ==
    ASSUME TableInv, TypeOK', CommitOrderInv', NEW b \in Backends, VacuumStart(b)
    PROVE  TableInv'
<1>u. /\ UNCHANGED <<nextXid, clog, xid, cid, snap, in_txn, local, file, spec,
                     excl, did, base>>
      /\ phase' = [phase EXCEPT ![b] = "vacuum"] /\ phase[b] = "idle"
      /\ \A c \in Backends : ~excl[c] /\ oldest[c] = 0
      /\ Vacuums
  BY DEF VacuumStart
<1>o. PICK o \in Xid \cup {MaxXid + 1} : IsHorizon(o) /\ oldest' = [oldest EXCEPT ![b] = o]
  BY DEF VacuumStart
<1>t. TypeOK BY DEF TableInv
<1>p. /\ \A c \in Backends : c # b => phase'[c] = phase[c] /\ oldest'[c] = oldest[c]
      /\ phase'[b] = "vacuum" /\ oldest'[b] = o
  BY <1>u, <1>o, <1>t DEF TypeOK
<1>e. /\ snap[b] = NoSnap /\ ~in_txn[b] /\ xid[b] = 0 /\ ~did[b].clear /\ Read(b) = file
  BY <1>u DEF TableInv, SnapshotInv, LockInv, CommitOrderInv, PhaseDiscipline, Read
<1>r. \A c \in Backends : Read(c)' = Read(c) BY <1>u, SameRead
<1>s. Ended' = Ended /\ \A c \in Backends : Seen(c)' = Seen(c)
  BY <1>u DEF Ended, Running, Seen
<1>1. SnapshotInv' BY <1>u, <1>p, <1>e DEF TableInv, SnapshotInv
<1>2. OldestInv'
  <2>1. /\ o <= nextXid
        /\ \A c \in Backends : /\ xid[c] # 0 => o <= xid[c]
                               /\ snap[c] # NoSnap => o <= snap[c].xmin
    BY <1>o DEF IsHorizon, IsLeast, Running
  <2> QED BY <1>u, <1>p, <2>1 DEF TableInv, OldestInv
<1>3. LockInv' BY <1>u, <1>p, <1>e DEF TableInv, LockInv
<1>4. OwnInv' BY <1>u, <1>r DEF TableInv, OwnInv, OwnOf
<1>5. CopyInv'
  BY <1>u, <1>p, <1>r, <1>s, <1>e DEF TableInv, CopyInv, CopyOf, PutIn, StampedIn, ReapedIn
<1>6. ClearInv' BY <1>u, <1>p, <1>r, <1>s, <1>e DEF TableInv, ClearInv, ClearOf, Listed
<1>7. BaseInv' BY <1>u, <1>s, SameBase DEF TableInv, BaseInv
<1>8. StampInv' BY <1>u DEF TableInv, StampInv
<1> QED BY <1>1, <1>2, <1>3, <1>4, <1>5, <1>6, <1>7, <1>8 DEF TableInv

\* A statement takes its snapshot: it shows the transactions that have ended.
LEMMA TakeSnapshotKeeps ==
    ASSUME TableInv, TypeOK', CommitOrderInv', NEW b \in Backends, TakeSnapshot(b)
    PROVE  TableInv'
<1>u. /\ UNCHANGED <<nextXid, clog, phase, xid, cid, in_txn, local, file, spec,
                     oldest, excl, did>>
      /\ phase[b] = "open" /\ base' = [base EXCEPT ![b] = Table]
  BY DEF TakeSnapshot
<1>m. PICK m \in Running \cup {nextXid} :
         /\ IsLeast(m, Running \cup {nextXid})
         /\ snap' = [snap EXCEPT ![b] = Snapshot(b, m)]
  BY DEF TakeSnapshot
<1>t. TypeOK BY DEF TableInv
<1>p. /\ \A c \in Backends : c # b => snap'[c] = snap[c] /\ base'[c] = base[c]
      /\ snap'[b].xmin = m /\ snap'[b].xmax = nextXid /\ snap'[b].xip = Running \ {xid[b]}
      /\ base'[b] = Table
  BY <1>u, <1>m, <1>t DEF TypeOK, Snapshot
<1>r. \A c \in Backends : Read(c)' = Read(c) BY <1>u, SameRead
<1>s. Ended' = Ended /\ \A c \in Backends : c # b => Seen(c)' = Seen(c)
  BY <1>u, <1>p DEF Ended, Running, Seen
<1>l. m <= nextXid /\ \A c \in Backends : xid[c] # 0 => m <= xid[c] /\ xid[c] \in Running
  BY <1>m DEF IsLeast, Running
<1>1. SnapshotInv'
  <2>1. ASSUME NEW c \in Backends, snap'[c] # NoSnap, c # b
        PROVE  /\ phase'[c] \in {"open", "precommit", "recorded"}
               /\ snap'[c].xmax <= nextXid' /\ snap'[c].xmin <= snap'[c].xmax
               /\ \A x \in snap'[c].xip : snap'[c].xmin <= x
               /\ \A d \in Backends \ {c} :
                    xid'[d] # 0 => xid'[d] \in snap'[c].xip \/ snap'[c].xmax <= xid'[d]
    BY <1>u, <1>p, <2>1 DEF TableInv, SnapshotInv
  <2>2. /\ phase'[b] \in {"open", "precommit", "recorded"}
        /\ snap'[b].xmax <= nextXid' /\ snap'[b].xmin <= snap'[b].xmax
        /\ \A x \in snap'[b].xip : snap'[b].xmin <= x
    BY <1>u, <1>p, <1>l, <1>t, <1>m DEF TypeOK, IsLeast
  <2>3. \A d \in Backends \ {b} : xid'[d] # 0 => xid'[d] \in snap'[b].xip
    BY <1>u, <1>p, <1>l, <1>t DEF TypeOK, TableInv, CommitOrderInv, XidsIssued, XidsStored
  <2> QED BY <2>1, <2>2, <2>3 DEF SnapshotInv
<1>2. OldestInv'
  <2>1. \A d \in Backends : oldest[d] <= m BY <1>m DEF TableInv, OldestInv, Running
  <2> QED BY <1>u, <1>p, <2>1 DEF TableInv, OldestInv
<1>3. LockInv' BY <1>u DEF TableInv, LockInv
<1>4. OwnInv' BY <1>u, <1>r DEF TableInv, OwnInv, OwnOf
<1>5. CopyInv'
  BY <1>u, <1>r, <1>s DEF TableInv, CopyInv, CopyOf, PutIn, StampedIn, ReapedIn
<1>6. ClearInv'
  <2>1. ASSUME NEW c \in Backends, c # b PROVE ClearOf(c)'
    BY <1>u, <1>p, <1>r, <1>s, <2>1 DEF TableInv, ClearInv, ClearOf, Listed
  <2>2. ClearOf(b)'
    BY <1>u, <1>p, <1>r, <1>s, <1>t, TableRow DEF TableInv, ClearInv, ClearOf, Listed
  <2> QED BY <2>1, <2>2 DEF ClearInv
<1>7. BaseInv'
  <2>1. \A c \in Backends : c # b => BaseOf(c)' BY <1>u, <1>p, <1>s, SameBase DEF TableInv, BaseInv
  <2>2. Seen(b)' = Ended
    <3>1. \A x \in clog : x < nextXid BY DEF TableInv, CommitOrderInv, XidsIssued, XidsStored
    <3>2. 0 \notin clog BY <1>t DEF TypeOK
    <3> QED BY <1>u, <1>p, <3>1, <3>2 DEF Seen, Ended, Running
  <2>3. BaseOf(b)'
    <3>1. ASSUME NEW r \in RowId, NEW x \in Xid, NEW k \in Cid
          PROVE  <<r, x, k>> \in base'[b] <=> Listed(file.rows, Seen(b), r, x, k)'
      <4>1. <<r, x, k>> \in Table <=> Listed(file.rows, Ended, r, x, k) BY <1>t, TableRow
      <4> QED BY <1>u, <1>p, <2>2, <4>1 DEF Listed
    <3> QED BY <3>1 DEF BaseOf
  <2> QED BY <2>1, <2>3 DEF BaseInv
<1>8. StampInv' BY <1>u DEF TableInv, StampInv
<1> QED BY <1>1, <1>2, <1>3, <1>4, <1>5, <1>6, <1>7, <1>8 DEF TableInv

\* The next command of a transaction.
LEMMA NextCommandKeeps ==
    ASSUME TableInv, TypeOK', CommitOrderInv', NEW b \in Backends,
           NEW keep \in BOOLEAN, NextCommand(b, keep)
    PROVE  TableInv'
<1>u. /\ UNCHANGED <<nextXid, clog, phase, xid, in_txn, local, file, spec, oldest,
                     excl, did, base>>
      /\ snap' = [snap EXCEPT ![b] = IF keep THEN @ ELSE NoSnap]
  BY DEF NextCommand
<1>t. TypeOK BY DEF TableInv
<1>p. \A c \in Backends : snap'[c] = snap[c] \/ snap'[c] = NoSnap
  BY <1>u, <1>t DEF TypeOK
<1>r. \A c \in Backends : Read(c)' = Read(c) BY <1>u, SameRead
<1>s. Ended' = Ended BY <1>u DEF Ended, Running
<1>1. SnapshotInv' BY <1>u, <1>p DEF TableInv, SnapshotInv
<1>2. OldestInv' BY <1>u, <1>p DEF TableInv, OldestInv
<1>3. LockInv' BY <1>u DEF TableInv, LockInv
<1>4. OwnInv' BY <1>u, <1>r DEF TableInv, OwnInv, OwnOf
<1>5. CopyInv'
  BY <1>u, <1>r, <1>s DEF TableInv, CopyInv, CopyOf, PutIn, StampedIn, ReapedIn
<1>6. ClearInv' BY <1>u, <1>r, <1>s DEF TableInv, ClearInv, ClearOf, Listed
<1>7. BaseInv'
  <2>1. ASSUME NEW c \in Backends, snap'[c] = snap[c] PROVE BaseOf(c)'
    <3>1. Seen(c)' = Seen(c) BY <1>u, <2>1 DEF Seen
    <3> QED BY <1>u, <2>1, <3>1, SameBase DEF TableInv, BaseInv
  <2>2. ASSUME NEW c \in Backends, snap'[c] = NoSnap PROVE BaseOf(c)'
    BY <2>2 DEF BaseOf
  <2> QED BY <1>p, <2>1, <2>2 DEF BaseInv
<1>8. StampInv' BY <1>u DEF TableInv, StampInv
<1> QED BY <1>1, <1>2, <1>3, <1>4, <1>5, <1>6, <1>7, <1>8 DEF TableInv

\* A transaction gets its xid, which nothing mentions yet.
LEMMA AssignXidKeeps ==
    ASSUME TableInv, TypeOK', CommitOrderInv', NEW b \in Backends, AssignXid(b)
    PROVE  TableInv'
<1>u. /\ UNCHANGED <<clog, phase, cid, snap, in_txn, local, file, spec, oldest,
                     excl, did, base>>
      /\ phase[b] = "open" /\ xid[b] = 0
      /\ xid' = [xid EXCEPT ![b] = nextXid] /\ nextXid' = nextXid + 1
  BY DEF AssignXid
<1>t. TypeOK BY DEF TableInv
<1>n. nextXid \in Nat /\ nextXid # 0 /\ \A c \in Backends : xid[c] \in Nat BY <1>t DEF TypeOK
<1>p. xid'[b] = nextXid /\ \A c \in Backends : c # b => xid'[c] = xid[c]
  BY <1>u, <1>t DEF TypeOK
<1>e. ~in_txn[b] /\ ~did[b].clear /\ spec[b] = 0 /\ Read(b) = file
  BY <1>u DEF TableInv, LockInv, OwnInv, OwnOf, Read
<1>i. /\ nextXid \notin clog /\ 0 \notin clog
      /\ \A r \in RowId : file.rows[r].xmin # nextXid /\ file.rows[r].xmax # nextXid
  BY <1>n, <1>t DEF TableInv, CommitOrderInv, XidsIssued, XidsStored, TypeOK
<1>r. \A c \in Backends : Read(c)' = Read(c) BY <1>u, SameRead
<1>s. Ended' = Ended /\ \A c \in Backends : Seen(c)' = Seen(c)
  <2>1. Ended' = Ended
    <3>1. ASSUME NEW x \in clog PROVE x \in Running' <=> x \in Running
      BY <1>p, <1>i, <1>u DEF Running
    <3> QED BY <1>u, <3>1 DEF Ended
  <2>2. ASSUME NEW c \in Backends PROVE Seen(c)' = Seen(c)
    <3>1. \A x \in clog : x # xid'[c] <=> x # xid[c] BY <1>p, <1>i, <1>u
    <3> QED BY <1>u, <3>1 DEF Seen
  <2> QED BY <2>1, <2>2
<1>1. SnapshotInv'
  <2>1. ASSUME NEW c \in Backends, snap[c] # NoSnap
        PROVE  /\ phase[c] \in {"open", "precommit", "recorded"}
               /\ snap[c].xmax <= nextXid' /\ snap[c].xmin <= snap[c].xmax
               /\ \A x \in snap[c].xip : snap[c].xmin <= x
               /\ \A d \in Backends \ {c} :
                    xid'[d] # 0 => xid'[d] \in snap[c].xip \/ snap[c].xmax <= xid'[d]
    <3>1. /\ phase[c] \in {"open", "precommit", "recorded"}
          /\ snap[c].xmax <= nextXid /\ snap[c].xmin <= snap[c].xmax
          /\ \A x \in snap[c].xip : snap[c].xmin <= x
          /\ \A d \in Backends \ {c} :
                xid[d] # 0 => xid[d] \in snap[c].xip \/ snap[c].xmax <= xid[d]
      BY <2>1 DEF TableInv, SnapshotInv
    <3>2. snap[c].xmax \in Nat BY <1>t DEF TypeOK, Snap
    <3>3. snap[c].xmax <= nextXid' BY <3>1, <3>2, <1>u, <1>n
    <3>4. \A d \in Backends \ {c} :
             xid'[d] # 0 => xid'[d] \in snap[c].xip \/ snap[c].xmax <= xid'[d]
      BY <3>1, <1>p
    <3> QED BY <3>1, <3>3, <3>4
  <2> QED BY <2>1, <1>u DEF SnapshotInv
<1>2. OldestInv'
  <2>1. \A d \in Backends : oldest[d] \in Nat BY <1>t DEF TypeOK
  <2> QED BY <1>u, <1>p, <1>n, <2>1 DEF TableInv, OldestInv
<1>3. LockInv' BY <1>u, <1>p, <1>e, <1>n DEF TableInv, LockInv
<1>4. OwnInv'
  <2>1. ASSUME NEW c \in Backends, c # b PROVE OwnOf(c)'
    BY <1>u, <1>p, <1>r, <2>1 DEF TableInv, OwnInv, OwnOf
  <2>2. OwnOf(b)'
    <3>1. /\ \A r \in RowId, x \in Xid, k \in Cid : <<r, x, k>> \notin did[b].ins
          /\ \A r \in RowId, x \in Xid, k \in Cid, l \in Cid : <<<<r, x, k>>, l>> \notin did[b].del
      BY <1>u DEF TableInv, OwnInv, OwnOf
    <3> QED BY <1>u, <1>p, <1>r, <1>e, <1>i, <3>1 DEF OwnOf
  <2> QED BY <2>1, <2>2 DEF OwnInv
<1>5. CopyInv'
  BY <1>u, <1>p, <1>r, <1>s, <1>e DEF TableInv, CopyInv, CopyOf, PutIn, StampedIn, ReapedIn
<1>6. ClearInv'
  <2>1. ASSUME NEW c \in Backends, c # b PROVE ClearOf(c)'
    <3>1. ClearOf(c) BY DEF TableInv, ClearInv
    <3> QED BY <1>u, <1>p, <1>r, <1>s, <2>1, <3>1, SameClear
  <2>2. ClearOf(b)' BY <1>u, <1>e DEF ClearOf
  <2> QED BY <2>1, <2>2 DEF ClearInv
<1>7. BaseInv' BY <1>u, <1>s, SameBase DEF TableInv, BaseInv
<1>8. StampInv' BY <1>u, <1>p DEF TableInv, StampInv
<1> QED BY <1>1, <1>2, <1>3, <1>4, <1>5, <1>6, <1>7, <1>8 DEF TableInv

\* Postgres records a commit; no snapshot shows it yet.
LEMMA RecordCommitKeeps ==
    ASSUME TableInv, TypeOK', CommitOrderInv', NEW b \in Backends, RecordCommit(b)
    PROVE  TableInv'
<1>u. /\ UNCHANGED <<nextXid, xid, cid, snap, in_txn, local, file, spec, oldest,
                     excl, did, base>>
      /\ phase[b] = "precommit" /\ xid[b] # 0 /\ clog' = clog \cup {xid[b]}
      /\ phase' = [phase EXCEPT ![b] = "recorded"]
  BY DEF RecordCommit
<1>t. TypeOK BY DEF TableInv
<1>p. phase'[b] = "recorded" /\ \A c \in Backends : c # b => phase'[c] = phase[c]
  BY <1>u, <1>t DEF TypeOK
<1>e. ~in_txn[b] /\ Read(b) = file BY <1>u DEF TableInv, LockInv, Read
<1>r. \A c \in Backends : Read(c)' = Read(c) BY <1>u, SameRead
<1>s. Ended' = Ended /\ \A c \in Backends : snap[c] # NoSnap => Seen(c)' = Seen(c)
  <2>1. Ended' = Ended
    <3>1. xid[b] \in Running BY <1>u DEF Running
    <3> QED BY <1>u, <3>1 DEF Ended, Running
  <2>2. ASSUME NEW c \in Backends, snap[c] # NoSnap PROVE Seen(c)' = Seen(c)
    <3>1. ~(xid[b] < snap[c].xmax /\ xid[b] \notin snap[c].xip /\ xid[b] # xid[c])
      <4>1. xid[b] \in Nat /\ snap[c].xmax \in Nat BY <1>t DEF TypeOK, Snap
      <4> QED BY <4>1, <1>u, <2>2 DEF TableInv, SnapshotInv
    <3> QED BY <1>u, <3>1 DEF Seen
  <2> QED BY <2>1, <2>2
<1>1. SnapshotInv' BY <1>u, <1>p DEF TableInv, SnapshotInv
<1>2. OldestInv' BY <1>u DEF TableInv, OldestInv
<1>3. LockInv' BY <1>u, <1>p, <1>e DEF TableInv, LockInv
<1>4. OwnInv'
  <2>1. ASSUME NEW c \in Backends PROVE OwnOf(c)'
    <3>1. OwnOf(c) BY DEF TableInv, OwnInv
    <3> QED BY <1>u, <1>r, <3>1, SameOwn
  <2> QED BY <2>1 DEF OwnInv
<1>5. CopyInv'
  BY <1>u, <1>p, <1>r, <1>s, <1>e DEF TableInv, CopyInv, CopyOf, PutIn, StampedIn, ReapedIn
<1>6. ClearInv'
  <2>1. \A c \in Backends : phase'[c] = "open" => phase[c] = "open" BY <1>u, <1>p
  <2>2. ASSUME NEW c \in Backends PROVE ClearOf(c)'
    <3>1. ClearOf(c) BY DEF TableInv, ClearInv
    <3> QED BY <1>u, <2>1, <1>r, <1>s, <3>1, SameClear
  <2> QED BY <2>2 DEF ClearInv
<1>7. BaseInv'
  <2>1. ASSUME NEW c \in Backends, snap[c] # NoSnap PROVE BaseOf(c)'
    BY <1>u, <1>s, <2>1, SameBase DEF TableInv, BaseInv
  <2>2. ASSUME NEW c \in Backends, snap[c] = NoSnap PROVE BaseOf(c)' BY <1>u, <2>2 DEF BaseOf
  <2> QED BY <2>1, <2>2 DEF BaseInv
<1>8. StampInv' BY <1>u DEF TableInv, StampInv
<1> QED BY <1>1, <1>2, <1>3, <1>4, <1>5, <1>6, <1>7, <1>8 DEF TableInv

\* A speculative row is kept.
LEMMA SpeculationWonKeeps ==
    ASSUME TableInv, TypeOK', CommitOrderInv', NEW b \in Backends, SpeculationWon(b)
    PROVE  TableInv'
<1>u. /\ UNCHANGED <<nextXid, clog, phase, xid, cid, snap, in_txn, local, file, oldest,
                     excl, did, base>>
      /\ spec' = [spec EXCEPT ![b] = 0]
  BY DEF SpeculationWon, writeUnchanged
<1>t. TypeOK BY DEF TableInv
<1>p. \A c \in Backends : spec'[c] = 0 \/ spec'[c] = spec[c] BY <1>u, <1>t DEF TypeOK
<1>r. \A c \in Backends : Read(c)' = Read(c) BY <1>u, SameRead
<1>s. Ended' = Ended /\ \A c \in Backends : Seen(c)' = Seen(c)
  BY <1>u DEF Ended, Running, Seen
<1>1. SnapshotInv' BY <1>u DEF TableInv, SnapshotInv
<1>2. OldestInv' BY <1>u DEF TableInv, OldestInv
<1>3. LockInv' BY <1>u DEF TableInv, LockInv
<1>4. OwnInv'
  <2>1. ASSUME NEW c \in Backends PROVE OwnOf(c)'
    <3>1. OwnOf(c) BY DEF TableInv, OwnInv
    <3>2. spec'[c] \in {0, spec[c]} BY <1>p
    <3> QED BY <1>u, <1>r, <3>1, <3>2, SameOwn
  <2> QED BY <2>1 DEF OwnInv
<1>5. CopyInv' BY <1>u, <1>r, <1>s DEF TableInv, CopyInv, CopyOf, PutIn, StampedIn, ReapedIn
<1>6. ClearInv' BY <1>u, <1>r, <1>s DEF TableInv, ClearInv, ClearOf, Listed
<1>7. BaseInv' BY <1>u, <1>s, SameBase DEF TableInv, BaseInv
<1>8. StampInv' BY <1>u DEF TableInv, StampInv
<1> QED BY <1>1, <1>2, <1>3, <1>4, <1>5, <1>6, <1>7, <1>8 DEF TableInv

-----------------------------------------------------------------------------
(* Steps that write SQLite. *)

\* A write by b is b's affair: what is left to show concerns b alone.
LEMMA WriteFrame ==
    ASSUME TableInv, TypeOK', CommitOrderInv', NEW b \in Backends, NEW c,
           SqliteWrite(b, c), UNCHANGED <<nextXid, clog, phase, xid, snap, oldest>>,
           \A a \in Backends : a # b =>
               /\ did'[a] = did[a] /\ base'[a] = base[a] /\ spec'[a] = spec[a]
               /\ excl'[a] = excl[a],
           phase[b] = "vacuum" \/ (phase[b] = "open" /\ xid[b] # 0),
           excl'[b] => \A a \in Backends \ {b} : phase[a] = "idle",
           did'[b].clear => Truncates /\ excl'[b] /\ xid[b] # 0,
           OwnOf(b)', CopyOf(b)', ClearOf(b)', BaseOf(b)'
    PROVE  TableInv'
<1>u. /\ UNCHANGED <<nextXid, clog, phase, xid, snap, oldest, file>>
      /\ in_txn' = [in_txn EXCEPT ![b] = TRUE] /\ local' = [local EXCEPT ![b] = c]
      /\ \A a \in Backends \ {b} : ~in_txn[a]
  BY DEF SqliteWrite, CanWrite
<1>t. TypeOK BY DEF TableInv
<1>p. in_txn'[b] /\ \A a \in Backends : a # b => in_txn'[a] = in_txn[a] /\ local'[a] = local[a]
  BY <1>u, <1>t DEF TypeOK
<1>r. \A a \in Backends : a # b => Read(a)' = Read(a) BY <1>u, <1>p, SameRead
<1>s. Ended' = Ended /\ \A a \in Backends : Seen(a)' = Seen(a)
  BY <1>u DEF Ended, Running, Seen
<1>1. SnapshotInv' BY <1>u DEF TableInv, SnapshotInv
<1>2. OldestInv' BY <1>u DEF TableInv, OldestInv
<1>3. LockInv'
  <2>1. ASSUME NEW a \in Backends, a # b
        PROVE  /\ ~in_txn'[a]
               /\ excl[a] => \A d \in Backends \ {a} : phase[d] = "idle"
               /\ did[a].clear => Truncates /\ excl[a] /\ xid[a] # 0
               /\ did[a].clear /\ phase[a] = "open" => in_txn[a]
               /\ phase[a] = "recorded" => xid[a] \in clog
               /\ phase[a] = "vacuum" => Vacuums
    BY <1>u, <1>p, <2>1 DEF TableInv, LockInv
  <2>2. /\ phase[b] = "recorded" => xid[b] \in clog
        /\ phase[b] = "vacuum" => Vacuums
    BY DEF TableInv, LockInv
  <2> QED BY <1>u, <1>p, <2>1, <2>2 DEF LockInv
<1>4. OwnInv'
  <2>1. ASSUME NEW a \in Backends, a # b PROVE OwnOf(a)'
    <3>1. OwnOf(a) BY DEF TableInv, OwnInv
    <3> QED BY <1>u, <1>r, <2>1, <3>1, SameOwn
  <2> QED BY <2>1 DEF OwnInv
<1>5. CopyInv'
  <2>1. ASSUME NEW a \in Backends, a # b PROVE CopyOf(a)'
    BY <1>u, <1>r, <1>s, <2>1 DEF TableInv, CopyInv, CopyOf, PutIn, StampedIn, ReapedIn
  <2> QED BY <2>1 DEF CopyInv
<1>6. ClearInv'
  <2>1. ASSUME NEW a \in Backends, a # b PROVE ClearOf(a)'
    <3>1. ClearOf(a) BY DEF TableInv, ClearInv
    <3> QED BY <1>u, <1>r, <1>s, <2>1, <3>1, SameClear
  <2> QED BY <2>1 DEF ClearInv
<1>7. BaseInv'
  <2>1. ASSUME NEW a \in Backends, a # b PROVE BaseOf(a)'
    <3>1. BaseOf(a) BY DEF TableInv, BaseInv
    <3> QED BY <1>u, <1>s, <2>1, <3>1, SameBase
  <2> QED BY <2>1 DEF BaseInv
<1>8. StampInv' BY <1>u DEF TableInv, StampInv
<1> QED BY <1>1, <1>2, <1>3, <1>4, <1>5, <1>6, <1>7, <1>8 DEF TableInv

\* What a snapshot shows has ended.
LEMMA SeenEnded ==
    ASSUME TypeOK, SnapshotInv, NEW b \in Backends, snap[b] # NoSnap
    PROVE  Seen(b) \subseteq Ended
<1> SUFFICES ASSUME NEW x \in Seen(b), NEW c \in Backends, x = xid[c], x # 0 PROVE FALSE
  BY DEF Ended, Running, Seen, TypeOK
<1>1. x \in clog /\ x < snap[b].xmax /\ x \notin snap[b].xip /\ x # xid[b] BY DEF Seen
<1>2. x \in Nat /\ snap[b].xmax \in Nat BY <1>1 DEF TypeOK, Snap
<1> QED BY <1>1, <1>2 DEF SnapshotInv

\* The rows a statement leaves: new ones in the empty slots P, its stamp on the
\* undeleted rows D of its scan, and all others as they were.
Leaves(b, old, rows, P, D) ==
    \A q \in RowId :
        /\ q \in P => /\ q \notin D /\ old[q].xmin = 0
                      /\ rows[q].xmin = xid[b] /\ rows[q].cmin = cid[b] /\ rows[q].xmax = 0
        /\ q \in D => /\ old[q].xmin # 0 /\ old[q].xmax = 0 /\ Visible(b, old[q])
                      /\ rows[q].xmin = old[q].xmin /\ rows[q].cmin = old[q].cmin
                      /\ rows[q].xmax = xid[b] /\ rows[q].cmax = cid[b]
        /\ q \notin P /\ q \notin D => rows[q] = old[q]

\* What it reports.
Reports(b, old, P, D) ==
    /\ \A a \in Backends : a # b => did'[a] = did[a]
    /\ did'[b].clear = did[b].clear
    /\ \A r \in RowId, x \in Xid, k \in Cid :
          <<r, x, k>> \in did'[b].ins <=>
              \/ <<r, x, k>> \in did[b].ins
              \/ r \in P /\ x = xid[b] /\ k = cid[b]
    /\ \A r \in RowId, x \in Xid, k \in Cid, l \in Cid :
          <<<<r, x, k>>, l>> \in did'[b].del <=>
              \/ <<<<r, x, k>>, l>> \in did[b].del
              \/ r \in D /\ x = old[r].xmin /\ k = old[r].cmin /\ l = cid[b]

\* A statement that inserts and stamps.
LEMMA StatementKeeps ==
    ASSUME TableInv, TypeOK', CommitOrderInv', NEW b \in Backends, Writing(b),
           NEW P, NEW D, NEW rows \in [RowId -> Row],
           Leaves(b, Read(b).rows, rows, P, D), Reports(b, Read(b).rows, P, D),
           SqliteWrite(b, WithRows(Read(b), rows)), UNCHANGED writeUnchanged,
           \A a \in Backends : a # b => spec'[a] = spec[a],
           spec'[b] # 0 => spec'[b] \in P /\ spec'[b] \in RowId
    PROVE  TableInv'
<1> DEFINE old == Read(b).rows
           c == WithRows(Read(b), rows)
<1>t. TypeOK BY DEF TableInv
<1>w. phase[b] = "open" /\ snap[b] # NoSnap /\ xid[b] # 0 BY DEF Writing
<1>u. UNCHANGED <<nextXid, clog, phase, xid, cid, snap, oldest, excl, base, file>>
  BY DEF writeUnchanged, SqliteWrite
<1>r. Read(b)'.rows = rows
  <2>1. c.rows = rows BY <1>t, ReadType DEF WithRows, Content
  <2>2. Read(b)' = c BY <1>t DEF SqliteWrite, TypeOK, Read
  <2> QED BY <2>1, <2>2
<1>o. \A q \in RowId : old[q] \in Row BY <1>t, RowType
<1>l. Leaves(b, old, rows, P, D) /\ Reports(b, old, P, D) OBVIOUS
<1>f. \A q \in RowId : file.rows[q].xmin # xid[b] /\ file.rows[q].xmax # xid[b]
  BY <1>w DEF TableInv, CommitOrderInv, WritesArePrivate, Carries
<1>z. OwnOf(b) /\ CopyOf(b) /\ ClearOf(b) /\ BaseOf(b)
  BY DEF TableInv, OwnInv, CopyInv, ClearInv, BaseInv
<1>s. Ended' = Ended /\ Seen(b)' = Seen(b) BY <1>u DEF Ended, Running, Seen
<1>1. OwnOf(b)'
  <2>1. ASSUME NEW r \in RowId, NEW x \in Xid, NEW k \in Cid
        PROVE  <<r, x, k>> \in did'[b].ins <=> x = xid[b] /\ rows[r].xmin = x /\ rows[r].cmin = k
    <3>1. <<r, x, k>> \in did[b].ins <=> x = xid[b] /\ old[r].xmin = x /\ old[r].cmin = k
      BY <1>z DEF OwnOf
    <3>2. <<r, x, k>> \in did'[b].ins <=>
              \/ <<r, x, k>> \in did[b].ins
              \/ r \in P /\ x = xid[b] /\ k = cid[b]
      BY <1>l DEF Reports
    <3> HIDE DEF old
    <3> QED BY <1>l, <3>1, <3>2 DEF Leaves
  <2>2. ASSUME NEW r \in RowId, NEW x \in Xid, NEW k \in Cid, NEW l \in Cid
        PROVE  <<<<r, x, k>>, l>> \in did'[b].del <=>
                  /\ rows[r].xmin = x /\ rows[r].cmin = k
                  /\ rows[r].xmax = xid[b] /\ rows[r].cmax = l
    <3>1. <<<<r, x, k>>, l>> \in did[b].del <=>
                  /\ old[r].xmin = x /\ old[r].cmin = k
                  /\ old[r].xmax = xid[b] /\ old[r].cmax = l
      BY <1>z, <1>w DEF OwnOf
    <3>2. <<<<r, x, k>>, l>> \in did'[b].del <=>
              \/ <<<<r, x, k>>, l>> \in did[b].del
              \/ r \in D /\ x = old[r].xmin /\ k = old[r].cmin /\ l = cid[b]
      BY <1>l DEF Reports
    <3> HIDE DEF old
    <3> QED BY <1>l, <1>w, <3>1, <3>2 DEF Leaves
  <2>3. ASSUME NEW r \in RowId, rows[r].xmin = xid[b] PROVE rows[r].xmax \in {0, xid[b]}
    <3>1. old[r].xmin = xid[b] => old[r].xmax \in {0, xid[b]} BY <1>z, <1>w DEF OwnOf
    <3> HIDE DEF old
    <3> QED BY <1>l, <2>3, <3>1 DEF Leaves
  <2>4. spec'[b] # 0 => rows[spec'[b]].xmin = xid[b] /\ rows[spec'[b]].xmax = 0
    BY <1>l DEF Leaves
  <2> QED BY <1>u, <1>r, <1>w, <2>1, <2>2, <2>3, <2>4 DEF OwnOf
<1>2. CopyOf(b)'
  <2> SUFFICES ASSUME ~did[b].clear, NEW r \in RowId
               PROVE  rows[r] = file.rows[r] \/ PutIn(b, r)' \/ StampedIn(b, r)'
    BY <1>u, <1>r, <1>l DEF CopyOf, Reports
  <2>1. old[r] = file.rows[r] \/ PutIn(b, r) \/ StampedIn(b, r)
    BY <1>z, <1>w DEF CopyOf, ReapedIn
  <2>2. 0 \notin Ended BY <1>t DEF Ended, TypeOK
  <2>3. CASE r \in P
    <3>1. file.rows[r].xmin = 0 BY <1>l, <2>1, <2>2, <2>3 DEF Leaves, PutIn, StampedIn
    <3> QED BY <1>l, <1>r, <1>u, <1>w, <2>3, <3>1 DEF Leaves, PutIn
  <2>4. CASE r \in D
    <3>1. /\ old[r].xmin # 0 /\ old[r].xmax = 0 /\ Visible(b, old[r])
          /\ rows[r].xmin = old[r].xmin /\ rows[r].cmin = old[r].cmin
          /\ rows[r].xmax = xid[b]
      BY <1>l, <2>4 DEF Leaves
    <3>2. CASE old[r] = file.rows[r]
      <4>1. old[r].xmin \in Seen(b)
        BY <1>t, <1>o, <1>w, <1>f, <3>1, <3>2, VisibleRow DEF TableInv
      <4>2. old[r].xmin \in Ended BY <1>t, <1>w, <4>1, SeenEnded DEF TableInv
      <4>3. StampedIn(b, r)' BY <1>r, <1>u, <1>s, <1>w, <3>1, <3>2, <4>2 DEF StampedIn
      <4> QED BY <4>3
    <3>3. CASE PutIn(b, r) BY <1>r, <1>u, <3>1, <3>3 DEF PutIn
    <3>4. CASE StampedIn(b, r) BY <3>1, <3>4, <1>w DEF StampedIn
    <3> QED BY <2>1, <3>2, <3>3, <3>4
  <2>5. CASE r \notin P /\ r \notin D
    <3>1. rows[r] = old[r] BY <1>l, <2>5 DEF Leaves
    <3> QED BY <1>r, <1>u, <1>s, <2>1, <3>1 DEF PutIn, StampedIn
  <2> QED BY <2>3, <2>4, <2>5
<1>3. ClearOf(b)'
  <2>1. ASSUME did[b].clear, NEW r \in RowId PROVE rows[r].xmin \in {0, xid[b]}
    <3>1. old[r].xmin \in {0, xid[b]} BY <1>z, <2>1 DEF ClearOf
    <3> HIDE DEF old
    <3> QED BY <1>l, <3>1 DEF Leaves
  <2>2. did'[b].clear = did[b].clear BY <1>l DEF Reports
  <2> QED BY <1>u, <1>r, <1>s, <1>z, <2>1, <2>2 DEF ClearOf, Listed
<1>4. BaseOf(b)' BY <1>u, <1>s, <1>z, <1>l, SameBase DEF Reports
<1>5. /\ \A a \in Backends : a # b => did'[a] = did[a]
      /\ did'[b].clear => Truncates /\ excl'[b] /\ xid[b] # 0
      /\ excl'[b] => \A a \in Backends \ {b} : phase[a] = "idle"
  BY <1>u, <1>l DEF Reports, TableInv, LockInv
<1> HIDE DEF c
<1>6. SqliteWrite(b, c) BY DEF c
<1> QED BY <1>u, <1>w, <1>1, <1>2, <1>3, <1>4, <1>5, <1>6, WriteFrame

\* A report, version by version.
LEMMA ReportRows ==
    ASSUME TypeOK, NEW b \in Backends, NEW old, NEW P, NEW D,
           Report(b, {<<q, xid[b], cid[b]>> : q \in P}, {<<IdOf(old, q), cid[b]>> : q \in D})
    PROVE  Reports(b, old, P, D)
<1>1. /\ \A a \in Backends : a # b => did'[a] = did[a]
      /\ did'[b].clear = did[b].clear
      /\ did'[b].ins = did[b].ins \cup {<<q, xid[b], cid[b]>> : q \in P}
      /\ did'[b].del = did[b].del \cup {<<IdOf(old, q), cid[b]>> : q \in D}
  BY DEF Report, TypeOK
<1>2. ASSUME NEW r \in RowId, NEW x \in Xid, NEW k \in Cid
      PROVE  <<r, x, k>> \in {<<q, xid[b], cid[b]>> : q \in P}
             <=> r \in P /\ x = xid[b] /\ k = cid[b]
  OBVIOUS
<1>3. ASSUME NEW r \in RowId, NEW x \in Xid, NEW k \in Cid, NEW l \in Cid
      PROVE  <<<<r, x, k>>, l>> \in {<<IdOf(old, q), cid[b]>> : q \in D}
             <=> r \in D /\ x = old[r].xmin /\ k = old[r].cmin /\ l = cid[b]
  BY DEF IdOf
<1> QED BY <1>1, <1>2, <1>3 DEF Reports

\* The slots above the last row are empty, and the row itself is not among them.
LEMMA AboveTop ==
    ASSUME NEW rows, NEW top \in 0..MaxRowid, NEW n \in Nat, IsTop(rows, top), NEW q \in RowId
    PROVE  /\ q \in (top + 1)..(top + n) => rows[q].xmin = 0
           /\ rows[q].xmin # 0 => q \notin (top + 1)..(top + n)
BY DEF IsTop

\* The four statements that write.
LEMMA StatementsKeep ==
    ASSUME TableInv, TypeOK', CommitOrderInv', NEW b \in Backends,
           \/ \E n \in 1..MaxBatch : Insert(b, n)
           \/ InsertSpeculative(b)
           \/ \E r \in RowId : Delete(b, r) \/ Update(b, r)
    PROVE  TableInv'
<1> DEFINE old == Read(b).rows
<1>t. TypeOK BY DEF TableInv
<1>o. old \in [RowId -> Row] /\ Read(b) \in Content BY <1>t, ReadType
<1>b. xid[b] \in 0..MaxXid /\ cid[b] \in Cid /\ MaxBatch \in Nat BY <1>t DEF TypeOK
<1>n. ASSUME NEW top \in 0..MaxRowid, NEW n \in Nat, IsTop(old, top)
      PROVE  Leaves(b, old, WithNew(b, old, top, n), (top + 1)..(top + n), {})
  <2> SUFFICES ASSUME NEW q \in RowId
               PROVE  LET new == WithNew(b, old, top, n)[q]
                      IN  /\ q \in (top + 1)..(top + n) =>
                                /\ old[q].xmin = 0
                                /\ new.xmin = xid[b] /\ new.cmin = cid[b] /\ new.xmax = 0
                          /\ q \notin (top + 1)..(top + n) => new = old[q]
    BY DEF Leaves
  <2>1. q \in (top + 1)..(top + n) => old[q].xmin = 0 BY <1>n, AboveTop
  <2> HIDE DEF old
  <2> QED BY <2>1 DEF WithNew
<1>1. ASSUME NEW n \in 1..MaxBatch, Insert(b, n) PROVE TableInv'
  <2>1. PICK top \in 0..(MaxRowid - n) :
           /\ IsTop(old, top)
           /\ SqliteWrite(b, WithRows(Read(b), WithNew(b, old, top, n)))
           /\ Report(b, NewIds(b, top, n), {})
    BY <1>1 DEF Insert
  <2>2. n \in Nat /\ top \in 0..MaxRowid BY <1>b
  <2>3. WithNew(b, old, top, n) \in [RowId -> Row] BY <1>t, <1>o, <2>2, WithNewType
  <2>4. Leaves(b, old, WithNew(b, old, top, n), (top + 1)..(top + n), {})
    BY <1>n, <2>1, <2>2
  <2>5. Reports(b, old, (top + 1)..(top + n), {})
    <3>1. {<<IdOf(old, q), cid[b]>> : q \in {}} = {} OBVIOUS
    <3> QED BY <1>t, <2>1, <3>1, ReportRows DEF NewIds
  <2>6. Writing(b) /\ UNCHANGED <<writeUnchanged, spec>> /\ spec[b] = 0
    BY <1>1 DEF Insert, Writing
  <2> QED BY <2>1, <2>3, <2>4, <2>5, <2>6, StatementKeeps
<1>2. ASSUME InsertSpeculative(b) PROVE TableInv'
  <2>1. PICK top \in 0..(MaxRowid - 1) :
           /\ IsTop(old, top)
           /\ SqliteWrite(b, WithRows(Read(b), WithNew(b, old, top, 1)))
           /\ Report(b, NewIds(b, top, 1), {})
           /\ spec' = [spec EXCEPT ![b] = top + 1]
    BY <1>2 DEF InsertSpeculative
  <2>2. top \in 0..MaxRowid /\ top \in Nat OBVIOUS
  <2>3. WithNew(b, old, top, 1) \in [RowId -> Row] BY <1>t, <1>o, <2>2, WithNewType
  <2>4. Leaves(b, old, WithNew(b, old, top, 1), (top + 1)..(top + 1), {})
    BY <1>n, <2>1, <2>2
  <2>5. Reports(b, old, (top + 1)..(top + 1), {})
    <3>1. {<<IdOf(old, q), cid[b]>> : q \in {}} = {} OBVIOUS
    <3> QED BY <1>t, <2>1, <3>1, ReportRows DEF NewIds
  <2>6. Writing(b) /\ UNCHANGED writeUnchanged BY <1>2 DEF InsertSpeculative
  <2>7. /\ \A a \in Backends : a # b => spec'[a] = spec[a]
        /\ spec'[b] \in (top + 1)..(top + 1) /\ spec'[b] \in RowId
    BY <2>1, <1>t DEF TypeOK
  <2> QED BY <2>1, <2>3, <2>4, <2>5, <2>6, <2>7, StatementKeeps
<1>d. ASSUME NEW r \in RowId, r \in Scan(b)
      PROVE  /\ old[r].xmin # 0 /\ Visible(b, old[r])
             /\ old[r].xmax = 0 =>
                   /\ Leaves(b, old, Stamped(b, old, r), {}, {r})
                   /\ StampedIds(b, old, r) = {<<IdOf(old, q), cid[b]>> : q \in {r}}
             /\ old[r].xmax # 0 =>
                   /\ Leaves(b, old, Stamped(b, old, r), {}, {})
                   /\ StampedIds(b, old, r) = {<<IdOf(old, q), cid[b]>> : q \in {}}
  <2>1. old[r].xmin # 0 /\ Visible(b, old[r]) BY <1>d DEF Scan
  <2> HIDE DEF old
  <2>2. ASSUME old[r].xmax = 0
        PROVE  /\ Leaves(b, old, Stamped(b, old, r), {}, {r})
               /\ StampedIds(b, old, r) = {<<IdOf(old, q), cid[b]>> : q \in {r}}
    <3>1. Stamped(b, old, r) = [old EXCEPT ![r].xmax = xid[b], ![r].cmax = cid[b]]
      BY <2>1, <2>2 DEF Stamped
    <3>2. \A q \in RowId : q # r => Stamped(b, old, r)[q] = old[q] BY <3>1, <1>o
    <3>3. /\ Stamped(b, old, r)[r].xmin = old[r].xmin
          /\ Stamped(b, old, r)[r].cmin = old[r].cmin
          /\ Stamped(b, old, r)[r].xmax = xid[b] /\ Stamped(b, old, r)[r].cmax = cid[b]
      BY <3>1, <1>o DEF Row
    <3> QED BY <2>1, <2>2, <3>2, <3>3 DEF Leaves, StampedIds
  <2>3. ASSUME old[r].xmax # 0
        PROVE  /\ Leaves(b, old, Stamped(b, old, r), {}, {})
               /\ StampedIds(b, old, r) = {<<IdOf(old, q), cid[b]>> : q \in {}}
    BY <2>3 DEF Stamped, StampedIds, Leaves
  <2> QED BY <2>1, <2>2, <2>3
<1>3. ASSUME NEW r \in RowId, Delete(b, r) PROVE TableInv'
  <2>1. /\ SqliteWrite(b, WithRows(Read(b), Stamped(b, old, r)))
        /\ Report(b, {}, StampedIds(b, old, r))
        /\ r \in Scan(b) /\ Writing(b) /\ UNCHANGED <<writeUnchanged, spec>> /\ spec[b] = 0
    BY <1>3 DEF Delete, Writing
  <2>2. Stamped(b, old, r) \in [RowId -> Row] BY <1>t, <1>o, StampedType
  <2>3. PICK D : /\ Leaves(b, old, Stamped(b, old, r), {}, D)
                 /\ StampedIds(b, old, r) = {<<IdOf(old, q), cid[b]>> : q \in D}
    BY <1>d, <2>1
  <2>4. Reports(b, old, {}, D)
    <3>1. {<<q, xid[b], cid[b]>> : q \in {}} = {} OBVIOUS
    <3> QED BY <1>t, <2>1, <2>3, <3>1, ReportRows
  <2> QED BY <2>1, <2>2, <2>3, <2>4, StatementKeeps
<1>4. ASSUME NEW r \in RowId, Update(b, r) PROVE TableInv'
  <2> DEFINE mid == Stamped(b, old, r)
  <2>1. PICK top \in 0..(MaxRowid - 1) :
           /\ IsTop(old, top)
           /\ SqliteWrite(b, WithRows(Read(b), WithNew(b, mid, top, 1)))
           /\ Report(b, NewIds(b, top, 1), StampedIds(b, old, r))
    BY <1>4 DEF Update, update_row
  <2>2. r \in Scan(b) /\ Writing(b) /\ UNCHANGED <<writeUnchanged, spec>> /\ spec[b] = 0
    BY <1>4 DEF Update, Writing
  <2>3. mid \in [RowId -> Row] BY <1>t, <1>o, StampedType
  <2>4. PICK D : /\ Leaves(b, old, mid, {}, D) /\ (D = {r} \/ D = {})
                 /\ StampedIds(b, old, r) = {<<IdOf(old, q), cid[b]>> : q \in D}
    BY <1>d, <2>2
  <2>5. Reports(b, old, (top + 1)..(top + 1), D)
    BY <1>t, <2>1, <2>4, ReportRows DEF NewIds
  <2> HIDE DEF mid
  <2>6. WithNew(b, mid, top, 1) \in [RowId -> Row] BY <1>t, <2>3, WithNewType
  <2>7. Leaves(b, old, WithNew(b, mid, top, 1), (top + 1)..(top + 1), D)
    <3>1. top \in 0..MaxRowid OBVIOUS
    <3>2. \A q \in RowId : /\ q \in (top + 1)..(top + 1) => old[q].xmin = 0
                           /\ old[q].xmin # 0 => q \notin (top + 1)..(top + 1)
      BY <2>1, <3>1, AboveTop
    <3>3. r \notin (top + 1)..(top + 1) BY <1>d, <2>2, <3>2
    <3>4. ASSUME NEW q \in RowId, q \in (top + 1)..(top + 1)
          PROVE  /\ WithNew(b, mid, top, 1)[q].xmin = xid[b]
                 /\ WithNew(b, mid, top, 1)[q].cmin = cid[b]
                 /\ WithNew(b, mid, top, 1)[q].xmax = 0
      BY <3>4 DEF WithNew
    <3>5. ASSUME NEW q \in RowId, q \notin (top + 1)..(top + 1)
          PROVE  WithNew(b, mid, top, 1)[q] = mid[q]
      BY <3>5 DEF WithNew
    <3> DEFINE P == (top + 1)..(top + 1)
               new == WithNew(b, mid, top, 1)
    <3>6. D \cap P = {} BY <2>4, <3>3
    <3> HIDE DEF P, new, old
    <3>7. \A q \in RowId : /\ q \in P => /\ old[q].xmin = 0 /\ new[q].xmin = xid[b]
                                        /\ new[q].cmin = cid[b] /\ new[q].xmax = 0
                           /\ q \notin P => new[q] = mid[q]
      BY <3>2, <3>4, <3>5 DEF P, new
    <3>8. Leaves(b, old, new, P, D) BY <2>4, <3>6, <3>7 DEF Leaves
    <3> QED BY <3>8 DEF P, new
  <2> QED BY <2>1, <2>2, <2>5, <2>6, <2>7, StatementKeeps
<1> QED BY <1>1, <1>2, <1>3, <1>4

\* A speculative row is taken back.
LEMMA SpeculationLostKeeps ==
    ASSUME TableInv, TypeOK', CommitOrderInv', NEW b \in Backends, SpeculationLost(b)
    PROVE  TableInv'
<1> DEFINE old == Read(b).rows
           s == spec[b]
           rows == [old EXCEPT ![s] = NoRow]
           c == WithRows(Read(b), rows)
<1>t. TypeOK BY DEF TableInv
<1>z. OwnOf(b) /\ CopyOf(b) /\ ClearOf(b) /\ BaseOf(b)
  BY DEF TableInv, OwnInv, CopyInv, ClearInv, BaseInv
<1>w. /\ s # 0 /\ s \in RowId /\ phase[b] = "open" /\ xid[b] # 0
      /\ old[s].xmin = xid[b] /\ old[s].xmax = 0
  BY <1>t, <1>z DEF SpeculationLost, OwnOf, TableInv, CommitOrderInv, PhaseDiscipline, TypeOK
<1>u. /\ UNCHANGED <<nextXid, clog, phase, xid, cid, snap, oldest, excl, base, file>>
      /\ SqliteWrite(b, c)
  BY DEF SpeculationLost, writeUnchanged, SqliteWrite
<1>d. /\ \A a \in Backends : a # b => did'[a] = did[a] /\ spec'[a] = spec[a]
      /\ spec'[b] = 0
      /\ did'[b].ins = did[b].ins \ {IdOf(old, s)} /\ did'[b].del = did[b].del
      /\ did'[b].clear = did[b].clear
  BY <1>t DEF SpeculationLost, TypeOK
<1>o. old \in [RowId -> Row] BY <1>t, ReadType
<1>r. Read(b)'.rows = rows
  <2>1. c.rows = rows BY <1>t, ReadType DEF WithRows, Content
  <2>2. Read(b)' = c BY <1>t, <1>u DEF SqliteWrite, TypeOK, Read
  <2> QED BY <2>1, <2>2
<1>q. /\ rows[s].xmin = 0 /\ rows[s].xmax = 0
      /\ \A q \in RowId : q # s => rows[q] = old[q]
  BY <1>o, <1>w DEF NoRow
<1>s. Ended' = Ended /\ Seen(b)' = Seen(b) BY <1>u DEF Ended, Running, Seen
<1> HIDE DEF rows
<1>1. OwnOf(b)'
  <2>1. ASSUME NEW r \in RowId, NEW x \in Xid, NEW k \in Cid
        PROVE  <<r, x, k>> \in did'[b].ins <=> x = xid[b] /\ rows[r].xmin = x /\ rows[r].cmin = k
    <3>1. <<r, x, k>> \in did[b].ins <=> x = xid[b] /\ old[r].xmin = x /\ old[r].cmin = k
      BY <1>z DEF OwnOf
    <3>2. <<r, x, k>> \in did'[b].ins <=>
             /\ <<r, x, k>> \in did[b].ins
             /\ ~(r = s /\ x = old[s].xmin /\ k = old[s].cmin)
      BY <1>d DEF IdOf
    <3> HIDE DEF old, s
    <3> QED BY <1>q, <1>w, <3>1, <3>2
  <2>2. ASSUME NEW r \in RowId, NEW x \in Xid, NEW k \in Cid, NEW l \in Cid
        PROVE  <<<<r, x, k>>, l>> \in did'[b].del <=>
                  /\ rows[r].xmin = x /\ rows[r].cmin = k
                  /\ rows[r].xmax = xid[b] /\ rows[r].cmax = l
    <3>1. <<<<r, x, k>>, l>> \in did[b].del <=>
                  /\ old[r].xmin = x /\ old[r].cmin = k
                  /\ old[r].xmax = xid[b] /\ old[r].cmax = l
      BY <1>z, <1>w DEF OwnOf
    <3> HIDE DEF old, s
    <3> QED BY <1>d, <1>q, <1>w, <3>1
  <2>3. ASSUME NEW r \in RowId, rows[r].xmin = xid[b] PROVE rows[r].xmax \in {0, xid[b]}
    <3>1. old[r].xmin = xid[b] => old[r].xmax \in {0, xid[b]} BY <1>z, <1>w DEF OwnOf
    <3> HIDE DEF old, s
    <3> QED BY <1>q, <2>3, <3>1
  <2> QED BY <1>u, <1>r, <1>w, <1>d, <2>1, <2>2, <2>3 DEF OwnOf
<1>2. CopyOf(b)'
  <2> SUFFICES ASSUME ~did[b].clear, NEW r \in RowId
               PROVE  rows[r] = file.rows[r] \/ PutIn(b, r)' \/ StampedIn(b, r)'
    BY <1>u, <1>r, <1>d DEF CopyOf
  <2>1. old[r] = file.rows[r] \/ PutIn(b, r) \/ StampedIn(b, r)
    BY <1>z, <1>w DEF CopyOf, ReapedIn
  <2>2. file.rows[s].xmin # xid[b]
    BY <1>w DEF TableInv, CommitOrderInv, WritesArePrivate, Carries
  <2>3. CASE r = s
    <3>1. PutIn(b, r) BY <1>w, <2>1, <2>2, <2>3 DEF StampedIn
    <3> QED BY <1>r, <1>q, <1>u, <2>3, <3>1 DEF PutIn
  <2>4. CASE r # s
    <3>1. rows[r] = old[r] BY <1>q, <2>4
    <3> QED BY <1>r, <1>u, <1>s, <2>1, <3>1 DEF PutIn, StampedIn
  <2> QED BY <2>3, <2>4
<1>3. ClearOf(b)'
  <2>1. ASSUME did[b].clear, NEW r \in RowId PROVE rows[r].xmin \in {0, xid[b]}
    <3>1. old[r].xmin \in {0, xid[b]} BY <1>z, <2>1 DEF ClearOf
    <3> HIDE DEF old, s
    <3> QED BY <1>q, <3>1
  <2> QED BY <1>u, <1>r, <1>s, <1>z, <1>d, <2>1 DEF ClearOf, Listed
<1>4. BaseOf(b)' BY <1>u, <1>s, <1>z, <1>d, SameBase
<1>5. /\ did'[b].clear => Truncates /\ excl'[b] /\ xid[b] # 0
      /\ excl'[b] => \A a \in Backends \ {b} : phase[a] = "idle"
  BY <1>u, <1>d DEF TableInv, LockInv
<1> HIDE DEF c
<1> QED BY <1>u, <1>w, <1>d, <1>1, <1>2, <1>3, <1>4, <1>5, WriteFrame

\* TRUNCATE empties the table, alone.
LEMMA TruncateKeeps ==
    ASSUME TableInv, TypeOK', CommitOrderInv', NEW b \in Backends, Truncate(b)
    PROVE  TableInv'
<1> DEFINE c == WithRows(Read(b), Empty.rows)
<1>t. TypeOK BY DEF TableInv
<1>w. /\ phase[b] = "open" /\ snap[b] # NoSnap /\ xid[b] # 0 /\ spec[b] = 0 /\ Truncates
      /\ \A a \in Backends \ {b} : phase[a] = "idle"
  BY DEF Truncate, Writing
<1>u. /\ UNCHANGED <<nextXid, clog, phase, xid, cid, snap, oldest, spec, file>>
      /\ SqliteWrite(b, c)
  BY DEF Truncate, SqliteWrite
<1>d. /\ \A a \in Backends : a # b =>
            did'[a] = did[a] /\ excl'[a] = excl[a] /\ base'[a] = base[a]
      /\ did'[b].ins = {} /\ did'[b].del = {} /\ did'[b].clear
      /\ base'[b] = Table /\ excl'[b]
  BY <1>t DEF Truncate, TypeOK
<1>r. \A r \in RowId : Read(b)'.rows[r].xmin = 0 /\ Read(b)'.rows[r].xmax = 0
  <2>1. c.rows = Empty.rows BY <1>t, ReadType DEF WithRows, Content
  <2>2. Read(b)' = c BY <1>t, <1>u DEF SqliteWrite, TypeOK, Read
  <2> QED BY <2>1, <2>2 DEF Empty, NoRow
<1>s. Ended' = Ended BY <1>u DEF Ended, Running
<1>1. OwnOf(b)' BY <1>u, <1>r, <1>w, <1>d DEF OwnOf
<1>2. CopyOf(b)' BY <1>d DEF CopyOf
<1>3. ClearOf(b)'
  <2>1. ASSUME NEW r \in RowId, NEW x \in Xid, NEW k \in Cid
        PROVE  <<r, x, k>> \in base'[b] <=> Listed(file.rows, Ended, r, x, k)'
    BY <1>d, <1>t, <1>u, <1>s, TableRow DEF Listed
  <2> QED BY <1>r, <2>1 DEF ClearOf
<1>4. BaseOf(b)' BY <1>d DEF BaseOf
<1> HIDE DEF c
<1> QED BY <1>u, <1>w, <1>d, <1>1, <1>2, <1>3, <1>4, WriteFrame

\* VACUUM reaps dead rows.
LEMMA VacuumDeadKeeps ==
    ASSUME TableInv, TypeOK', CommitOrderInv', NEW b \in Backends, VacuumDead(b)
    PROVE  TableInv'
<1> DEFINE c == [rows |-> Reaped(Read(b).rows, oldest[b]), last_vacuum_xmin |-> oldest[b]]
<1>t. TypeOK BY DEF TableInv
<1>w. /\ phase[b] = "vacuum" /\ ~in_txn[b] /\ xid[b] = 0 /\ spec[b] = 0 /\ snap[b] = NoSnap
      /\ ~did[b].clear /\ Read(b) = file
  BY DEF VacuumDead, TableInv, LockInv, CommitOrderInv, PhaseDiscipline, SnapshotInv, Read
<1>u. /\ UNCHANGED <<nextXid, clog, phase, xid, cid, snap, oldest, spec, file, excl, base, did>>
      /\ SqliteWrite(b, c)
  BY DEF VacuumDead, SqliteWrite, writeUnchanged
<1>r. Read(b)' = c BY <1>t, <1>u DEF SqliteWrite, TypeOK, Read
<1>1. OwnOf(b)'
  <2>1. /\ \A r \in RowId, x \in Xid, k \in Cid : <<r, x, k>> \notin did[b].ins
        /\ \A r \in RowId, x \in Xid, k \in Cid, l \in Cid : <<<<r, x, k>>, l>> \notin did[b].del
    BY <1>w DEF TableInv, OwnInv, OwnOf
  <2> QED BY <1>u, <1>w, <2>1 DEF OwnOf
<1>2. CopyOf(b)'
  <2> SUFFICES ASSUME NEW r \in RowId PROVE c.rows[r] = file.rows[r] \/ ReapedIn(b, r)'
    BY <1>u, <1>r DEF CopyOf
  <2>1. c.rows[r] = IF file.rows[r].xmax # 0 /\ file.rows[r].xmax < oldest[b]
                    THEN NoRow ELSE file.rows[r]
    BY <1>w DEF Reaped
  <2> HIDE DEF c
  <2> QED BY <1>u, <1>r, <1>w, <2>1 DEF ReapedIn, NoRow
<1>3. ClearOf(b)' BY <1>u, <1>w DEF ClearOf
<1>4. BaseOf(b)' BY <1>u, <1>w DEF BaseOf
<1>5. excl'[b] => \A a \in Backends \ {b} : phase[a] = "idle" BY <1>u DEF TableInv, LockInv
<1> HIDE DEF c
<1> QED BY <1>u, <1>w, <1>1, <1>2, <1>3, <1>4, <1>5, WriteFrame

-----------------------------------------------------------------------------
(* The end of a transaction. *)

\* VACUUM and failures in the commit window do not meet: a row whose deleter
\* failed there looks dead to vacuum_dead (the run vacuum_aborted).  Nor is the
\* xid of what such a failure left handed out again: its new owner would take
\* the rows and stamps for its own (the run xid_reuse).
Healing == FailureWindow => ~Vacuums /\ ~XidReuse

\* What VACUUM reaped was deleted by a transaction that has ended in commit.
LEMMA ReapedDead ==
    ASSUME TableInv, Healing, NEW b \in Backends, NEW r \in RowId, ReapedIn(b, r),
           file.rows[r].xmin # 0
    PROVE  file.rows[r].xmax \in Ended /\ file.rows[r].xmax < oldest[b]
<1>t. TypeOK BY DEF TableInv
<1>1. phase[b] = "vacuum" /\ file.rows[r].xmax # 0 /\ file.rows[r].xmax < oldest[b]
  BY DEF ReapedIn
<1>2. ~FailureWindow BY <1>1 DEF Healing, TableInv, LockInv
<1>3. file.rows[r].xmax \in Nat /\ oldest[b] \in Nat /\ \A c \in Backends : xid[c] \in Nat
  <2>1. file.rows[r] \in Row BY <1>t, RowType
  <2> QED BY <2>1, <1>t DEF TypeOK, Row
<1>4. \A c \in Backends : xid[c] # file.rows[r].xmax
  BY <1>1, <1>3 DEF TableInv, OldestInv
<1>5. file.rows[r].xmax \in clog BY <1>1, <1>2, <1>4 DEF TableInv, StampInv
<1> QED BY <1>1, <1>4, <1>5 DEF Ended, Running

\* COMMIT changes nothing for who sees neither the xid of its transaction nor a
\* row that was reaped.
LEMMA CommitKeepsListed ==
    ASSUME TableInv, Healing, NEW b \in Backends, ~did[b].clear,
           NEW S, 0 \notin S, xid[b] \notin S, \A x \in Ended : x < oldest[b] => x \in S,
           NEW r \in RowId, NEW x \in Xid, NEW k \in Cid
    PROVE  Listed(Read(b).rows, S, r, x, k) <=> Listed(file.rows, S, r, x, k)
<1>0. Read(b).rows[r] = file.rows[r] \/ PutIn(b, r) \/ StampedIn(b, r) \/ ReapedIn(b, r)
  BY DEF TableInv, CopyInv, CopyOf
<1>1. CASE Read(b).rows[r] = file.rows[r] BY <1>1 DEF Listed
<1>2. CASE PutIn(b, r) BY <1>2 DEF PutIn, Listed
<1>3. CASE StampedIn(b, r) BY <1>3 DEF StampedIn, Listed
<1>4. CASE ReapedIn(b, r)
  <2>1. Read(b).rows[r].xmin = 0 BY <1>4 DEF ReapedIn
  <2>2. file.rows[r].xmin # 0 => file.rows[r].xmax \in S BY <1>4, ReapedDead
  <2> QED BY <2>1, <2>2 DEF Listed
<1> QED BY <1>0, <1>1, <1>2, <1>3, <1>4

\* A snapshot sees what VACUUM considers dead.
LEMMA SeenBelowHorizon ==
    ASSUME TableInv, NEW b \in Backends, NEW c \in Backends, snap[c] # NoSnap,
           NEW x \in Ended, x < oldest[b]
    PROVE  x \in Seen(c)
<1>t. TypeOK BY DEF TableInv
<1>1. x \in clog /\ x \in Nat /\ x # 0 BY <1>t DEF Ended, TypeOK
<1>2. x # xid[c] BY <1>1 DEF Ended, Running
<1>3. /\ oldest[b] <= snap[c].xmin /\ snap[c].xmin <= snap[c].xmax
      /\ \A y \in snap[c].xip : snap[c].xmin <= y
  BY DEF TableInv, OldestInv, SnapshotInv
<1>4. oldest[b] \in Nat /\ snap[c].xmin \in Nat /\ snap[c].xmax \in Nat
  BY <1>t DEF TypeOK, Snap
<1> QED BY <1>1, <1>2, <1>3, <1>4 DEF Seen

\* Another transaction's rows are none of those b's copy changed.
LEMMA OthersUntouched ==
    ASSUME TableInv, NEW b \in Backends, NEW c \in Backends, c # b, xid[c] # 0,
           ~in_txn[c], ~did[b].clear, NEW r \in RowId
    PROVE  \/ Read(b).rows[r] = file.rows[r]
           \/ /\ Read(b).rows[r].xmin # xid[c] /\ file.rows[r].xmin # xid[c]
              /\ Read(b).rows[r].xmin # 0 => Read(b).rows[r].xmax # xid[c]
              /\ file.rows[r].xmin # 0 => file.rows[r].xmax # xid[c]
<1>t. TypeOK BY DEF TableInv
<1>0. Read(b).rows[r] = file.rows[r] \/ PutIn(b, r) \/ StampedIn(b, r) \/ ReapedIn(b, r)
  BY DEF TableInv, CopyInv, CopyOf
<1>1. xid[c] # xid[b] BY DEF TableInv, CommitOrderInv, XidsIssued, XidsStored
<1>2. xid[c] \notin Ended BY DEF Ended, Running
<1>3. xid[b] # 0 /\ Read(b).rows[r].xmin = xid[b] => Read(b).rows[r].xmax \in {0, xid[b]}
  BY DEF TableInv, OwnInv, OwnOf
<1>4. CASE PutIn(b, r) BY <1>1, <1>3, <1>4 DEF PutIn
<1>5. CASE StampedIn(b, r) BY <1>1, <1>2, <1>5 DEF StampedIn
<1>6. CASE ReapedIn(b, r)
  <2>1. file.rows[r].xmin = xid[c] => file.rows[r].xmax \in {0, xid[c]}
    BY DEF TableInv, OwnInv, OwnOf, Read
  <2>2. file.rows[r].xmax # xid[c]
    <3>1. file.rows[r] \in Row BY <1>t, RowType
    <3>2. file.rows[r].xmax \in Nat /\ oldest[b] \in Nat /\ xid[c] \in Nat
      BY <3>1, <1>t DEF TypeOK, Row
    <3> QED BY <3>2, <1>6 DEF ReapedIn, TableInv, OldestInv
  <2> QED BY <1>6, <2>1, <2>2 DEF ReapedIn
<1> QED BY <1>0, <1>4, <1>5, <1>6

\* The PreCommit callback publishes the copy.
LEMMA PreCommitKeeps ==
    ASSUME TableInv, TypeOK', CommitOrderInv', Healing, NEW b \in Backends, PreCommit(b)
    PROVE  TableInv'
<1>t. TypeOK BY DEF TableInv
<1>u. /\ UNCHANGED <<nextXid, clog, xid, cid, snap, spec, oldest, excl, did, base>>
      /\ file' = Read(b) /\ phase[b] \in {"open", "vacuum"}
      /\ phase[b] = "open" => spec[b] = 0
  BY DEF PreCommit
<1>p. /\ \A c \in Backends : c # b =>
            phase'[c] = phase[c] /\ in_txn'[c] = in_txn[c] /\ local'[c] = local[c]
      /\ phase'[b] = "precommit" /\ ~in_txn'[b]
  BY <1>t DEF PreCommit, TypeOK
<1>f. ~in_txn[b] => file' = file BY <1>u DEF Read
<1>x. in_txn[b] => \A c \in Backends : c # b => ~in_txn[c] BY DEF TableInv, LockInv
<1>r. /\ Read(b)' = Read(b)
      /\ \A c \in Backends : c # b /\ ~in_txn[b] => Read(c)' = Read(c)
      /\ \A c \in Backends : c # b /\ in_txn[b] => Read(c)' = Read(b) /\ Read(c) = file
  BY <1>u, <1>p, <1>f, <1>x DEF Read
<1>s. Ended' = Ended /\ \A c \in Backends : Seen(c)' = Seen(c)
  BY <1>u DEF Ended, Running, Seen
<1>c. did[b].clear => \A c \in Backends : c # b =>
         phase[c] = "idle" /\ xid[c] = 0 /\ spec[c] = 0 /\ snap[c] = NoSnap /\ ~did[c].clear
  BY DEF TableInv, LockInv, CommitOrderInv, PhaseDiscipline, SnapshotInv
<1>1. SnapshotInv' BY <1>u, <1>p DEF TableInv, SnapshotInv
<1>2. OldestInv' BY <1>u DEF TableInv, OldestInv
<1>3. LockInv'
  <2>1. ASSUME NEW a \in Backends
        PROVE  /\ in_txn'[a] => in_txn[a] /\ a # b
               /\ phase'[a] # "precommit" => phase'[a] = phase[a] /\ in_txn'[a] = in_txn[a]
               /\ phase[a] = "idle" => phase'[a] = "idle"
    BY <1>u, <1>p
  <2> QED BY <1>u, <1>p, <2>1 DEF TableInv, LockInv
<1>4. OwnInv'
  <2>1. OwnOf(b)'
    <3>1. OwnOf(b) BY DEF TableInv, OwnInv
    <3> QED BY <1>u, <1>r, <3>1, SameOwn
  <2>2. ASSUME NEW c \in Backends, c # b PROVE OwnOf(c)'
    <3>0. OwnOf(c) BY DEF TableInv, OwnInv
    <3>1. CASE ~in_txn[b] BY <1>u, <1>r, <2>2, <3>0, <3>1, SameOwn
    <3>2. CASE in_txn[b]
      <4>r. Read(c)' = Read(b) /\ Read(c) = file /\ ~in_txn[c] BY <1>r, <1>x, <2>2, <3>2
      <4>1. CASE xid[c] = 0
        <5>1. /\ \A r \in RowId, x \in Xid, k \in Cid : <<r, x, k>> \notin did[c].ins
              /\ \A r \in RowId, x \in Xid, k \in Cid, l \in Cid :
                    <<<<r, x, k>>, l>> \notin did[c].del
              /\ spec[c] = 0
          BY <3>0, <4>1 DEF OwnOf
        <5> QED BY <1>u, <4>1, <5>1 DEF OwnOf
      <4>2. CASE xid[c] # 0
        <5>0. ~did[b].clear BY <1>c, <2>2, <4>2
        <5>d. \A r \in RowId :
                \/ Read(b).rows[r] = file.rows[r]
                \/ /\ Read(b).rows[r].xmin # xid[c] /\ file.rows[r].xmin # xid[c]
                   /\ Read(b).rows[r].xmin # 0 => Read(b).rows[r].xmax # xid[c]
                   /\ file.rows[r].xmin # 0 => file.rows[r].xmax # xid[c]
          BY <2>2, <4>r, <4>2, <5>0, OthersUntouched
        <5>1. ASSUME NEW r \in RowId, NEW x \in Xid, NEW k \in Cid
              PROVE  <<r, x, k>> \in did[c].ins <=>
                       x = xid[c] /\ Read(b).rows[r].xmin = x /\ Read(b).rows[r].cmin = k
          <6>1. <<r, x, k>> \in did[c].ins <=>
                  x = xid[c] /\ file.rows[r].xmin = x /\ file.rows[r].cmin = k
            BY <3>0, <4>r DEF OwnOf
          <6> QED BY <5>d, <6>1
        <5>2. ASSUME NEW r \in RowId, NEW x \in Xid, NEW k \in Cid, NEW l \in Cid
              PROVE  <<<<r, x, k>>, l>> \in did[c].del <=>
                       /\ Read(b).rows[r].xmin = x /\ Read(b).rows[r].cmin = k
                       /\ Read(b).rows[r].xmax = xid[c] /\ Read(b).rows[r].cmax = l
          <6>1. <<<<r, x, k>>, l>> \in did[c].del <=>
                       /\ file.rows[r].xmin = x /\ file.rows[r].cmin = k
                       /\ file.rows[r].xmax = xid[c] /\ file.rows[r].cmax = l
            BY <3>0, <4>r, <4>2 DEF OwnOf
          <6>2. x # 0 OBVIOUS
          <6> QED BY <5>d, <6>1, <6>2
        <5>3. ASSUME NEW r \in RowId, Read(b).rows[r].xmin = xid[c]
              PROVE  Read(b).rows[r].xmax \in {0, xid[c]}
          <6>1. file.rows[r].xmin = xid[c] => file.rows[r].xmax \in {0, xid[c]}
            BY <3>0, <4>r, <4>2 DEF OwnOf
          <6> QED BY <5>d, <5>3, <6>1
        <5>4. spec[c] = 0
          <6>1. spec[c] # 0 => spec[c] \in RowId /\ phase[c] = "open" /\ file.rows[spec[c]].xmin = xid[c]
            BY <3>0, <4>r, <1>t DEF OwnOf, TableInv, CommitOrderInv, PhaseDiscipline, TypeOK
          <6> QED BY <6>1, <4>2 DEF TableInv, CommitOrderInv, WritesArePrivate, Carries
        <5>u. did'[c] = did[c] /\ xid'[c] = xid[c] /\ spec'[c] = spec[c] BY <1>u
        <5>6. ASSUME NEW r \in RowId, NEW x \in Xid, NEW k \in Cid
              PROVE  <<r, x, k>> \in did'[c].ins <=>
                       /\ x = xid'[c]
                       /\ Read(c)'.rows[r].xmin = x /\ Read(c)'.rows[r].cmin = k
          <6>1. <<r, x, k>> \in did[c].ins <=>
                   x = xid[c] /\ Read(b).rows[r].xmin = x /\ Read(b).rows[r].cmin = k
            BY <5>1
          <6> QED BY <4>r, <5>u, <6>1
        <5>7. ASSUME NEW r \in RowId, NEW x \in Xid, NEW k \in Cid, NEW l \in Cid
              PROVE  <<<<r, x, k>>, l>> \in did'[c].del <=>
                       /\ xid'[c] # 0
                       /\ Read(c)'.rows[r].xmin = x /\ Read(c)'.rows[r].cmin = k
                       /\ Read(c)'.rows[r].xmax = xid'[c] /\ Read(c)'.rows[r].cmax = l
          <6>1. <<<<r, x, k>>, l>> \in did[c].del <=>
                   /\ Read(b).rows[r].xmin = x /\ Read(b).rows[r].cmin = k
                   /\ Read(b).rows[r].xmax = xid[c] /\ Read(b).rows[r].cmax = l
            BY <5>2
          <6> QED BY <4>r, <4>2, <5>u, <6>1
        <5>8. \A r \in RowId : xid'[c] # 0 /\ Read(c)'.rows[r].xmin = xid'[c] =>
                Read(c)'.rows[r].xmax \in {0, xid'[c]}
          BY <4>r, <5>u, <5>3
        <5> QED BY <5>u, <5>4, <5>6, <5>7, <5>8 DEF OwnOf
      <4> QED BY <4>1, <4>2
    <3> QED BY <3>1, <3>2
  <2> QED BY <2>1, <2>2 DEF OwnInv
<1>5. CopyInv'
  <2>1. CASE in_txn[b]
    <3>1. \A c \in Backends : Read(c)' = file' BY <1>u, <1>r, <2>1
    <3> QED BY <3>1 DEF CopyInv, CopyOf
  <2>2. CASE ~in_txn[b]
    <3>1. Read(b)' = file' BY <1>u, <1>r
    <3>2. ASSUME NEW c \in Backends, c # b PROVE CopyOf(c)'
      BY <1>u, <1>p, <1>r, <1>f, <1>s, <2>2, <3>2
      DEF TableInv, CopyInv, CopyOf, PutIn, StampedIn, ReapedIn
    <3> QED BY <3>1, <3>2 DEF CopyInv, CopyOf
  <2> QED BY <2>1, <2>2
<1>6. ClearInv'
  <2>1. ClearOf(b)' BY <1>u, <1>p, <1>r DEF TableInv, ClearInv, ClearOf
  <2>2. ASSUME NEW c \in Backends, c # b PROVE ~did'[c].clear
    BY <1>u, <2>2 DEF TableInv, LockInv
  <2> QED BY <2>1, <2>2 DEF ClearInv, ClearOf
<1>7. BaseInv'
  <2> SUFFICES ASSUME NEW c \in Backends, snap[c] # NoSnap, ~did[c].clear,
                      NEW r \in RowId, NEW x \in Xid, NEW k \in Cid
               PROVE  <<r, x, k>> \in base[c] <=> Listed(Read(b).rows, Seen(c), r, x, k)
    <3>1. \A c \in Backends, r \in RowId, x \in Xid, k \in Cid :
             Listed(file.rows, Seen(c), r, x, k)' <=> Listed(Read(b).rows, Seen(c), r, x, k)
      BY <1>u, <1>s DEF Listed
    <3> QED BY <1>u, <3>1 DEF BaseInv, BaseOf
  <2>1. <<r, x, k>> \in base[c] <=> Listed(file.rows, Seen(c), r, x, k)
    BY DEF TableInv, BaseInv, BaseOf
  <2>2. ~did[b].clear BY <1>c
  <2>3. 0 \notin Seen(c) BY <1>t DEF Seen, TypeOK
  <2>4. xid[b] \notin Seen(c)
    <3>1. xid[b] \notin clog BY <1>u DEF TableInv, CommitOrderInv, PhaseDiscipline
    <3> QED BY <3>1 DEF Seen
  <2>5. \A y \in Ended : y < oldest[b] => y \in Seen(c) BY SeenBelowHorizon
  <2> QED BY <2>1, <2>2, <2>3, <2>4, <2>5, CommitKeepsListed
<1>8. StampInv'
  <2> SUFFICES ASSUME ~FailureWindow, NEW r \in RowId,
                      Read(b).rows[r].xmin # 0, Read(b).rows[r].xmax # 0
               PROVE  \/ Read(b).rows[r].xmax \in clog
                      \/ \E c \in Backends : xid[c] = Read(b).rows[r].xmax
    BY <1>u DEF StampInv
  <2>1. xid[b] # 0 /\ Read(b).rows[r].xmin = xid[b] => Read(b).rows[r].xmax \in {0, xid[b]}
    BY DEF TableInv, OwnInv, OwnOf
  <2>2. CASE did[b].clear BY <2>1, <2>2 DEF TableInv, ClearInv, ClearOf
  <2>3. CASE ~did[b].clear
    <3>1. Read(b).rows[r] = file.rows[r] \/ PutIn(b, r) \/ StampedIn(b, r) \/ ReapedIn(b, r)
      BY <2>3 DEF TableInv, CopyInv, CopyOf
    <3>2. CASE Read(b).rows[r] = file.rows[r] BY <3>2 DEF TableInv, StampInv
    <3>3. CASE PutIn(b, r) BY <2>1, <3>3 DEF PutIn
    <3>4. CASE StampedIn(b, r) BY <3>4 DEF StampedIn
    <3>5. CASE ReapedIn(b, r) BY <3>5 DEF ReapedIn
    <3> QED BY <3>1, <3>2, <3>3, <3>4, <3>5
  <2> QED BY <2>2, <2>3
<1> QED BY <1>1, <1>2, <1>3, <1>4, <1>5, <1>6, <1>7, <1>8 DEF TableInv

\* Transactions end, in commit or not.
LEMMA ForgetKeeps ==
    ASSUME TableInv, TypeOK', CommitOrderInv', NEW B \in SUBSET Backends, Forget(B),
           UNCHANGED <<clog, file>>, B # Backends => nextXid' = nextXid,
           B = Backends \/ \E b \in B : phase[b] # "idle",
           \A b \in B : phase[b] = "precommit" /\ xid[b] # 0 => FailureWindow
    PROVE  TableInv'
<1>t. TypeOK BY DEF TableInv
<1>p. \A c \in Backends :
         /\ c \in B => /\ phase'[c] = "idle" /\ xid'[c] = 0 /\ snap'[c] = NoSnap
                       /\ ~in_txn'[c] /\ spec'[c] = 0 /\ oldest'[c] = 0 /\ ~excl'[c]
                       /\ did'[c] = NoDid
         /\ c \notin B => /\ phase'[c] = phase[c] /\ xid'[c] = xid[c] /\ snap'[c] = snap[c]
                          /\ in_txn'[c] = in_txn[c] /\ spec'[c] = spec[c]
                          /\ oldest'[c] = oldest[c] /\ excl'[c] = excl[c] /\ did'[c] = did[c]
                          /\ local'[c] = local[c] /\ base'[c] = base[c]
  BY <1>t DEF Forget, TypeOK
<1>n. NoDid.ins = {} /\ NoDid.del = {} /\ ~NoDid.clear BY DEF NoDid
<1>r. \A c \in Backends : /\ c \in B => Read(c)' = file
                          /\ c \notin B => Read(c)' = Read(c)
  BY <1>p DEF Read
<1>s. Ended \subseteq Ended' /\ \A c \in Backends : c \notin B => Seen(c)' = Seen(c)
  BY <1>p DEF Ended, Running, Seen
<1>o. \A c \in Backends : c \notin B => ~did[c].clear
  BY DEF TableInv, LockInv
<1>1. SnapshotInv' BY <1>p DEF TableInv, SnapshotInv
<1>2. OldestInv'
  <2>1. ASSUME NEW d \in Backends
        PROVE  /\ oldest'[d] <= nextXid'
               /\ \A c \in Backends : /\ xid'[c] # 0 => oldest'[d] <= xid'[c]
                                      /\ snap'[c] # NoSnap => oldest'[d] <= snap'[c].xmin
    <3>1. CASE d \in B
      <4>1. oldest'[d] = 0 /\ nextXid' \in Nat BY <1>p, <3>1 DEF TypeOK
      <4>2. \A c \in Backends : xid'[c] \in Nat /\ snap'[c].xmin \in Nat BY DEF TypeOK, Snap
      <4> QED BY <4>1, <4>2
    <3>2. CASE d \notin B BY <1>p, <3>2 DEF TableInv, OldestInv
    <3> QED BY <3>1, <3>2
  <2> QED BY <2>1 DEF OldestInv
<1>3. LockInv'
  <2>1. ASSUME NEW c \in Backends
        PROVE  /\ in_txn'[c] => in_txn[c] /\ c \notin B
               /\ excl'[c] => excl[c] /\ c \notin B
               /\ phase[c] = "idle" => phase'[c] = "idle"
               /\ did'[c].clear => did[c].clear /\ c \notin B
               /\ phase'[c] # "idle" => c \notin B
    BY <1>p, <1>n
  <2> QED BY <1>p, <2>1 DEF TableInv, LockInv
<1>4. OwnInv'
  <2>1. ASSUME NEW c \in Backends, c \in B PROVE OwnOf(c)' BY <1>p, <1>n, <2>1 DEF OwnOf
  <2>2. ASSUME NEW c \in Backends, c \notin B PROVE OwnOf(c)'
    <3>1. OwnOf(c) BY DEF TableInv, OwnInv
    <3> QED BY <1>p, <1>r, <2>2, <3>1, SameOwn
  <2> QED BY <2>1, <2>2 DEF OwnInv
<1>5. CopyInv'
  <2>1. ASSUME NEW c \in Backends, c \in B PROVE CopyOf(c)' BY <1>r, <2>1 DEF CopyOf
  <2>2. ASSUME NEW c \in Backends, c \notin B PROVE CopyOf(c)'
    BY <1>p, <1>r, <1>s, <2>2 DEF TableInv, CopyInv, CopyOf, PutIn, StampedIn, ReapedIn
  <2> QED BY <2>1, <2>2 DEF CopyInv
<1>6. ClearInv' BY <1>p, <1>n, <1>o DEF ClearInv, ClearOf
<1>7. BaseInv'
  <2>1. ASSUME NEW c \in Backends, c \in B PROVE BaseOf(c)' BY <1>p, <2>1 DEF BaseOf
  <2>2. ASSUME NEW c \in Backends, c \notin B PROVE BaseOf(c)'
    <3>1. BaseOf(c) BY DEF TableInv, BaseInv
    <3> QED BY <1>p, <1>s, <2>2, <3>1, SameBase
  <2> QED BY <2>1, <2>2 DEF BaseInv
<1>8. StampInv'
  <2> SUFFICES ASSUME ~FailureWindow, NEW r \in RowId,
                      file.rows[r].xmin # 0, file.rows[r].xmax # 0
               PROVE  \/ file.rows[r].xmax \in clog
                      \/ \E c \in Backends : xid'[c] = file.rows[r].xmax
    BY DEF StampInv
  <2>1. file.rows[r].xmax \in clog \/ \E c \in Backends : xid[c] = file.rows[r].xmax
    BY DEF TableInv, StampInv
  <2>2. ASSUME NEW c \in Backends, xid[c] = file.rows[r].xmax PROVE file.rows[r].xmax \in clog \/ xid'[c] = file.rows[r].xmax
    <3>1. phase[c] # "open"
      BY <2>2 DEF TableInv, CommitOrderInv, WritesArePrivate, Carries
    <3>2. phase[c] \notin {"idle", "vacuum"}
      BY <2>2 DEF TableInv, CommitOrderInv, PhaseDiscipline
    <3>3. phase[c] \in {"precommit", "recorded"} BY <3>1, <3>2, <1>t DEF TypeOK, Phases
    <3>4. phase[c] = "recorded" => xid[c] \in clog BY DEF TableInv, LockInv
    <3> QED BY <1>p, <2>2, <3>3, <3>4
  <2> QED BY <2>1, <2>2
<1> QED BY <1>1, <1>2, <1>3, <1>4, <1>5, <1>6, <1>7, <1>8 DEF TableInv

-----------------------------------------------------------------------------
(* Scans and VACUUM. *)

\* The invariant holds at the start ...
LEMMA TableInit == ASSUME Init PROVE TableInv
<1>1. TypeOK BY ConstantTypes DEF Init, TypeOK, Phases
<1>2. CommitOrderInv BY CommitOrderInit
<1>3. \A b \in Backends : Read(b) = file BY DEF Init, Read
<1>4. \A r \in RowId : file.rows[r].xmin = 0 /\ file.rows[r].xmax = 0
  BY DEF Init, Empty, NoRow
<1>5. \A b \in Backends : /\ did[b].ins = {} /\ did[b].del = {} /\ ~did[b].clear
                          /\ xid[b] = 0 /\ snap[b] = NoSnap /\ spec[b] = 0 /\ oldest[b] = 0
  BY DEF Init, NoDid
<1>6. SnapshotInv BY <1>5 DEF SnapshotInv
<1>7. OldestInv BY <1>5, <1>1 DEF OldestInv, TypeOK
<1>8. LockInv BY <1>5 DEF LockInv, Init
<1>9. OwnInv BY <1>5 DEF OwnInv, OwnOf
<1>10. CopyInv BY <1>3 DEF CopyInv, CopyOf
<1>11. ClearInv /\ BaseInv BY <1>5 DEF ClearInv, ClearOf, BaseInv, BaseOf
<1>12. StampInv BY <1>4 DEF StampInv
<1> QED BY <1>1, <1>2, <1>6, <1>7, <1>8, <1>9, <1>10, <1>11, <1>12 DEF TableInv

\* ... and every step keeps it.
LEMMA TableStep == ASSUME TableInv, Healing, [Next]_vars PROVE TableInv'
<1>t. TypeOK' BY TypeStep DEF TableInv
<1>c. CommitOrderInv' BY CommitOrderStep DEF TableInv, Healing, NoAdoption
<1>0. CASE UNCHANGED vars
  <2>1. \A c \in Backends : Read(c)' = Read(c) BY <1>0, SameRead DEF vars
  <2>2. Ended' = Ended /\ \A c \in Backends : Seen(c)' = Seen(c)
    BY <1>0 DEF vars, Ended, Running, Seen
  <2>3. SnapshotInv' /\ OldestInv' /\ LockInv' /\ StampInv'
    BY <1>0 DEF vars, TableInv, SnapshotInv, OldestInv, LockInv, StampInv
  <2>4. ASSUME NEW c \in Backends PROVE OwnOf(c)' /\ ClearOf(c)' /\ BaseOf(c)'
    <3>1. OwnOf(c) /\ ClearOf(c) /\ BaseOf(c) BY DEF TableInv, OwnInv, ClearInv, BaseInv
    <3>2. OwnOf(c)' BY <1>0, <2>1, <3>1, SameOwn DEF vars
    <3>3. ClearOf(c)' BY <1>0, <2>1, <2>2, <3>1, SameClear DEF vars
    <3>4. BaseOf(c)' BY <1>0, <2>2, <3>1, SameBase DEF vars
    <3> QED BY <3>2, <3>3, <3>4
  <2>5. CopyInv'
    BY <1>0, <2>1, <2>2 DEF vars, TableInv, CopyInv, CopyOf, PutIn, StampedIn, ReapedIn
  <2> QED BY <1>t, <1>c, <2>3, <2>4, <2>5 DEF TableInv, OwnInv, ClearInv, BaseInv
<1>1. CASE Crash
  BY <1>t, <1>c, <1>1, ForgetKeeps DEF Crash
<1>2. ASSUME NEW b \in Backends, Begin(b) PROVE TableInv' BY <1>t, <1>c, <1>2, BeginKeeps
<1>3. ASSUME NEW b \in Backends, TakeSnapshot(b) PROVE TableInv'
  BY <1>t, <1>c, <1>3, TakeSnapshotKeeps
<1>4. ASSUME NEW b \in Backends, AssignXid(b) PROVE TableInv'
  BY <1>t, <1>c, <1>4, AssignXidKeeps
<1>5. ASSUME NEW b \in Backends, NEW keep \in BOOLEAN, NextCommand(b, keep) PROVE TableInv'
  BY <1>t, <1>c, <1>5, NextCommandKeeps
<1>6. ASSUME NEW b \in Backends,
             \/ \E n \in 1..MaxBatch : Insert(b, n)
             \/ InsertSpeculative(b)
             \/ \E r \in RowId : Delete(b, r) \/ Update(b, r)
      PROVE  TableInv'
  BY <1>t, <1>c, <1>6, StatementsKeep
<1>7. ASSUME NEW b \in Backends, SpeculationWon(b) PROVE TableInv'
  BY <1>t, <1>c, <1>7, SpeculationWonKeeps
<1>8. ASSUME NEW b \in Backends, SpeculationLost(b) PROVE TableInv'
  BY <1>t, <1>c, <1>8, SpeculationLostKeeps
<1>9. ASSUME NEW b \in Backends, Truncate(b) PROVE TableInv'
  BY <1>t, <1>c, <1>9, TruncateKeeps
<1>10. ASSUME NEW b \in Backends, VacuumStart(b) PROVE TableInv'
  BY <1>t, <1>c, <1>10, VacuumStartKeeps
<1>11. ASSUME NEW b \in Backends, VacuumDead(b) PROVE TableInv'
  BY <1>t, <1>c, <1>11, VacuumDeadKeeps
<1>12. ASSUME NEW b \in Backends, PreCommit(b) PROVE TableInv'
  BY <1>t, <1>c, <1>12, PreCommitKeeps
<1>13. ASSUME NEW b \in Backends, RecordCommit(b) PROVE TableInv'
  BY <1>t, <1>c, <1>13, RecordCommitKeeps
<1>14. ASSUME NEW b \in Backends, EndXact(b) \/ Abort(b) PROVE TableInv'
  <2>1. /\ Forget({b}) /\ UNCHANGED <<nextXid, clog, file>> /\ phase[b] # "idle"
        /\ phase[b] = "precommit" /\ xid[b] # 0 => FailureWindow
    BY <1>14 DEF EndXact, Abort
  <2> QED BY <1>t, <1>c, <2>1, ForgetKeeps
<1> QED BY <1>0, <1>1, <1>2, <1>3, <1>4, <1>5, <1>6, <1>7, <1>8, <1>9, <1>10, <1>11,
           <1>12, <1>13, <1>14 DEF Next

\* The invariant holds throughout.
LEMMA TableInvariant == Healing => (Spec => []TableInv)
<1> SUFFICES ASSUME Healing PROVE Spec => []TableInv OBVIOUS
<1>1. Init => TableInv BY TableInit
<1>2. TableInv /\ [Next]_vars => TableInv' BY TableStep
<1> QED BY <1>1, <1>2, PTL DEF Spec

\* A scan returns exactly the table its snapshot stands for and what its own
\* transaction did before, for any number of backends, commands and rows:
\* whatever others insert, delete, truncate, commit or abort meanwhile, and
\* with VACUUM running or - without VACUUM - with failures between SQLite's
\* COMMIT and the commit record.  (Both together break it, run vacuum_aborted;
\* so does the xid of such a failure when a crash hands it out again, run
\* xid_reuse.)
THEOREM ReadsCorrect ==
    (FailureWindow => ~Vacuums /\ ~XidReuse) => (Spec => []ReadsAsOfSnapshot)
<1>1. TableInv => ReadsAsOfSnapshot BY ReadsFromInv DEF TableInv
<1> QED BY <1>1, TableInvariant, PTL DEF Healing

\* vacuum_dead's comment holds as long as no transaction fails in the commit
\* window: every row its DELETE takes was deleted by a committed transaction.
THEOREM VacuumCorrect ==
    (FailureWindow => ~Vacuums /\ ~XidReuse) => (Spec => VacuumRemovesCommitted)
<1> SUFFICES ASSUME Healing PROVE Spec => VacuumRemovesCommitted BY DEF Healing
<1> DEFINE Good == \A b \in Backends : VacuumDead(b) =>
          \A r \in RowId : file.rows[r].xmin # 0 /\ local'[b].rows[r].xmin = 0
                           => file.rows[r].xmax \in clog
<1>1. TableInv /\ TableInv' => Good
  <2> SUFFICES ASSUME TableInv, NEW b \in Backends, VacuumDead(b), NEW r \in RowId,
                      file.rows[r].xmin # 0, local'[b].rows[r].xmin = 0
               PROVE  file.rows[r].xmax \in clog
    OBVIOUS
  <2>t. TypeOK BY DEF TableInv
  <2>1. phase[b] = "vacuum" /\ Read(b) = file BY DEF VacuumDead, Read
  <2>2. local'[b].rows = Reaped(file.rows, oldest[b])
    BY <2>1, <2>t DEF VacuumDead, SqliteWrite, TypeOK
  <2>3. file.rows[r].xmax # 0 /\ file.rows[r].xmax < oldest[b] BY <2>2 DEF Reaped
  <2>4. ~FailureWindow BY <2>1 DEF TableInv, LockInv, Healing
  <2>5. file.rows[r].xmax \in Nat /\ oldest[b] \in Nat /\ \A c \in Backends : xid[c] \in Nat
    <3>1. file.rows[r] \in Row BY <2>t, RowType
    <3> QED BY <3>1, <2>t DEF TypeOK, Row
  <2>6. \A c \in Backends : xid[c] # file.rows[r].xmax BY <2>3, <2>5 DEF TableInv, OldestInv
  <2> QED BY <2>3, <2>4, <2>6 DEF TableInv, StampInv
<1>2. Spec => []TableInv BY TableInvariant
<1>3. VacuumRemovesCommitted <=> [][Good]_vars BY DEF VacuumRemovesCommitted
<1> HIDE DEF Good
<1> QED BY <1>1, <1>2, <1>3, PTL

-----------------------------------------------------------------------------
(* HeapStore implements TransactionalTable. *)

\* A backend that empties the table is alone, so there is at most one.
Emptying(b) == did[b].clear /\ phase[b] \in {"precommit", "recorded"}

\* The promised table is the committed one, unless someone is emptying it.
LEMMA PromisedIs ==
    ASSUME TableInv
    PROVE  /\ (\A b \in Backends : ~Emptying(b)) => PromisedTable = Table
           /\ \A b \in Backends : Emptying(b) => PromisedTable = base[b]
<1> DEFINE E == {b \in Backends : did[b].clear /\ phase[b] \in {"precommit", "recorded"}}
<1>1. PromisedTable = IF E = {} THEN Table ELSE UNION {base[b] : b \in E}
  BY DEF PromisedTable
<1>2. ASSUME \A b \in Backends : ~Emptying(b) PROVE E = {} BY <1>2 DEF Emptying
<1>3. ASSUME NEW b \in Backends, Emptying(b) PROVE E = {b}
  <2>1. b \in E BY <1>3 DEF Emptying
  <2>2. \A c \in Backends : c # b => phase[c] = "idle" BY <1>3 DEF TableInv, LockInv, Emptying
  <2> QED BY <2>1, <2>2
<1> HIDE DEF E
<1>4. ASSUME NEW b \in Backends, Emptying(b) PROVE PromisedTable = base[b]
  <2>1. PromisedTable = UNION {base[c] : c \in {b}} BY <1>1, <1>3, <1>4
  <2>2. {base[c] : c \in {b}} = {base[b]} OBVIOUS
  <2> QED BY <2>1, <2>2
<1> QED BY <1>1, <1>2, <1>4

\* A step that moves neither the committed table nor who empties it.
LEMMA SamePromise ==
    ASSUME Table' = Table,
           \A b \in Backends : Emptying(b)' <=> Emptying(b),
           \A b \in Backends : Emptying(b) => base'[b] = base[b]
    PROVE  PromisedTable' = PromisedTable
<1> DEFINE E == {b \in Backends : did[b].clear /\ phase[b] \in {"precommit", "recorded"}}
<1>1. E' = E BY DEF Emptying
<1>2. \A b \in E : base'[b] = base[b] BY DEF Emptying
<1>3. PromisedTable = IF E = {} THEN Table ELSE UNION {base[b] : b \in E}
  BY DEF PromisedTable
<1>4. PromisedTable' = IF E' = {} THEN Table' ELSE UNION {base'[b] : b \in E'}
  BY DEF PromisedTable
<1> HIDE DEF E
<1>5. {base'[b] : b \in E} = {base[b] : b \in E} BY <1>2
<1> QED BY <1>1, <1>3, <1>4, <1>5

\* The committed table depends on the file and on who has ended.
LEMMA SameTable == ASSUME file' = file, Ended' = Ended PROVE Table' = Table
BY DEF Table, IdOf

\* What a transaction has done, version by version.
LEMMA WorkRows ==
    ASSUME TableInv, NEW b \in Backends, NEW r \in RowId, NEW x \in Xid, NEW k \in Cid
    PROVE  LET row == Read(b).rows[r]
           IN  /\ <<r, x, k>> \in WorkOf(b).del <=>
                     xid[b] # 0 /\ row.xmin = x /\ row.cmin = k /\ row.xmax = xid[b]
               /\ <<r, x, k>> \in WorkOf(b).ins <=>
                     x = xid[b] /\ row.xmin = x /\ row.cmin = k /\ row.xmax # xid[b]
<1> DEFINE i == <<r, x, k>>
           row == Read(b).rows[r]
           del == {d[1] : d \in did[b].del}
<1>t. TypeOK BY DEF TableInv
<1>1. row.cmax \in Cid BY <1>t, RowType DEF Row
<1>2. i \in did[b].ins <=> x = xid[b] /\ row.xmin = x /\ row.cmin = k
  BY DEF TableInv, OwnInv, OwnOf
<1>3. \A l \in Cid : <<i, l>> \in did[b].del <=>
         xid[b] # 0 /\ row.xmin = x /\ row.cmin = k /\ row.xmax = xid[b] /\ row.cmax = l
  BY DEF TableInv, OwnInv, OwnOf
<1>4. i \in del <=> \E l \in Cid : <<i, l>> \in did[b].del
  <2>1. did[b].del \subseteq Id \X Cid BY <1>t DEF TypeOK, Did
  <2>2. ASSUME i \in del PROVE \E l \in Cid : <<i, l>> \in did[b].del
    <3>1. PICK d \in did[b].del : d[1] = i BY <2>2
    <3>2. d = <<i, d[2]>> /\ d[2] \in Cid BY <2>1, <3>1
    <3> QED BY <3>1, <3>2
  <2>3. ASSUME NEW l \in Cid, <<i, l>> \in did[b].del PROVE i \in del
    <3>1. <<i, l>>[1] = i OBVIOUS
    <3> QED BY <2>3, <3>1
  <2> QED BY <2>2, <2>3
<1>5. WorkOf(b).del = del /\ WorkOf(b).ins = did[b].ins \ del BY DEF WorkOf
<1> HIDE DEF del, i, row
<1>6. x # 0 OBVIOUS
<1>7. i \in del <=> xid[b] # 0 /\ row.xmin = x /\ row.cmin = k /\ row.xmax = xid[b]
  BY <1>1, <1>3, <1>4
<1> QED BY <1>2, <1>5, <1>6, <1>7 DEF i, row

\* The work of a transaction has its type.
LEMMA WorkType ==
    ASSUME TypeOK, NEW b \in Backends
    PROVE  WorkOf(b) \in Abstract!Work /\ WorkOf(b).ins \subseteq Id /\ WorkOf(b).del \subseteq Id
<1>1. did[b].ins \subseteq Id /\ did[b].del \subseteq Id \X Cid /\ did[b].clear \in BOOLEAN
  BY DEF TypeOK, Did
<1>2. {d[1] : d \in did[b].del} \subseteq Id BY <1>1
<1> QED BY <1>1, <1>2 DEF WorkOf, Abstract!Work

\* The committed table is well typed after a step, too.
LEMMA TableTypeNext == TypeOK' => (Table \subseteq Id)'
<1>1. TypeOK => Table \subseteq Id BY TableType
<1> QED BY <1>1, PTL

\* When the transactions of C end, the table changes by exactly their work.
LEMMA CommitTable ==
    ASSUME TableInv, TypeOK', NEW C \in SUBSET Backends,
           \A b \in C : phase[b] = "recorded",
           \A b \in Backends : Emptying(b) => b \in C,
           file' = file, Ended' = Ended \cup {xid[b] : b \in C}
    PROVE  Table' = (IF \E b \in C : WorkOf(b).clear
                     THEN {} ELSE PromisedTable \ UNION {WorkOf(b).del : b \in C})
                    \cup UNION {WorkOf(b).ins : b \in C}
<1> DEFINE left == IF \E b \in C : WorkOf(b).clear
                   THEN {} ELSE PromisedTable \ UNION {WorkOf(b).del : b \in C}
           new == UNION {WorkOf(b).ins : b \in C}
<1>t. TypeOK BY DEF TableInv
<1>w. \A b \in Backends : WorkOf(b).clear = did[b].clear BY DEF WorkOf
<1>r. \A b \in C : Read(b) = file /\ xid[b] # 0 /\ xid[b] \notin Ended
  <2>1. ASSUME NEW b \in C PROVE ~in_txn[b] /\ xid[b] \in clog BY DEF TableInv, LockInv
  <2> QED BY <2>1, <1>t DEF Read, TypeOK, Ended, Running
<1>z. 0 \notin Ended BY <1>t DEF Ended, TypeOK
<1>o. \A b \in C, r \in RowId : file.rows[r].xmin = xid[b] => file.rows[r].xmax \in {0, xid[b]}
  BY <1>r DEF TableInv, OwnInv, OwnOf
<1>1. Table' \subseteq Id BY TableTypeNext
<1>2. left \cup new \subseteq Id
  <2>1. PromisedTable \subseteq Id
    <3>1. Table \subseteq Id BY <1>t, TableType
    <3>2. \A b \in Backends : base[b] \subseteq Id BY <1>t DEF TypeOK
    <3> QED BY <3>1, <3>2 DEF PromisedTable
  <2>2. \A b \in C : WorkOf(b).ins \subseteq Id BY <1>t, WorkType
  <2> QED BY <2>1, <2>2
<1>3. ASSUME NEW r \in RowId, NEW x \in Xid, NEW k \in Cid
      PROVE  <<r, x, k>> \in Table' <=> <<r, x, k>> \in left \cup new
  <2> DEFINE i == <<r, x, k>>
             row == file.rows[r]
  <2>1. i \in Table' <=>
          /\ row.xmin = x /\ row.cmin = k
          /\ x \in Ended \/ \E b \in C : x = xid[b]
          /\ row.xmax \notin Ended /\ \A b \in C : row.xmax # xid[b]
    <3>1. i \in Table' <=> Listed(file.rows, Ended, r, x, k)'
      <4>1. ASSUME Listed(file.rows, Ended, r, x, k)' PROVE i \in Table'
        BY <4>1 DEF Listed, Table, IdOf
      <4>2. ASSUME i \in Table' PROVE Listed(file.rows, Ended, r, x, k)'
        BY <4>2 DEF Listed, Table, IdOf
      <4> QED BY <4>1, <4>2
    <3> QED BY <3>1 DEF Listed
  <2>2. \A b \in C :
          /\ i \in WorkOf(b).del <=> row.xmin = x /\ row.cmin = k /\ row.xmax = xid[b]
          /\ i \in WorkOf(b).ins <=>
                x = xid[b] /\ row.xmin = x /\ row.cmin = k /\ row.xmax # xid[b]
    BY <1>r, WorkRows
  <2>3. i \in new <=> \E b \in C :
                x = xid[b] /\ row.xmin = x /\ row.cmin = k /\ row.xmax # xid[b]
    BY <2>2
  <2>4. CASE \E b \in C : did[b].clear
    <3>1. PICK b \in C : did[b].clear BY <2>4
    <3>2. C = {b} BY <3>1 DEF TableInv, LockInv
    <3>3. left = {} BY <1>w, <3>1
    <3>4. row.xmin \in {0, xid[b]} BY <1>r, <3>1 DEF TableInv, ClearInv, ClearOf
    <3>5. x # 0 OBVIOUS
    <3>6. row.xmin = xid[b] => row.xmax \in {0, xid[b]} BY <1>o
    <3> HIDE DEF left, new, row, i
    <3> QED BY <1>r, <1>z, <2>1, <2>3, <3>2, <3>3, <3>4, <3>5, <3>6 DEF i
  <2>5. CASE \A b \in C : ~did[b].clear
    <3>1. \A b \in Backends : ~Emptying(b) BY <2>5 DEF Emptying
    <3>2. PromisedTable = Table BY <3>1, PromisedIs
    <3>3. i \in left <=>
            /\ row.xmin = x /\ row.cmin = k /\ x \in Ended /\ row.xmax \notin Ended
            /\ \A b \in C : row.xmax # xid[b]
      <4>1. left = Table \ UNION {WorkOf(b).del : b \in C} BY <1>w, <2>5, <3>2
      <4>2. i \in Table <=> row.xmin = x /\ row.cmin = k /\ x \in Ended /\ row.xmax \notin Ended
        BY <1>t, TableRow DEF Listed
      <4> HIDE DEF left, row, i
      <4>3. i \in left <=> i \in Table /\ \A b \in C : i \notin WorkOf(b).del BY <4>1
      <4> QED BY <2>2, <4>2, <4>3
    <3>4. \A b \in C : row.xmin = xid[b] => row.xmax \in {0, xid[b]} BY <1>o
    <3>5. \A b, c \in C : xid[b] = xid[c] => b = c
      BY <1>r DEF TableInv, CommitOrderInv, XidsIssued, XidsStored
    <3> HIDE DEF left, new, row, i
    <3>6. ASSUME NEW b \in C, x = xid[b], row.xmin = x
          PROVE  /\ row.xmax # xid[b] => row.xmax \notin Ended /\ \A c \in C : row.xmax # xid[c]
      BY <1>z, <1>r, <3>4, <3>6
    <3> QED BY <2>1, <2>3, <3>3, <3>6 DEF i
  <2> QED BY <2>4, <2>5
<1> HIDE DEF left, new
<1>4. Table' = left \cup new BY <1>1, <1>2, <1>3 DEF Id
<1> QED BY <1>4 DEF left, new

\* The abstract state.
AWork == [b \in Backends |-> WorkOf(b)]
ADecided == [b \in Backends |-> phase[b] = "recorded"]
absVars == <<PromisedTable, AWork, ADecided>>

\* A failure after SQLite's COMMIT must find no VACUUM and no TRUNCATE: both
\* remove rows for good.  The xid it leaves in the file must stay aborted.
Recoverable == FailureWindow => ~Vacuums /\ ~Truncates /\ ~XidReuse

\* The work and the decision of a backend depend on did and phase.
LEMMA SameWork ==
    ASSUME NEW b \in Backends, did'[b] = did[b] PROVE WorkOf(b)' = WorkOf(b)
BY DEF WorkOf

\* An invisible step.
LEMMA Stutters ==
    ASSUME PromisedTable' = PromisedTable,
           \A b \in Backends : WorkOf(b)' = WorkOf(b),
           \A b \in Backends : phase'[b] = "recorded" <=> phase[b] = "recorded"
    PROVE  UNCHANGED absVars
<1>1. AWork' = AWork BY DEF AWork
<1>2. ADecided' = ADecided BY DEF ADecided
<1> QED BY <1>1, <1>2 DEF absVars

\* A step that leaves the file and every report alone is invisible.
LEMMA QuietStep ==
    ASSUME UNCHANGED <<file, did>>, Ended' = Ended,
           \A b \in Backends : phase'[b] \in {"precommit", "recorded"} => phase'[b] = phase[b],
           \A b \in Backends : phase[b] \in {"precommit", "recorded"} =>
               phase'[b] = phase[b] /\ base'[b] = base[b]
    PROVE  UNCHANGED absVars
<1>1. Table' = Table BY SameTable
<1>2. PromisedTable' = PromisedTable BY <1>1, SamePromise DEF Emptying
<1>3. \A b \in Backends : WorkOf(b)' = WorkOf(b) BY SameWork
<1>4. \A b \in Backends : phase'[b] = "recorded" <=> phase[b] = "recorded" OBVIOUS
<1> QED BY <1>2, <1>3, <1>4, Stutters

\* A statement is the abstract Do.
LEMMA DoStep ==
    ASSUME TypeOK', NEW b \in Backends, phase[b] \notin {"precommit", "recorded"},
           UNCHANGED <<clog, xid, phase, file>>,
           \A a \in Backends : a # b => did'[a] = did[a] /\ base'[a] = base[a]
    PROVE  Abstract!Do(b)
<1>1. Table' = Table BY SameTable DEF Ended, Running
<1>2. PromisedTable' = PromisedTable BY <1>1, SamePromise DEF Emptying
<1>3. \A a \in Backends : a # b => WorkOf(a)' = WorkOf(a) BY SameWork
<1>4. WorkOf(b)' \in Abstract!Work
  <2>1. did'[b].ins \subseteq Id /\ did'[b].del \subseteq Id \X Cid /\ did'[b].clear \in BOOLEAN
    BY DEF TypeOK, Did
  <2>2. {d[1] : d \in did'[b].del} \subseteq Id BY <2>1
  <2> QED BY <2>1, <2>2 DEF WorkOf, Abstract!Work
<1>5. AWork' = [AWork EXCEPT ![b] = AWork'[b]] BY <1>3 DEF AWork
<1>6. AWork'[b] \in Abstract!Work BY <1>4 DEF AWork
<1>7. ADecided' = ADecided /\ ~ADecided[b] BY DEF ADecided
<1> QED BY <1>2, <1>5, <1>6, <1>7 DEF Abstract!Do, AWork, ADecided

\* The end of transactions, as the abstract specification sees it.
LEMMA ForgottenWork ==
    ASSUME NEW B \in SUBSET Backends, Forget(B)
    PROVE  /\ \A b \in B : WorkOf(b)' = Abstract!NoWork /\ phase'[b] = "idle"
           /\ \A b \in Backends \ B : WorkOf(b)' = WorkOf(b) /\ phase'[b] = phase[b]
<1>1. /\ \A b \in B : did'[b] = NoDid /\ phase'[b] = "idle"
      /\ \A b \in Backends \ B : did'[b] = did[b] /\ phase'[b] = phase[b]
  BY DEF Forget
<1>2. ASSUME NEW b \in B PROVE WorkOf(b)' = Abstract!NoWork
  <2>1. did'[b].ins = {} /\ did'[b].del = {} /\ did'[b].clear = FALSE BY <1>1 DEF NoDid
  <2>2. {d[1] : d \in did'[b].del} = {} BY <2>1
  <2> QED BY <2>1, <2>2 DEF WorkOf, Abstract!NoWork
<1> QED BY <1>1, <1>2, SameWork

\* PreCommit is invisible: what it publishes nobody may see yet.
LEMMA PreCommitHidden ==
    ASSUME TableInv, TableInv', Healing, NEW b \in Backends, PreCommit(b)
    PROVE  UNCHANGED absVars
<1>t. TypeOK BY DEF TableInv
<1>u. /\ UNCHANGED <<clog, xid, did, base>> /\ file' = Read(b)
      /\ phase[b] \in {"open", "vacuum"}
  BY DEF PreCommit
<1>p. phase'[b] = "precommit" /\ \A c \in Backends : c # b => phase'[c] = phase[c]
  BY <1>t DEF PreCommit, TypeOK
<1>e. \A c \in Backends : c # b => ~did[c].clear BY <1>u DEF TableInv, LockInv
<1>s. Ended' = Ended BY <1>u DEF Ended, Running
<1>0. PromisedTable = Table
  <2>1. \A c \in Backends : ~Emptying(c) BY <1>u, <1>e DEF Emptying
  <2> QED BY <2>1, PromisedIs
<1>1. \A c \in Backends : WorkOf(c)' = WorkOf(c) BY <1>u, SameWork
<1>2. \A c \in Backends : phase'[c] = "recorded" <=> phase[c] = "recorded" BY <1>u, <1>p
<1>3. CASE did[b].clear
  <2>1. phase[b] = "open" BY <1>u, <1>3 DEF TableInv, LockInv, CommitOrderInv, PhaseDiscipline
  <2>2. base[b] = Table
    <3>1. base[b] \subseteq Id /\ Table \subseteq Id BY <1>t, TableType DEF TypeOK
    <3>2. \A r \in RowId, x \in Xid, k \in Cid :
             <<r, x, k>> \in base[b] <=> Listed(file.rows, Ended, r, x, k)
      BY <1>3, <2>1 DEF TableInv, ClearInv, ClearOf
    <3>3. \A r \in RowId, x \in Xid, k \in Cid : <<r, x, k>> \in base[b] <=> <<r, x, k>> \in Table
      BY <1>t, <3>2, TableRow
    <3> QED BY <3>1, <3>3 DEF Id
  <2>3. PromisedTable' = base[b]
    <3> DEFINE E == {c \in Backends : did[c].clear /\ phase[c] \in {"precommit", "recorded"}}
    <3>1. E' = {b} BY <1>u, <1>p, <1>e, <1>3
    <3>2. PromisedTable' = IF E' = {} THEN Table' ELSE UNION {base'[c] : c \in E'}
      BY DEF PromisedTable
    <3> HIDE DEF E
    <3>3. {base'[c] : c \in {b}} = {base[b]} BY <1>u
    <3> QED BY <3>1, <3>2, <3>3
  <2> QED BY <1>0, <1>1, <1>2, <2>2, <2>3, Stutters
<1>4. CASE ~did[b].clear
  <2>1. Table' = Table
    <3>1. Table' \subseteq Id /\ Table \subseteq Id BY <1>t, TableType, TableTypeNext DEF TableInv
    <3>2. xid[b] \notin Ended /\ 0 \notin Ended
      BY <1>t, <1>u DEF TableInv, CommitOrderInv, PhaseDiscipline, Ended, TypeOK
    <3>3. ASSUME NEW r \in RowId, NEW x \in Xid, NEW k \in Cid
          PROVE  <<r, x, k>> \in Table' <=> <<r, x, k>> \in Table
      <4>1. <<r, x, k>> \in Table <=> Listed(file.rows, Ended, r, x, k) BY <1>t, TableRow
      <4>2. Listed(Read(b).rows, Ended, r, x, k) <=> Listed(file.rows, Ended, r, x, k)
        BY <1>4, <3>2, CommitKeepsListed
      <4>3. <<r, x, k>> \in Table' <=> Listed(Read(b).rows, Ended, r, x, k)
        <5>1. ASSUME Listed(Read(b).rows, Ended, r, x, k) PROVE <<r, x, k>> \in Table'
          BY <1>u, <1>s, <5>1 DEF Listed, Table, IdOf
        <5>2. ASSUME <<r, x, k>> \in Table' PROVE Listed(Read(b).rows, Ended, r, x, k)
          BY <1>u, <1>s, <5>2 DEF Listed, Table, IdOf
        <5> QED BY <5>1, <5>2
      <4> QED BY <4>1, <4>2, <4>3
    <3> QED BY <3>1, <3>3 DEF Id
  <2>2. PromisedTable' = PromisedTable
    <3>1. \A c \in Backends : ~Emptying(c) /\ ~Emptying(c)' BY <1>u, <1>e, <1>4 DEF Emptying
    <3> QED BY <2>1, <3>1, SamePromise
  <2> QED BY <1>1, <1>2, <2>2, Stutters
<1> QED BY <1>3, <1>4

\* RecordCommit is the abstract Decide.
LEMMA DecideStep ==
    ASSUME TableInv, NEW b \in Backends, RecordCommit(b) PROVE Abstract!Decide(b)
<1>t. TypeOK BY DEF TableInv
<1>u. /\ UNCHANGED <<xid, did, base, file>> /\ phase[b] = "precommit"
      /\ clog' = clog \cup {xid[b]} /\ xid[b] # 0
  BY DEF RecordCommit
<1>p. phase'[b] = "recorded" /\ \A c \in Backends : c # b => phase'[c] = phase[c]
  BY <1>t DEF RecordCommit, TypeOK
<1>1. Ended' = Ended
  <2>1. xid[b] \in Running BY <1>u DEF Running
  <2> QED BY <1>u, <2>1 DEF Ended, Running
<1>2. Table' = Table BY <1>1, <1>u, SameTable
<1>3. PromisedTable' = PromisedTable
  <2>1. \A c \in Backends : Emptying(c)' <=> Emptying(c) BY <1>u, <1>p DEF Emptying
  <2> QED BY <1>2, <1>u, <2>1, SamePromise
<1>4. AWork' = AWork BY <1>u, SameWork DEF AWork
<1>5. ~ADecided[b] /\ ADecided' = [ADecided EXCEPT ![b] = TRUE] BY <1>u, <1>p DEF ADecided
<1> QED BY <1>3, <1>4, <1>5 DEF Abstract!Decide, AWork, ADecided

\* The end of a transaction with a commit record is the abstract Commit; one
\* that had no xid has done nothing.
LEMMA EndXactStep ==
    ASSUME TableInv, TableInv', NEW b \in Backends, EndXact(b)
    PROVE  Abstract!Commit(b) \/ UNCHANGED absVars
<1>t. TypeOK BY DEF TableInv
<1>u. UNCHANGED <<clog, file>> /\ Forget({b}) BY DEF EndXact
<1>f. /\ WorkOf(b)' = Abstract!NoWork /\ phase'[b] = "idle"
      /\ \A c \in Backends : c # b => WorkOf(c)' = WorkOf(c) /\ phase'[c] = phase[c]
  BY <1>u, ForgottenWork
<1>x. /\ xid'[b] = 0 /\ did'[b] = NoDid
      /\ \A c \in Backends : c # b => xid'[c] = xid[c] /\ did'[c] = did[c] /\ base'[c] = base[c]
  BY <1>u DEF Forget
<1>e. \A c \in Backends : c # b => ~did[c].clear BY DEF TableInv, LockInv, EndXact
<1>n. \A c \in Backends : ~Emptying(c)' BY <1>e, <1>f, <1>x DEF Emptying
<1>p. PromisedTable' = Table'
  <2> DEFINE E == {c \in Backends : did[c].clear /\ phase[c] \in {"precommit", "recorded"}}
  <2>2. E' = {} BY <1>n DEF Emptying
  <2>3. PromisedTable' = IF E' = {} THEN Table' ELSE UNION {base'[c] : c \in E'}
    BY DEF PromisedTable
  <2> QED BY <2>2, <2>3
<1>1. CASE phase[b] = "recorded"
  <2>1. xid[b] \in clog /\ xid[b] # 0 BY <1>1, <1>t DEF TableInv, LockInv, TypeOK
  <2>2. Ended' = Ended \cup {xid[c] : c \in {b}}
    <3>1. \A c \in Backends : c # b => xid[c] # xid[b]
      BY <2>1 DEF TableInv, CommitOrderInv, XidsIssued, XidsStored
    <3>2. Running' = Running \ {xid[b]} BY <1>x, <3>1, <2>1 DEF Running
    <3> QED BY <1>u, <2>1, <3>2 DEF Ended
  <2>3. Table' = (IF \E c \in {b} : WorkOf(c).clear
                  THEN {} ELSE PromisedTable \ UNION {WorkOf(c).del : c \in {b}})
                 \cup UNION {WorkOf(c).ins : c \in {b}}
    <3>1. \A c \in Backends : Emptying(c) => c \in {b} BY <1>e DEF Emptying
    <3>2. \A c \in {b} : phase[c] = "recorded" BY <1>1
    <3>3. TypeOK' BY DEF TableInv
    <3>4. {b} \in SUBSET Backends OBVIOUS
    <3> QED BY <1>u, <2>2, <3>1, <3>2, <3>3, <3>4, CommitTable
  <2>4. \A c \in {b} : AWork[c] = WorkOf(c) BY DEF AWork
  <2>5. AWork' = [AWork EXCEPT ![b] = Abstract!NoWork] BY <1>f DEF AWork
  <2>6. ADecided[b] /\ ADecided' = [ADecided EXCEPT ![b] = FALSE] BY <1>1, <1>f DEF ADecided
  <2>7. PromisedTable' = (IF \E c \in {b} : AWork[c].clear
                  THEN {} ELSE PromisedTable \ UNION {AWork[c].del : c \in {b}})
                 \cup UNION {AWork[c].ins : c \in {b}}
    <3>1. {AWork[c].del : c \in {b}} = {WorkOf(c).del : c \in {b}}
          /\ {AWork[c].ins : c \in {b}} = {WorkOf(c).ins : c \in {b}}
      BY <2>4
    <3> QED BY <1>p, <2>3, <2>4, <3>1
  <2>8. Abstract!Commit(b)
    BY <2>5, <2>6, <2>7 DEF Abstract!Commit, Abstract!Apply, AWork, ADecided
  <2> QED BY <2>8
<1>2. CASE phase[b] = "precommit" /\ xid[b] = 0
  <2>1. ~did[b].clear BY <1>2 DEF TableInv, LockInv
  <2>2. Ended' = Ended
    <3>1. Running' = Running BY <1>x, <1>2 DEF Running
    <3> QED BY <1>u, <3>1 DEF Ended
  <2>3. Table' = Table BY <1>u, <2>2, SameTable
  <2>4. PromisedTable = Table
    <3>1. \A c \in Backends : ~Emptying(c) BY <1>e, <2>1 DEF Emptying
    <3> QED BY <3>1, PromisedIs
  <2>5. WorkOf(b) = Abstract!NoWork
    <3>1. did[b].ins \subseteq Id /\ did[b].del \subseteq Id \X Cid /\ did[b].clear \in BOOLEAN
      BY <1>t DEF TypeOK, Did
    <3>2. /\ \A r \in RowId, x \in Xid, k \in Cid : <<r, x, k>> \notin did[b].ins
          /\ \A r \in RowId, x \in Xid, k \in Cid, l \in Cid : <<<<r, x, k>>, l>> \notin did[b].del
      BY <1>2 DEF TableInv, OwnInv, OwnOf
    <3>3. did[b].ins = {} BY <3>1, <3>2 DEF Id
    <3>4. did[b].del = {}
      <4> SUFFICES ASSUME NEW d \in did[b].del PROVE FALSE OBVIOUS
      <4>1. d[1] \in Id /\ d[2] \in Cid /\ d = <<d[1], d[2]>> BY <3>1
      <4>2. PICK r \in RowId, x \in Xid, k \in Cid : d[1] = <<r, x, k>> BY <4>1 DEF Id
      <4> QED BY <3>2, <4>1, <4>2
    <3>5. {d[1] : d \in did[b].del} = {} BY <3>4
    <3>6. did[b].clear = FALSE BY <2>1, <3>1
    <3> QED BY <3>3, <3>5, <3>6 DEF WorkOf, Abstract!NoWork
  <2>6. \A c \in Backends : WorkOf(c)' = WorkOf(c) BY <1>f, <2>5
  <2>7. \A c \in Backends : phase'[c] = "recorded" <=> phase[c] = "recorded" BY <1>f, <1>2
  <2> QED BY <1>p, <2>3, <2>4, <2>6, <2>7, Stutters
<1> QED BY <1>1, <1>2 DEF EndXact

\* A rollback, before or after SQLite's COMMIT, is the abstract Fail.
LEMMA FailStep ==
    ASSUME TableInv, Recoverable, NEW b \in Backends, Abort(b) PROVE Abstract!Fail(b)
<1>t. TypeOK BY DEF TableInv
<1>u. /\ UNCHANGED <<clog, file>> /\ Forget({b})
      /\ phase[b] \in {"open", "vacuum", "precommit"}
      /\ phase[b] = "precommit" => FailureWindow
  BY DEF Abort
<1>f. /\ WorkOf(b)' = Abstract!NoWork /\ phase'[b] = "idle"
      /\ \A c \in Backends : c # b => WorkOf(c)' = WorkOf(c) /\ phase'[c] = phase[c]
  BY <1>u, ForgottenWork
<1>x. /\ xid'[b] = 0 /\ did'[b] = NoDid
      /\ \A c \in Backends : c # b => xid'[c] = xid[c] /\ did'[c] = did[c] /\ base'[c] = base[c]
  BY <1>u DEF Forget
<1>e. \A c \in Backends : ~Emptying(c)
  BY <1>u DEF Emptying, TableInv, LockInv, Recoverable
<1>n. \A c \in Backends : ~Emptying(c)'
  <2>1. \A c \in Backends : c # b => ~did[c].clear BY <1>u DEF TableInv, LockInv
  <2> QED BY <1>f, <1>x, <2>1 DEF Emptying
<1>1. Ended' = Ended
  <2>1. xid[b] \notin clog BY <1>u DEF TableInv, CommitOrderInv, PhaseDiscipline
  <2>2. 0 \notin clog BY <1>t DEF TypeOK
  <2>3. \A x \in clog : x \in Running' <=> x \in Running BY <1>x, <2>1, <2>2 DEF Running
  <2> QED BY <1>u, <2>3 DEF Ended
<1>2. PromisedTable' = PromisedTable
  <2>1. Table' = Table BY <1>u, <1>1, SameTable
  <2> QED BY <1>e, <1>n, <2>1, SamePromise
<1>3. AWork' = [AWork EXCEPT ![b] = Abstract!NoWork] BY <1>f DEF AWork
<1>4. ~ADecided[b] /\ ADecided' = ADecided BY <1>u, <1>f DEF ADecided
<1> QED BY <1>2, <1>3, <1>4 DEF Abstract!Fail, AWork, ADecided

\* A crash is the abstract Crash: the recorded transactions, and only they, are
\* in the file afterwards.
LEMMA CrashStep ==
    ASSUME TableInv, TableInv', Recoverable, Crash PROVE Abstract!Crash
<1> DEFINE C == {c \in Backends : phase[c] = "recorded"}
<1>t. TypeOK BY DEF TableInv
<1>u. /\ UNCHANGED <<clog, file>> /\ Forget(Backends)
      /\ FailureWindow \/ \A b \in Backends : phase[b] = "precommit" => xid[b] = 0
  BY DEF Crash
<1>f. \A c \in Backends : WorkOf(c)' = Abstract!NoWork /\ phase'[c] = "idle"
  BY <1>u, ForgottenWork
<1>x. \A c \in Backends : xid'[c] = 0 BY <1>u DEF Forget
<1>p. PromisedTable' = Table'
  <2> DEFINE E == {c \in Backends : did[c].clear /\ phase[c] \in {"precommit", "recorded"}}
  <2>1. E' = {} BY <1>f
  <2>2. PromisedTable' = IF E' = {} THEN Table' ELSE UNION {base'[c] : c \in E'}
    BY DEF PromisedTable
  <2> QED BY <2>1, <2>2
<1>1. \A c \in Backends : Emptying(c) => c \in C
  BY <1>u DEF Emptying, TableInv, LockInv, Recoverable
<1>2. Ended' = Ended \cup {xid[c] : c \in C}
  <2>1. Running' = {} BY <1>x DEF Running
  <2>2. Ended' = clog BY <1>u, <2>1 DEF Ended
  <2>3. \A c \in Backends : xid[c] \in clog <=> phase[c] = "recorded"
    BY DEF TableInv, LockInv, CommitOrderInv, PhaseDiscipline
  <2> QED BY <2>2, <2>3 DEF Ended, Running
<1>3. Table' = (IF \E c \in C : WorkOf(c).clear
                THEN {} ELSE PromisedTable \ UNION {WorkOf(c).del : c \in C})
               \cup UNION {WorkOf(c).ins : c \in C}
  <2>1. TypeOK' BY DEF TableInv
  <2>2. C \in SUBSET Backends /\ \A c \in C : phase[c] = "recorded" OBVIOUS
  <2> HIDE DEF C
  <2> QED BY <1>u, <1>1, <1>2, <2>1, <2>2, CommitTable
<1>4. C = {c \in Backends : ADecided[c]} BY DEF ADecided
<1>5. \A c \in C : AWork[c] = WorkOf(c) BY DEF AWork
<1> HIDE DEF C
<1>6. PromisedTable' = (IF \E c \in C : AWork[c].clear
                THEN {} ELSE PromisedTable \ UNION {AWork[c].del : c \in C})
               \cup UNION {AWork[c].ins : c \in C}
  <2>1. {AWork[c].del : c \in C} = {WorkOf(c).del : c \in C}
        /\ {AWork[c].ins : c \in C} = {WorkOf(c).ins : c \in C}
    BY <1>5
  <2> QED BY <1>p, <1>3, <1>5, <2>1
<1>7. /\ AWork' = [c \in Backends |-> Abstract!NoWork]
      /\ ADecided' = [c \in Backends |-> FALSE]
  BY <1>f DEF AWork, ADecided
<1> QED BY <1>4, <1>6, <1>7 DEF Abstract!Crash, Abstract!Apply, AWork, ADecided

\* Every step of HeapStore is a step of TransactionalTable, or invisible.
LEMMA ImplementsStep ==
    ASSUME TableInv, TableInv', Recoverable, [Next]_vars
    PROVE  Abstract!Next \/ UNCHANGED absVars
<1>t. TypeOK /\ TypeOK' BY DEF TableInv
<1>h. Healing BY DEF Healing, Recoverable
<1>0. CASE UNCHANGED vars
  BY <1>0, QuietStep DEF vars, Ended, Running
<1>1. CASE Crash BY <1>1, CrashStep DEF Abstract!Next
<1>2. ASSUME NEW b \in Backends, Begin(b) \/ VacuumStart(b) PROVE UNCHANGED absVars
  <2>1. UNCHANGED <<file, did, base, clog, xid>> /\ phase[b] = "idle" BY <1>2 DEF Begin, VacuumStart
  <2>2. /\ phase'[b] \in {"open", "vacuum"}
        /\ \A c \in Backends : c # b => phase'[c] = phase[c]
    BY <1>t, <1>2 DEF Begin, VacuumStart, TypeOK
  <2>3. \A c \in Backends :
           /\ phase'[c] \in {"precommit", "recorded"} => phase'[c] = phase[c]
           /\ phase[c] \in {"precommit", "recorded"} => phase'[c] = phase[c] /\ base'[c] = base[c]
    BY <2>1, <2>2
  <2>4. Ended' = Ended BY <2>1 DEF Ended, Running
  <2> QED BY <2>1, <2>3, <2>4, QuietStep
<1>3. ASSUME NEW b \in Backends, TakeSnapshot(b) PROVE UNCHANGED absVars
  <2>1. UNCHANGED <<file, did, phase, clog, xid>> /\ phase[b] = "open" BY <1>3 DEF TakeSnapshot
  <2>2. \A c \in Backends : c # b => base'[c] = base[c] BY <1>t, <1>3 DEF TakeSnapshot, TypeOK
  <2>3. Ended' = Ended BY <2>1 DEF Ended, Running
  <2> QED BY <2>1, <2>2, <2>3, QuietStep
<1>4. ASSUME NEW b \in Backends, AssignXid(b) PROVE UNCHANGED absVars
  <2>1. UNCHANGED <<file, did, phase, clog, base>> /\ xid[b] = 0
        /\ xid' = [xid EXCEPT ![b] = nextXid]
    BY <1>4 DEF AssignXid
  <2>2. nextXid \notin clog /\ 0 \notin clog
    BY <1>t DEF TableInv, CommitOrderInv, XidsIssued, XidsStored, TypeOK
  <2>3. xid'[b] = nextXid /\ \A c \in Backends : c # b => xid'[c] = xid[c]
    BY <1>t, <2>1 DEF TypeOK
  <2>4. \A x \in clog : x \in Running' <=> x \in Running BY <2>1, <2>2, <2>3 DEF Running
  <2>5. Ended' = Ended BY <2>1, <2>4 DEF Ended
  <2> QED BY <2>1, <2>5, QuietStep
<1>5. ASSUME NEW b \in Backends,
             SpeculationWon(b) \/ VacuumDead(b) \/ \E keep \in BOOLEAN : NextCommand(b, keep)
      PROVE  UNCHANGED absVars
  <2>1. UNCHANGED <<file, did, phase, clog, xid, base>>
    BY <1>5 DEF SpeculationWon, VacuumDead, NextCommand, writeUnchanged, SqliteWrite
  <2>2. Ended' = Ended BY <2>1 DEF Ended, Running
  <2> QED BY <2>1, <2>2, QuietStep
<1>6. ASSUME NEW b \in Backends,
             \/ \E n \in 1..MaxBatch : Insert(b, n)
             \/ InsertSpeculative(b) \/ SpeculationLost(b) \/ Truncate(b)
             \/ \E r \in RowId : Delete(b, r) \/ Update(b, r)
      PROVE  Abstract!Do(b)
  <2>1. phase[b] = "open"
    BY <1>6 DEF Insert, InsertSpeculative, SpeculationLost, Truncate, Delete, Update, Writing,
                TableInv, CommitOrderInv, PhaseDiscipline
  <2>2. UNCHANGED <<clog, xid, phase, file>>
    BY <1>6 DEF Insert, InsertSpeculative, SpeculationLost, Truncate, Delete, Update,
                writeUnchanged, SqliteWrite
  <2>3. \A a \in Backends : a # b => did'[a] = did[a] /\ base'[a] = base[a]
    <3>1. CASE Truncate(b) BY <1>t, <3>1 DEF Truncate, TypeOK
    <3>2. CASE SpeculationLost(b) BY <1>t, <3>2 DEF SpeculationLost, TypeOK, writeUnchanged
    <3>3. CASE ~Truncate(b) /\ ~SpeculationLost(b)
      BY <1>t, <1>6, <3>3 DEF Insert, InsertSpeculative, Delete, Update, Report, TypeOK,
                              writeUnchanged
    <3> QED BY <3>1, <3>2, <3>3
  <2> QED BY <1>t, <2>1, <2>2, <2>3, DoStep
<1>7. ASSUME NEW b \in Backends, PreCommit(b) PROVE UNCHANGED absVars
  BY <1>h, <1>7, PreCommitHidden
<1>8. ASSUME NEW b \in Backends, RecordCommit(b) PROVE Abstract!Decide(b) BY <1>8, DecideStep
<1>9. ASSUME NEW b \in Backends, EndXact(b) PROVE Abstract!Commit(b) \/ UNCHANGED absVars
  BY <1>9, EndXactStep
<1>10. ASSUME NEW b \in Backends, Abort(b) PROVE Abstract!Fail(b) BY <1>10, FailStep
<1> QED BY <1>0, <1>1, <1>2, <1>3, <1>4, <1>5, <1>6, <1>7, <1>8, <1>9, <1>10
        DEF Next, Abstract!Next

\* HeapStore implements TransactionalTable, for any number of backends, xids,
\* rows and commands: versions appear and disappear only when a transaction
\* commits, exactly as its statements were told, and what has a commit record
\* is never lost - with crashes that lose xids, aborts and rollbacks anywhere,
\* VACUUM and TRUNCATE.  Failures between SQLite's COMMIT and the commit record
\* are covered too if there is neither VACUUM nor TRUNCATE and no crash hands
\* out again the xid of such a failure: in each of these three cases the table
\* does change by what no transaction has committed.
THEOREM TableRefinement ==
    (FailureWindow => ~Vacuums /\ ~Truncates /\ ~XidReuse) => (Spec => ImplementsTable)
<1> SUFFICES ASSUME Recoverable PROVE Spec => ImplementsTable BY DEF Recoverable
<1>h. Healing BY DEF Healing, Recoverable
<1>1. Init => Abstract!Init
  <2> SUFFICES ASSUME Init PROVE Abstract!Init OBVIOUS
  <2>1. TableInv BY TableInit
  <2>2. \A b \in Backends : ~Emptying(b) BY DEF Init, Emptying
  <2>3. Table = {} BY DEF Init, Table, Ended
  <2>4. PromisedTable = {} BY <2>1, <2>2, <2>3, PromisedIs
  <2>5. \A b \in Backends : WorkOf(b) = Abstract!NoWork
    <3>1. \A b \in Backends : did[b].ins = {} /\ did[b].del = {} /\ did[b].clear = FALSE
      BY DEF Init, NoDid
    <3>2. {d[1] : d \in {}} = {} OBVIOUS
    <3> QED BY <3>1, <3>2 DEF WorkOf, Abstract!NoWork
  <2> QED BY <2>4, <2>5 DEF Abstract!Init, Init
<1>2. TableInv /\ TableInv' /\ [Next]_vars => [Abstract!Next]_absVars BY ImplementsStep
<1>3. Spec => []TableInv BY <1>h, TableInvariant
<1>4. ImplementsTable <=> Abstract!Init /\ [][Abstract!Next]_absVars
  BY DEF ImplementsTable, Abstract!Spec, absVars, AWork, ADecided
<1> QED BY <1>1, <1>2, <1>3, <1>4, PTL DEF Spec
=============================================================================
