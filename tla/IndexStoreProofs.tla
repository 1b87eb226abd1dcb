--------------------------- MODULE IndexStoreProofs ---------------------------
(***************************************************************************)
(* An index misses no row that anyone can see (IndexFindsAll), for any set *)
(* of backends and any bounds, with crashes, late aborts, VACUUM and       *)
(* xids handed out again after a crash.                                    *)
(*                                                                         *)
(* A row's entry is taken when bottom-up deletion finds its deleter        *)
(* committed and below the horizon, so a row without one is dead to all    *)
(* and stays so (DeadStays).  What a deletion reads is the writer's        *)
(* private copy, while others read the file: KeepInv relates the two.      *)
(***************************************************************************)
EXTENDS IndexStore, HeapTableProofs

USE BoundsAssumption DEF Xid, RowId, Cid

\* One SQLite transaction is open at a time; a speculative row is in it and not
\* in the file.
WriterInv ==
    \A b \in Backends :
        /\ in_txn[b] => /\ phase[b] = "vacuum" \/ (phase[b] = "open" /\ xid[b] # 0)
                        /\ \A c \in Backends \ {b} : ~in_txn[c]
        /\ spec[b] # 0 => in_txn[b] /\ file.rows[spec[b]].xmin = 0

\* What an open SQLite transaction makes of a row of the file: a statement keeps
\* it, or stamps it if it had no xmax; VACUUM keeps it or removes it.
Kept(b, old, new) ==
    IF phase[b] = "open"
    THEN /\ new.xmin = old.xmin /\ new.cmin = old.cmin
         /\ new.xmax = old.xmax \/ (old.xmax = 0 /\ new.xmax = xid[b])
    ELSE new \in {NoRow, old}

KeepInv ==
    \A b \in Backends : in_txn[b] =>
        \A r \in RowId : \/ Kept(b, file.rows[r], local[b].rows[r])
                         \/ phase[b] = "open" /\ file.rows[r].xmin = 0

\* Deleted by a committed transaction older than every xid and every snapshot.
Dead(row) ==
    /\ row.xmax \in clog /\ row.xmax < nextXid
    /\ \A b \in Backends : /\ xid[b] # 0 => row.xmax < xid[b]
                           /\ snap[b] # NoSnap => row.xmax < snap[b].xmin

\* Every stored row has its entry, was left out by the last build, or is dead
\* to all.
Entered(rows) ==
    \A r \in RowId : rows[r].xmin # 0 =>
        IdOf(rows, r) \in index \cup skipped \/ Dead(rows[r])

EntryInv == Entered(file.rows) /\ \A b \in Backends : in_txn[b] => Entered(local[b].rows)

\* The inductive invariant.
IndexInv == TypeOK /\ XidsIssued /\ PhaseDiscipline /\ WriterInv /\ KeepInv /\ EntryInv

-----------------------------------------------------------------------------
(* The heap under the index. *)

\* What the index does leaves the heap alone: IndexStore's heap is HeapStore,
\* and HeapStore's theorems hold of it.
THEOREM IndexedHeap == IndexSpec => Spec
<1>1. IndexInit => Init BY DEF IndexInit
<1>2. [IndexNext]_indexVars => [Next]_vars
  BY DEF IndexNext, HeapStep, index_delete_tuples, build_index, indexVars
<1> QED BY <1>1, <1>2, PTL DEF IndexSpec, Spec

-----------------------------------------------------------------------------
(* Dead rows stay dead, and entries stay. *)

\* Dead and Entered in the next state, for given rows.
DeadAfter(row) ==
    /\ row.xmax \in clog' /\ row.xmax < nextXid'
    /\ \A b \in Backends : /\ xid'[b] # 0 => row.xmax < xid'[b]
                           /\ snap'[b] # NoSnap => row.xmax < snap'[b].xmin

EnteredAfter(rows) ==
    \A r \in RowId : rows[r].xmin # 0 =>
        IdOf(rows, r) \in index' \cup skipped' \/ DeadAfter(rows[r])

LEMMA EntryAfter ==
    ASSUME EnteredAfter(file'.rows), \A b \in Backends : in_txn'[b] => EnteredAfter(local'[b].rows)
    PROVE  EntryInv'
BY DEF EntryInv, Entered, Dead, EnteredAfter, DeadAfter, IdOf

\* How a step changes what Dead looks at: the commit log grows, the xid counter
\* stays above it (a crash may set it back, but not below what committed), a new
\* xid is the next one, a new snapshot starts at the oldest xid running.
LEMMA ClockStep ==
    ASSUME TypeOK, XidsIssued, [Next]_vars
    PROVE  /\ nextXid' \in Nat /\ \A x \in clog : x < nextXid'
           /\ clog \subseteq clog'
           /\ \A b \in Backends :
                 /\ xid'[b] \in {0, xid[b], nextXid}
                 /\ snap'[b] \in {NoSnap, snap[b]} \/ snap'[b].xmin \in Running \cup {nextXid}
<1>0. /\ nextXid \in Nat /\ nextXid + 1 \in Nat
      /\ \A x \in clog : x < nextXid /\ x < nextXid + 1
  BY DEF TypeOK, XidsIssued
<1>1. CASE UNCHANGED vars BY <1>0, <1>1 DEF vars
<1>2. ASSUME NEW B \in SUBSET Backends, Forget(B)
      PROVE  \A b \in Backends : xid'[b] \in {0, xid[b]} /\ snap'[b] \in {NoSnap, snap[b]}
  BY <1>2 DEF Forget
<1>3. CASE Crash
  <2>1. /\ Forget(Backends) /\ UNCHANGED clog
        /\ nextXid' \in 1..nextXid /\ \A x \in clog : x < nextXid'
    BY <1>3 DEF Crash, RecoveredXids
  <2>2. nextXid' \in Nat BY <1>0, <2>1
  <2>3. \A b \in Backends : xid'[b] \in {0, xid[b]} /\ snap'[b] \in {NoSnap, snap[b]}
    BY <1>2, <2>1
  <2> QED BY <2>1, <2>2, <2>3
<1>4. ASSUME NEW b \in Backends, EndXact(b) \/ Abort(b)
      PROVE  /\ nextXid' = nextXid /\ clog' = clog
             /\ \A a \in Backends : xid'[a] \in {0, xid[a]} /\ snap'[a] \in {NoSnap, snap[a]}
  BY <1>2, <1>4 DEF EndXact, Abort
<1>5. ASSUME NEW b \in Backends, TakeSnapshot(b)
      PROVE  /\ UNCHANGED <<nextXid, clog, xid>>
             /\ \A a \in Backends : snap'[a] = snap[a] \/ snap'[a].xmin \in Running \cup {nextXid}
  <2>1. PICK m \in Running \cup {nextXid} : snap' = [snap EXCEPT ![b] = Snapshot(b, m)]
    BY <1>5 DEF TakeSnapshot
  <2>2. Snapshot(b, m).xmin = m BY DEF Snapshot
  <2> QED BY <1>5, <2>1, <2>2 DEF TakeSnapshot, TypeOK
<1>6. ASSUME NEW b \in Backends, \E keep \in BOOLEAN : NextCommand(b, keep)
      PROVE  /\ UNCHANGED <<nextXid, clog, xid>>
             /\ \A a \in Backends : snap'[a] \in {NoSnap, snap[a]}
  BY <1>6 DEF NextCommand, TypeOK
<1>7. ASSUME NEW b \in Backends, AssignXid(b)
      PROVE  /\ nextXid' = nextXid + 1 /\ UNCHANGED <<clog, snap>>
             /\ \A a \in Backends : xid'[a] \in {xid[a], nextXid}
  BY <1>7 DEF AssignXid, TypeOK
<1>8. ASSUME NEW b \in Backends, RecordCommit(b)
      PROVE  /\ clog \subseteq clog' /\ UNCHANGED <<nextXid, xid, snap>>
  BY <1>8 DEF RecordCommit
<1>9. ASSUME NEW b \in Backends,
             \/ Begin(b) \/ (\E n \in 1..MaxBatch : Insert(b, n))
             \/ InsertSpeculative(b) \/ SpeculationWon(b) \/ SpeculationLost(b)
             \/ (\E r \in RowId : Delete(b, r) \/ Update(b, r))
             \/ Truncate(b) \/ VacuumStart(b) \/ VacuumDead(b) \/ PreCommit(b)
      PROVE  UNCHANGED <<nextXid, clog, xid, snap>>
  BY <1>9 DEF Begin, Insert, InsertSpeculative, SpeculationWon, SpeculationLost, Delete, Update,
              Truncate, VacuumStart, VacuumDead, PreCommit, writeUnchanged
<1> QED BY <1>0, <1>1, <1>3, <1>4, <1>5, <1>6, <1>7, <1>8, <1>9 DEF Next

\* A dead row stays dead.
LEMMA DeadStays ==
    ASSUME TypeOK, XidsIssued, [Next]_vars, NEW row \in Row, Dead(row)
    PROVE  DeadAfter(row)
<1>0. row.xmax \in Nat /\ nextXid \in Nat BY DEF Row, TypeOK
<1>1. /\ row.xmax \in clog /\ row.xmax < nextXid
      /\ \A b \in Backends : /\ xid[b] # 0 => row.xmax < xid[b]
                             /\ snap[b] # NoSnap => row.xmax < snap[b].xmin
  BY DEF Dead
<1>2. /\ nextXid' \in Nat /\ (\A x \in clog : x < nextXid') /\ clog \subseteq clog'
      /\ \A b \in Backends :
            /\ xid'[b] \in {0, xid[b], nextXid}
            /\ snap'[b] \in {NoSnap, snap[b]} \/ snap'[b].xmin \in Running \cup {nextXid}
  BY ClockStep
<1>3. \A x \in Running \cup {nextXid} : row.xmax < x BY <1>1 DEF Running
<1>4. row.xmax \in clog' /\ row.xmax < nextXid' BY <1>0, <1>1, <1>2
<1>5. ASSUME NEW b \in Backends
      PROVE  /\ xid'[b] # 0 => row.xmax < xid'[b]
             /\ snap'[b] # NoSnap => row.xmax < snap'[b].xmin
  BY <1>1, <1>2, <1>3
<1> QED BY <1>4, <1>5 DEF DeadAfter

\* Rows that come of entered rows, or have an entry made for them, are entered.
LEMMA EntersAfter ==
    ASSUME TypeOK, XidsIssued, [Next]_vars, index \subseteq index', skipped \subseteq skipped',
           NEW rows \in [RowId -> Row], NEW new \in [RowId -> Row], Entered(rows),
           \A r \in RowId : new[r].xmin # 0 =>
               \/ IdOf(new, r) \in index'
               \/ /\ new[r].xmin = rows[r].xmin /\ new[r].cmin = rows[r].cmin
                  /\ new[r].xmax = rows[r].xmax \/ rows[r].xmax = 0
    PROVE  EnteredAfter(new)
<1> SUFFICES ASSUME NEW r \in RowId, new[r].xmin # 0
             PROVE  IdOf(new, r) \in index' \cup skipped' \/ DeadAfter(new[r])
  BY DEF EnteredAfter
<1>1. CASE IdOf(new, r) \in index' BY <1>1
<1>2. CASE /\ new[r].xmin = rows[r].xmin /\ new[r].cmin = rows[r].cmin
           /\ new[r].xmax = rows[r].xmax \/ rows[r].xmax = 0
  <2>1. IdOf(new, r) = IdOf(rows, r) BY <1>2 DEF IdOf
  <2>2. CASE IdOf(rows, r) \in index \cup skipped BY <2>1, <2>2
  <2>3. CASE Dead(rows[r])
    <3>1. rows[r].xmax # 0 BY <2>3 DEF Dead, TypeOK
    <3>2. DeadAfter(rows[r]) BY <2>3, DeadStays
    <3>3. new[r].xmax = rows[r].xmax BY <1>2, <3>1
    <3> QED BY <3>2, <3>3 DEF DeadAfter
  <2> QED BY <1>2, <2>2, <2>3 DEF Entered
<1> QED BY <1>1, <1>2

\* In particular rows that do not change.
LEMMA StaysEntered ==
    ASSUME TypeOK, XidsIssued, [Next]_vars, index \subseteq index', skipped \subseteq skipped',
           NEW rows \in [RowId -> Row], Entered(rows)
    PROVE  EnteredAfter(rows)
BY EntersAfter

-----------------------------------------------------------------------------
(* Steps that write no row. *)

\* Who keeps a SQLite transaction keeps all of it, and the file does not change.
LEMMA QuietKeeps ==
    ASSUME IndexInv, [Next]_vars, index \subseteq index', skipped \subseteq skipped', file' = file,
           \A a \in Backends : in_txn'[a] =>
               /\ in_txn[a] /\ local'[a] = local[a] /\ phase'[a] = phase[a] /\ xid'[a] = xid[a],
           \A a \in Backends : spec'[a] # 0 => spec'[a] = spec[a] /\ (in_txn[a] => in_txn'[a])
    PROVE  WriterInv' /\ KeepInv' /\ EntryInv'
<1>0. TypeOK /\ XidsIssued /\ WriterInv /\ KeepInv /\ EntryInv BY DEF IndexInv
<1>1. WriterInv' BY <1>0 DEF WriterInv
<1>2. KeepInv' BY <1>0 DEF KeepInv, Kept
<1>3. file.rows \in [RowId -> Row] /\ \A a \in Backends : local[a].rows \in [RowId -> Row]
  BY <1>0 DEF TypeOK, Content
<1>4. EnteredAfter(file'.rows) BY <1>0, <1>3, StaysEntered DEF EntryInv
<1>5. ASSUME NEW a \in Backends, in_txn'[a] PROVE EnteredAfter(local'[a].rows)
  <2>1. EnteredAfter(local[a].rows) BY <1>0, <1>3, <1>5, StaysEntered DEF EntryInv
  <2> QED BY <1>5, <2>1
<1>6. EntryInv' BY <1>4, <1>5, EntryAfter
<1> QED BY <1>1, <1>2, <1>6

\* on_precommit: the file becomes what its writer reads.
LEMMA PreCommitKeepsIndex ==
    ASSUME IndexInv, [Next]_vars, index \subseteq index', skipped \subseteq skipped',
           NEW b \in Backends, PreCommit(b)
    PROVE  WriterInv' /\ KeepInv' /\ EntryInv'
<1>0. TypeOK /\ XidsIssued /\ PhaseDiscipline /\ WriterInv /\ KeepInv /\ EntryInv
  BY DEF IndexInv
<1>1. /\ file' = Read(b) /\ in_txn' = [in_txn EXCEPT ![b] = FALSE]
      /\ local' = [local EXCEPT ![b] = Empty] /\ phase' = [phase EXCEPT ![b] = "precommit"]
      /\ UNCHANGED <<xid, spec>> /\ (phase[b] = "vacuum" \/ spec[b] = 0)
  BY DEF PreCommit
<1>2. spec[b] = 0 BY <1>0, <1>1 DEF PhaseDiscipline
<1>3. CASE ~in_txn[b]
  <2>1. file' = file BY <1>1, <1>3 DEF Read
  <2>2. \A a \in Backends : in_txn'[a] =>
               /\ in_txn[a] /\ local'[a] = local[a] /\ phase'[a] = phase[a] /\ xid'[a] = xid[a]
    BY <1>0, <1>1 DEF TypeOK
  <2>3. \A a \in Backends : spec'[a] # 0 => spec'[a] = spec[a] /\ (in_txn[a] => in_txn'[a])
    BY <1>0, <1>1, <1>3 DEF TypeOK
  <2> QED BY <2>1, <2>2, <2>3, QuietKeeps
<1>4. CASE in_txn[b]
  <2>1. \A a \in Backends : ~in_txn'[a] BY <1>0, <1>1, <1>4 DEF WriterInv, TypeOK
  <2>2. \A a \in Backends : spec'[a] = 0 BY <1>0, <1>1, <1>2, <1>4 DEF WriterInv
  <2>3. WriterInv' /\ KeepInv' BY <2>1, <2>2 DEF WriterInv, KeepInv
  <2>4. local[b].rows \in [RowId -> Row] /\ Entered(local[b].rows) BY <1>0, <1>4 DEF TypeOK, Content, EntryInv
  <2>5. EnteredAfter(local[b].rows) BY <1>0, <2>4, StaysEntered
  <2>6. EnteredAfter(file'.rows) BY <1>1, <1>4, <2>5 DEF Read
  <2> QED BY <2>1, <2>3, <2>6, EntryAfter
<1> QED BY <1>3, <1>4

-----------------------------------------------------------------------------
(* Writes. *)

\* What one write makes of a row its connection reads: it is kept; a new row is
\* put into an empty slot and reported; a row without xmax is stamped; VACUUM,
\* or a lost speculation, removes it.
Changed(b, r, old, new) ==
    \/ new = old
    \/ phase[b] = "open" /\ old.xmin = 0 /\ <<r, new.xmin, new.cmin>> \in did'[b].ins
    \/ /\ phase[b] = "open" /\ old.xmin # 0 /\ old.xmax = 0
       /\ new.xmin = old.xmin /\ new.cmin = old.cmin /\ new.xmax = xid[b]
    \/ new = NoRow /\ (phase[b] = "vacuum" \/ r = spec[b])

WriteEffect(b) ==
    /\ (phase[b] = "open" /\ xid[b] # 0) \/ (phase[b] = "vacuum" /\ ~in_txn[b])
    /\ \E c \in Content : /\ SqliteWrite(b, c)
                          /\ \A r \in RowId : Changed(b, r, Read(b).rows[r], c.rows[r])
    /\ \A a \in Backends : spec'[a] # 0 =>
          \/ spec'[a] = spec[a]
          \/ a = b /\ spec'[b] \in RowId /\ Read(b).rows[spec'[b]].xmin = 0
    /\ UNCHANGED <<phase, xid>>

\* Rows put above the top are put into empty slots.
LEMMA PutAbove ==
    ASSUME TypeOK, NEW b \in Backends, phase[b] = "open", NEW rows \in [RowId -> Row],
           NEW top \in Nat, NEW n \in Nat, NEW r \in RowId,
           \A q \in RowId : q > top => rows[q].xmin = 0,
           NewIds(b, top, n) \subseteq did'[b].ins
    PROVE  /\ Changed(b, r, rows[r], WithNew(b, rows, top, n)[r])
           /\ r <= top => WithNew(b, rows, top, n)[r] = rows[r]
<1>1. CASE r \in (top + 1)..(top + n)
  <2>1. /\ WithNew(b, rows, top, n)[r] = [xmin |-> xid[b], cmin |-> cid[b], xmax |-> 0, cmax |-> 0]
        /\ r > top
    BY <1>1 DEF WithNew
  <2>2. rows[r].xmin = 0 BY <2>1
  <2>3. <<r, xid[b], cid[b]>> \in did'[b].ins BY <1>1 DEF NewIds
  <2> QED BY <2>1, <2>2, <2>3 DEF Changed
<1>2. CASE r \notin (top + 1)..(top + n) BY <1>2 DEF WithNew, Changed
<1> QED BY <1>1, <1>2

\* The write callbacks and vacuum_dead are such writes.
LEMMA WriteEffects ==
    ASSUME IndexInv, ~Truncates, NEW b \in Backends, WriteAction(b)
    PROVE  WriteEffect(b)
<1>0. TypeOK /\ XidsIssued /\ PhaseDiscipline /\ WriterInv BY DEF IndexInv
<1> DEFINE R == Read(b).rows
<1>r. Read(b) \in Content /\ R \in [RowId -> Row] BY <1>0, ReadType
<1>w. \A rows \in [RowId -> Row] :
          WithRows(Read(b), rows) \in Content /\ WithRows(Read(b), rows).rows = rows
  BY <1>r, WithRowsType DEF WithRows, Content
<1> HIDE DEF R
<1>n. ASSUME NEW new \in SUBSET Id, NEW gone, Report(b, new, gone)
      PROVE  new \subseteq did'[b].ins
  BY <1>0, <1>n DEF Report, TypeOK
<1>t. ASSUME NEW top, IsTop(R, top) PROVE \A q \in RowId : q > top => R[q].xmin = 0
  BY <1>t DEF IsTop
<1>1. ASSUME NEW n \in 1..MaxBatch, Insert(b, n) PROVE WriteEffect(b)
  <2>1. PICK top \in 0..(MaxRowid - n) :
           /\ IsTop(R, top) /\ SqliteWrite(b, WithRows(Read(b), WithNew(b, R, top, n)))
           /\ Report(b, NewIds(b, top, n), {})
    BY <1>1 DEF Insert, R
  <2>2. /\ phase[b] = "open" /\ xid[b] # 0 /\ UNCHANGED <<phase, xid, spec>>
    BY <1>1 DEF Insert, Writing, writeUnchanged
  <2>3. top \in Nat /\ n \in Nat OBVIOUS
  <2>4. WithNew(b, R, top, n) \in [RowId -> Row] BY <1>0, <1>r, <2>3, WithNewType
  <2>5. NewIds(b, top, n) \subseteq did'[b].ins BY <1>0, <1>n, <2>1, <2>2, <2>3, NewIdsType
  <2>6. \A r \in RowId : Changed(b, r, R[r], WithNew(b, R, top, n)[r])
    BY <1>0, <1>r, <1>t, <2>1, <2>2, <2>3, <2>5, PutAbove
  <2> QED BY <1>w, <2>1, <2>2, <2>4, <2>6 DEF WriteEffect, R
<1>2. CASE InsertSpeculative(b)
  <2>1. PICK top \in 0..(MaxRowid - 1) :
           /\ IsTop(R, top) /\ SqliteWrite(b, WithRows(Read(b), WithNew(b, R, top, 1)))
           /\ Report(b, NewIds(b, top, 1), {}) /\ spec' = [spec EXCEPT ![b] = top + 1]
    BY <1>2 DEF InsertSpeculative, R
  <2>2. /\ phase[b] = "open" /\ xid[b] # 0 /\ UNCHANGED <<phase, xid>>
    BY <1>2 DEF InsertSpeculative, Writing, writeUnchanged
  <2>3. top \in Nat /\ 1 \in Nat /\ top + 1 \in RowId /\ top + 1 > top BY DEF RowId
  <2>4. WithNew(b, R, top, 1) \in [RowId -> Row] BY <1>0, <1>r, <2>3, WithNewType
  <2>5. NewIds(b, top, 1) \subseteq did'[b].ins BY <1>0, <1>n, <2>1, <2>2, <2>3, NewIdsType
  <2>6. \A r \in RowId : Changed(b, r, R[r], WithNew(b, R, top, 1)[r])
    BY <1>0, <1>r, <1>t, <2>1, <2>2, <2>3, <2>5, PutAbove
  <2>7. R[top + 1].xmin = 0 BY <1>t, <2>1, <2>3
  <2>8. \A a \in Backends : spec'[a] # 0 =>
          spec'[a] = spec[a] \/ (a = b /\ spec'[b] \in RowId /\ R[spec'[b]].xmin = 0)
    BY <1>0, <2>1, <2>3, <2>7 DEF TypeOK
  <2> QED BY <1>w, <2>1, <2>2, <2>4, <2>6, <2>8 DEF WriteEffect, R
<1>3. CASE SpeculationLost(b)
  <2> DEFINE rows == [R EXCEPT ![spec[b]] = NoRow]
  <2>1. /\ spec[b] # 0 /\ SqliteWrite(b, WithRows(Read(b), rows))
        /\ spec' = [spec EXCEPT ![b] = 0] /\ UNCHANGED <<phase, xid>>
    BY <1>3 DEF SpeculationLost, writeUnchanged, R
  <2>2. phase[b] = "open" /\ xid[b] # 0
    BY <1>0, <2>1 DEF PhaseDiscipline, WriterInv
  <2>3. rows \in [RowId -> Row] BY <1>r, ConstantTypes
  <2>4. \A r \in RowId : Changed(b, r, R[r], rows[r]) BY <1>r DEF Changed
  <2>5. \A a \in Backends : spec'[a] # 0 => spec'[a] = spec[a] BY <1>0, <2>1 DEF TypeOK
  <2> HIDE DEF rows
  <2> QED BY <1>w, <2>1, <2>2, <2>3, <2>4, <2>5 DEF WriteEffect, R
<1>s. ASSUME NEW q \in RowId, NEW r \in RowId, phase[b] = "open"
      PROVE  Stamped(b, R, q) \in [RowId -> Row] /\ Changed(b, r, R[r], Stamped(b, R, q)[r])
  <2>1. Stamped(b, R, q) \in [RowId -> Row] BY <1>0, <1>r, StampedType
  <2>2. CASE R[q].xmin # 0 /\ R[q].xmax = 0 /\ r = q
    BY <1>r, <1>s, <2>1, <2>2 DEF Stamped, Changed, Row
  <2>3. CASE ~(R[q].xmin # 0 /\ R[q].xmax = 0 /\ r = q)
    <3>1. Stamped(b, R, q)[r] = R[r] BY <1>r, <2>3 DEF Stamped
    <3> QED BY <2>1, <3>1 DEF Changed
  <2> QED BY <2>1, <2>2, <2>3
<1>4. ASSUME NEW q \in RowId, Delete(b, q) PROVE WriteEffect(b)
  <2>1. /\ phase[b] = "open" /\ xid[b] # 0 /\ UNCHANGED <<phase, xid, spec>>
        /\ SqliteWrite(b, WithRows(Read(b), Stamped(b, R, q)))
    BY <1>4 DEF Delete, Writing, writeUnchanged, R
  <2> QED BY <1>s, <1>w, <2>1 DEF WriteEffect, R
<1>5. ASSUME NEW q \in RowId, Update(b, q) PROVE WriteEffect(b)
  <2> DEFINE S == Stamped(b, R, q)
  <2>1. PICK top \in 0..(MaxRowid - 1) :
           /\ IsTop(R, top) /\ SqliteWrite(b, WithRows(Read(b), WithNew(b, S, top, 1)))
           /\ Report(b, NewIds(b, top, 1), StampedIds(b, R, q))
    BY <1>5 DEF Update, update_row, R
  <2>2. /\ phase[b] = "open" /\ xid[b] # 0 /\ UNCHANGED <<phase, xid, spec>>
    BY <1>5 DEF Update, Writing, writeUnchanged
  <2>3. top \in Nat /\ 1 \in Nat OBVIOUS
  <2>4. S \in [RowId -> Row] /\ \A r \in RowId : Changed(b, r, R[r], S[r]) BY <1>s, <2>2
  <2>5. WithNew(b, S, top, 1) \in [RowId -> Row] BY <1>0, <2>3, <2>4, WithNewType
  <2>6. NewIds(b, top, 1) \subseteq did'[b].ins BY <1>0, <1>n, <2>1, <2>2, <2>3, NewIdsType
  <2>7. \A r \in RowId : S[r].xmin = R[r].xmin BY <1>0, <1>r, StampedXids
  <2>8. \A r \in RowId : r > top => R[r].xmin = 0 BY <1>t, <2>1
  <2>9. \A r \in RowId : r > top => S[r].xmin = 0 BY <2>7, <2>8
  <2>10. \A r \in RowId : r > top => S[r] = R[r]
    <3>1. \A r \in RowId : r > top => ~(R[q].xmin # 0 /\ r = q) BY <2>8
    <3> QED BY <1>r, <3>1 DEF Stamped
  <2> HIDE DEF S
  <2>11. \A r \in RowId : /\ Changed(b, r, S[r], WithNew(b, S, top, 1)[r])
                          /\ r <= top => WithNew(b, S, top, 1)[r] = S[r]
    BY <1>0, <2>2, <2>3, <2>4, <2>6, <2>9, PutAbove
  <2>12. \A r \in RowId : r > top \/ r <= top BY <2>3
  <2>13. \A r \in RowId : Changed(b, r, R[r], WithNew(b, S, top, 1)[r])
    BY <2>4, <2>10, <2>11, <2>12
  <2> QED BY <1>w, <2>1, <2>2, <2>5, <2>13 DEF WriteEffect, R
<1>6. CASE VacuumDead(b)
  <2> DEFINE c == [rows |-> Reaped(R, oldest[b]), last_vacuum_xmin |-> oldest[b]]
  <2>1. /\ phase[b] = "vacuum" /\ ~in_txn[b] /\ SqliteWrite(b, c) /\ UNCHANGED <<phase, xid, spec>>
    BY <1>6 DEF VacuumDead, writeUnchanged, R
  <2>2. Reaped(R, oldest[b]) \in [RowId -> Row] BY <1>r, ConstantTypes DEF Reaped
  <2>3. c \in Content BY <1>0, <2>2 DEF TypeOK, Content
  <2>4. \A r \in RowId : Changed(b, r, R[r], c.rows[r]) BY <2>1 DEF Changed, Reaped
  <2> HIDE DEF c
  <2> QED BY <2>1, <2>3, <2>4 DEF WriteEffect, R
<1> QED BY <1>1, <1>2, <1>3, <1>4, <1>5, <1>6 DEF WriteAction, Truncate

\* A write, with the entries made for it, keeps the invariants.
LEMMA WriteKeeps ==
    ASSUME IndexInv, [Next]_vars, NEW b \in Backends, WriteEffect(b),
           index' = index \cup UNION {did'[a].ins : a \in Backends}, skipped' = skipped
    PROVE  WriterInv' /\ KeepInv' /\ EntryInv'
<1>0. TypeOK /\ XidsIssued /\ PhaseDiscipline /\ WriterInv /\ KeepInv /\ EntryInv BY DEF IndexInv
<1>1. PICK c \in Content : /\ SqliteWrite(b, c)
                           /\ \A r \in RowId : Changed(b, r, Read(b).rows[r], c.rows[r])
  BY DEF WriteEffect
<1>2. /\ in_txn' = [in_txn EXCEPT ![b] = TRUE] /\ local' = [local EXCEPT ![b] = c]
      /\ file' = file /\ UNCHANGED <<phase, xid>> /\ \A a \in Backends \ {b} : ~in_txn[a]
  BY <1>1 DEF SqliteWrite, CanWrite, WriteEffect
<1>3. \A a \in Backends : IF a = b THEN in_txn'[a] /\ local'[a] = c ELSE ~in_txn'[a]
  BY <1>0, <1>2 DEF TypeOK
<1>4. in_txn[b] => phase[b] = "open" BY DEF WriteEffect
<1>6. \A r \in RowId : phase[b] = "open" /\ Read(b).rows[r].xmin = 0 => file.rows[r].xmin = 0
  BY <1>0 DEF KeepInv, Kept, Read
<1>7. WriterInv'
  <2>1. ASSUME spec'[b] # 0 PROVE file.rows[spec'[b]].xmin = 0
    <3>1. CASE spec'[b] = spec[b] BY <1>0, <2>1, <3>1 DEF WriterInv
    <3>2. CASE spec'[b] # spec[b]
      <4>1. spec'[b] \in RowId /\ Read(b).rows[spec'[b]].xmin = 0 BY <2>1, <3>2 DEF WriteEffect
      <4>2. CASE in_txn[b] BY <1>4, <1>6, <4>1, <4>2
      <4>3. CASE ~in_txn[b] BY <4>1, <4>3 DEF Read
      <4> QED BY <4>2, <4>3
    <3> QED BY <3>1, <3>2
  <2>2. \A a \in Backends \ {b} : spec'[a] = 0 BY <1>0, <1>2 DEF WriterInv, WriteEffect
  <2> QED BY <1>2, <1>3, <2>1, <2>2 DEF WriterInv, WriteEffect
<1>8. KeepInv'
  <2> SUFFICES ASSUME NEW r \in RowId
               PROVE  Kept(b, file.rows[r], c.rows[r]) \/ (phase[b] = "open" /\ file.rows[r].xmin = 0)
    BY <1>2, <1>3 DEF KeepInv, Kept
  <2>1. Changed(b, r, Read(b).rows[r], c.rows[r]) BY <1>1
  <2>2. r = spec[b] => in_txn[b] /\ file.rows[r].xmin = 0 BY <1>0 DEF WriterInv
  <2>3. CASE ~in_txn[b]
    <3>1. Read(b).rows[r] = file.rows[r] BY <2>3 DEF Read
    <3> QED BY <2>1, <2>2, <2>3, <3>1 DEF Changed, Kept, WriteEffect
  <2>4. CASE in_txn[b]
    <3>1. Kept(b, file.rows[r], Read(b).rows[r]) \/ file.rows[r].xmin = 0
      BY <1>0, <2>4 DEF KeepInv, Read
    <3> QED BY <1>4, <2>1, <2>2, <2>4, <3>1 DEF Changed, Kept
  <2> QED BY <2>3, <2>4
<1>9. EntryInv'
  <2>0. /\ Read(b).rows \in [RowId -> Row] /\ c.rows \in [RowId -> Row]
        /\ file.rows \in [RowId -> Row]
    BY <1>0, ReadType DEF Content, TypeOK
  <2>1. Entered(Read(b).rows) /\ Entered(file.rows) BY <1>0 DEF EntryInv, Read
  <2>2. ASSUME NEW r \in RowId, c.rows[r].xmin # 0
        PROVE  \/ IdOf(c.rows, r) \in index'
               \/ /\ c.rows[r].xmin = Read(b).rows[r].xmin /\ c.rows[r].cmin = Read(b).rows[r].cmin
                  /\ c.rows[r].xmax = Read(b).rows[r].xmax \/ Read(b).rows[r].xmax = 0
    <3>1. did'[b].ins \subseteq index' OBVIOUS
    <3>2. Changed(b, r, Read(b).rows[r], c.rows[r]) BY <1>1
    <3> QED BY <2>2, <3>1, <3>2 DEF Changed, IdOf, NoRow
  <2>3. EnteredAfter(c.rows) BY <1>0, <2>0, <2>1, <2>2, EntersAfter
  <2>4. EnteredAfter(file.rows) BY <1>0, <2>0, <2>1, StaysEntered
  <2> QED BY <1>2, <1>3, <2>3, <2>4, EntryAfter
<1> QED BY <1>7, <1>8, <1>9

\* Every step of the heap, with the entries the executor makes, keeps them.
LEMMA HeapStepKeeps ==
    ASSUME IndexInv, ~Truncates, HeapStep
    PROVE  WriterInv' /\ KeepInv' /\ EntryInv'
<1>0. TypeOK /\ XidsIssued /\ PhaseDiscipline /\ WriterInv BY DEF IndexInv
<1>1. /\ Next /\ index' = index \cup UNION {did'[a].ins : a \in Backends} /\ skipped' = skipped
  BY DEF HeapStep
<1>2. [Next]_vars /\ index \subseteq index' /\ skipped \subseteq skipped' BY <1>1
<1> DEFINE Quiet == /\ file' = file
                    /\ \A a \in Backends : in_txn'[a] =>
                          /\ in_txn[a] /\ local'[a] = local[a]
                          /\ phase'[a] = phase[a] /\ xid'[a] = xid[a]
                    /\ \A a \in Backends : spec'[a] # 0 =>
                          spec'[a] = spec[a] /\ (in_txn[a] => in_txn'[a])
           Goal == WriterInv' /\ KeepInv' /\ EntryInv'
<1>3. Quiet => Goal BY <1>2, QuietKeeps
<1>4. ASSUME NEW B \in SUBSET Backends, Forget(B), file' = file PROVE Quiet
  BY <1>4 DEF Forget
<1>5. Crash => Goal BY <1>3, <1>4 DEF Crash
<1>6. ASSUME NEW b \in Backends, EndXact(b) \/ Abort(b) PROVE Goal
  BY <1>3, <1>4, <1>6 DEF EndXact, Abort
<1>7. ASSUME NEW b \in Backends,
             \/ Begin(b) \/ VacuumStart(b) \/ RecordCommit(b) \/ AssignXid(b)
             \/ TakeSnapshot(b) \/ (\E keep \in BOOLEAN : NextCommand(b, keep))
             \/ SpeculationWon(b)
      PROVE  Goal
  <2>1. /\ UNCHANGED <<file, in_txn, local>>
        /\ \A a \in Backends : spec'[a] # 0 => spec'[a] = spec[a]
    BY <1>0, <1>7 DEF Begin, VacuumStart, RecordCommit, AssignXid, TakeSnapshot, NextCommand,
                      SpeculationWon, TypeOK
  <2>2. \A a \in Backends \ {b} : phase'[a] = phase[a] /\ xid'[a] = xid[a]
    BY <1>0, <1>7 DEF Begin, VacuumStart, RecordCommit, AssignXid, TakeSnapshot, NextCommand,
                      SpeculationWon, writeUnchanged, TypeOK
  <2>3. \/ phase[b] \in {"idle", "precommit"} \/ (phase[b] = "open" /\ xid[b] = 0)
        \/ UNCHANGED <<phase, xid>>
    BY <1>7 DEF Begin, VacuumStart, RecordCommit, AssignXid, TakeSnapshot, NextCommand,
                SpeculationWon, writeUnchanged
  <2>4. in_txn[b] => phase'[b] = phase[b] /\ xid'[b] = xid[b] BY <1>0, <2>3 DEF WriterInv
  <2>5. Quiet BY <2>1, <2>2, <2>4
  <2> QED BY <1>3, <2>5
<1>8. ASSUME NEW b \in Backends, PreCommit(b) PROVE Goal
  BY <1>2, <1>8, PreCommitKeepsIndex
<1>9. ASSUME NEW b \in Backends, WriteAction(b) PROVE Goal
  BY <1>1, <1>2, <1>9, WriteEffects, WriteKeeps
<1> HIDE DEF Goal
<1>10. ASSUME NEW b \in Backends,
              \/ \E n \in 1..MaxBatch : Insert(b, n)
              \/ InsertSpeculative(b) \/ SpeculationLost(b)
              \/ \E r \in RowId : Delete(b, r) \/ Update(b, r)
              \/ Truncate(b) \/ VacuumDead(b)
       PROVE  Goal
  BY <1>9, <1>10 DEF WriteAction
<1>11. Goal BY <1>1, <1>5, <1>6, <1>7, <1>8, <1>10 DEF Next
<1> QED BY <1>11 DEF Goal

-----------------------------------------------------------------------------
(* Steps of the index. *)

\* What the heap's invariants say stays true while the heap does.
LEMMA HeapUnchanged ==
    ASSUME IndexInv, UNCHANGED vars
    PROVE  WriterInv' /\ KeepInv' /\ \A row : Dead(row) => DeadAfter(row)
<1>0. WriterInv /\ KeepInv BY DEF IndexInv
<1>1. WriterInv' BY <1>0 DEF vars, WriterInv
<1>2. KeepInv' BY <1>0 DEF vars, KeepInv, Kept
<1> QED BY <1>1, <1>2 DEF vars, Dead, DeadAfter

\* A deleter that has committed and is below the horizon is dead to all.
LEMMA BelowHorizonDead ==
    ASSUME TypeOK, NEW o \in Xid \cup {MaxXid + 1}, IsHorizon(o),
           NEW row \in Row, row.xmax \in clog, row.xmax < o
    PROVE  Dead(row)
<1>1. /\ o <= nextXid /\ \A x \in Running : o <= x
      /\ \A b \in Backends : snap[b] # NoSnap => o <= snap[b].xmin
  BY DEF IsHorizon, IsLeast
<1>2. row.xmax \in Nat /\ o \in Nat /\ nextXid \in Nat BY DEF Row, TypeOK
<1>3. \A b \in Backends : xid[b] \in Nat /\ snap[b].xmin \in Nat BY DEF TypeOK, Snap
<1>4. \A b \in Backends : xid[b] # 0 => o <= xid[b] BY <1>1 DEF Running
<1> QED BY <1>1, <1>2, <1>3, <1>4 DEF Dead

\* index_delete_tuples takes entries of dead rows only, in the writer's copy and
\* in the file it was made from.
LEMMA DeleteTuplesKeeps ==
    ASSUME IndexInv, NEW b \in Backends, index_delete_tuples(b)
    PROVE  WriterInv' /\ KeepInv' /\ EntryInv'
<1>0. TypeOK /\ XidsIssued /\ PhaseDiscipline /\ WriterInv /\ KeepInv /\ EntryInv BY DEF IndexInv
<1> DEFINE L == local[b].rows
           F == file.rows
<1>1. /\ UNCHANGED vars /\ skipped' = skipped /\ in_txn[b] /\ phase[b] = "open" /\ xid[b] # 0
      /\ Read(b).rows = L
  BY DEF index_delete_tuples, Writing, Read
<1>2. PICK o \in Xid \cup {MaxXid + 1} : IsHorizon(o) /\
         \E page \in SUBSET index :
             LET xmax == select_xmax_batch(b, {e[1] : e \in page})
             IN  index' = index \ {e \in page : Deletable(e, xmax, o)}
  BY DEF index_delete_tuples
<1>3. PICK page \in SUBSET index :
             index' = index \ {e \in page :
                 Deletable(e, select_xmax_batch(b, {d[1] : d \in page}), o)}
  BY <1>2
<1>4. WriterInv' /\ KeepInv' /\ \A row : Dead(row) => DeadAfter(row) BY <1>1, HeapUnchanged
<1>5. L \in [RowId -> Row] /\ F \in [RowId -> Row] BY <1>0 DEF TypeOK, Content
<1>6. ASSUME NEW r \in RowId, NEW e, e[1] = r, e \in index, e \notin index', L[r].xmin # 0
      PROVE  L[r].xmax \in clog /\ L[r].xmax < o
  <2> DEFINE xm == select_xmax_batch(b, {d[1] : d \in page})
  <2>1. e \in page /\ Deletable(e, xm, o) BY <1>3, <1>6
  <2>2. r \in {d[1] : d \in page} BY <1>6, <2>1
  <2>3. r \in DOMAIN xm /\ xm[r] = L[r].xmax BY <1>1, <1>6, <2>2 DEF select_xmax_batch
  <2> HIDE DEF xm
  <2> QED BY <1>6, <2>1, <2>3 DEF Deletable, did_commit
<1>7. ASSUME NEW r \in RowId, L[r].xmin # 0
      PROVE  IdOf(L, r) \in index' \cup skipped' \/ DeadAfter(L[r])
  <2>1. CASE Dead(L[r]) BY <1>4, <2>1
  <2>2. CASE IdOf(L, r) \in skipped BY <1>1, <2>2
  <2>3. CASE IdOf(L, r) \in index /\ IdOf(L, r) \notin index'
    <3>1. IdOf(L, r)[1] = r BY DEF IdOf
    <3>2. L[r].xmax \in clog /\ L[r].xmax < o BY <1>6, <1>7, <2>3, <3>1
    <3>3. L[r] \in Row BY <1>5
    <3>4. Dead(L[r]) BY <1>0, <1>2, <3>2, <3>3, BelowHorizonDead
    <3> QED BY <1>4, <3>4
  <2>4. IdOf(L, r) \in index \cup skipped \/ Dead(L[r])
    BY <1>0, <1>1, <1>7 DEF EntryInv, Entered
  <2> QED BY <2>1, <2>2, <2>3, <2>4
<1>8. ASSUME NEW r \in RowId, F[r].xmin # 0
      PROVE  IdOf(F, r) \in index' \cup skipped' \/ DeadAfter(F[r])
  <2>1. CASE Dead(F[r]) BY <1>4, <2>1
  <2>2. CASE IdOf(F, r) \in skipped BY <1>1, <2>2
  <2>3. CASE IdOf(F, r) \in index /\ IdOf(F, r) \notin index'
    <3>1. IdOf(F, r)[1] = r BY DEF IdOf
    <3>2. L[r].xmin = F[r].xmin /\ L[r].xmax \in {F[r].xmax, xid[b]}
      BY <1>0, <1>1, <1>8 DEF KeepInv, Kept
    <3>3. L[r].xmax \in clog /\ L[r].xmax < o BY <1>6, <1>8, <2>3, <3>1, <3>2
    <3>4. xid[b] \notin clog BY <1>0, <1>1 DEF PhaseDiscipline
    <3>5. F[r] \in Row /\ F[r].xmax \in clog /\ F[r].xmax < o BY <1>5, <3>2, <3>3, <3>4
    <3>6. Dead(F[r]) BY <1>0, <1>2, <3>5, BelowHorizonDead
    <3> QED BY <1>4, <3>6
  <2>4. IdOf(F, r) \in index \cup skipped \/ Dead(F[r]) BY <1>0, <1>8 DEF EntryInv, Entered
  <2> QED BY <2>1, <2>2, <2>3, <2>4
<1>9. EnteredAfter(file'.rows) BY <1>1, <1>8 DEF EnteredAfter, vars
<1>10. ASSUME NEW a \in Backends, in_txn'[a] PROVE EnteredAfter(local'[a].rows)
  <2>1. a = b BY <1>0, <1>1, <1>10 DEF WriterInv, vars
  <2> QED BY <1>1, <1>7, <2>1 DEF EnteredAfter, vars
<1> QED BY <1>4, <1>9, <1>10, EntryAfter

\* build_index enters or leaves out every row of the file, and nobody writes
\* meanwhile but a VACUUM, which only removes.
LEMMA BuildIndexKeeps ==
    ASSUME IndexInv, NEW b \in Backends, build_index(b)
    PROVE  WriterInv' /\ KeepInv' /\ EntryInv'
<1>0. TypeOK /\ XidsIssued /\ PhaseDiscipline /\ WriterInv /\ KeepInv /\ EntryInv BY DEF IndexInv
<1>1. UNCHANGED vars /\ phase[b] = "open" /\ \A c \in Backends : xid[c] = 0 BY DEF build_index
<1>2. Read(b) = file BY <1>0, <1>1 DEF WriterInv, Read
<1>3. WriterInv' /\ KeepInv' BY <1>1, HeapUnchanged
<1>4. \A r \in RowId : file.rows[r].xmin # 0 => IdOf(file.rows, r) \in index' \cup skipped'
  BY <1>2 DEF build_index
<1>5. EnteredAfter(file'.rows) BY <1>1, <1>4 DEF EnteredAfter, vars
<1>6. ASSUME NEW a \in Backends, in_txn'[a] PROVE EnteredAfter(local'[a].rows)
  <2>1. in_txn[a] /\ phase[a] = "vacuum" BY <1>0, <1>1, <1>6 DEF WriterInv, vars
  <2>2. \A r \in RowId : local[a].rows[r] \in {NoRow, file.rows[r]}
    BY <1>0, <2>1 DEF KeepInv, Kept
  <2>3. \A r \in RowId : local[a].rows[r].xmin # 0 => local[a].rows[r] = file.rows[r]
    BY <2>2 DEF NoRow
  <2>4. \A r \in RowId : local[a].rows[r].xmin # 0 =>
            IdOf(local[a].rows, r) \in index' \cup skipped'
    BY <1>4, <2>3 DEF IdOf
  <2> QED BY <1>1, <2>4 DEF EnteredAfter, vars
<1> QED BY <1>3, <1>5, <1>6, EntryAfter

-----------------------------------------------------------------------------
(* The invariant. *)

LEMMA IndexInitially == ASSUME IndexInit PROVE IndexInv
<1>1. TypeOK /\ XidsIssued /\ PhaseDiscipline
  BY TableInit DEF IndexInit, TableInv, CommitOrderInv
<1>2. /\ \A b \in Backends : ~in_txn[b] /\ spec[b] = 0
      /\ \A r \in RowId : file.rows[r].xmin = 0
  BY DEF IndexInit, Init, Empty, NoRow
<1> QED BY <1>1, <1>2 DEF IndexInv, WriterInv, KeepInv, EntryInv, Entered

LEMMA IndexStep == ASSUME IndexInv, ~Truncates, [IndexNext]_indexVars PROVE IndexInv'
<1>0. TypeOK /\ XidsIssued /\ PhaseDiscipline /\ EntryInv BY DEF IndexInv
<1>1. [Next]_vars BY DEF IndexNext, HeapStep, index_delete_tuples, build_index, indexVars
<1>2. TypeOK' /\ XidsIssued' /\ PhaseDiscipline' BY <1>0, <1>1, TypeStep, XactsStep
<1>3. CASE UNCHANGED indexVars
  <2>1. UNCHANGED vars /\ index' = index /\ skipped' = skipped BY <1>3 DEF indexVars
  <2>2. WriterInv' /\ KeepInv' BY <2>1, HeapUnchanged
  <2>3. EntryInv' BY <1>0, <2>1 DEF vars, EntryInv, Entered, Dead, IdOf
  <2> QED BY <1>2, <2>2, <2>3 DEF IndexInv
<1>4. CASE HeapStep BY <1>2, <1>4, HeapStepKeeps DEF IndexInv
<1>5. ASSUME NEW b \in Backends, index_delete_tuples(b) PROVE IndexInv'
  BY <1>2, <1>5, DeleteTuplesKeeps DEF IndexInv
<1>6. ASSUME NEW b \in Backends, build_index(b) PROVE IndexInv'
  BY <1>2, <1>6, BuildIndexKeeps DEF IndexInv
<1> QED BY <1>3, <1>4, <1>5, <1>6 DEF IndexNext

LEMMA IndexInvariant == ~Truncates => (IndexSpec => []IndexInv)
<1> SUFFICES ASSUME ~Truncates PROVE IndexSpec => []IndexInv OBVIOUS
<1>1. IndexInit => IndexInv BY IndexInitially
<1>2. IndexInv /\ [IndexNext]_indexVars => IndexInv' BY IndexStep
<1> QED BY <1>1, <1>2, PTL DEF IndexSpec

\* A snapshot does not see a dead row.
LEMMA DeadUnseen ==
    ASSUME TypeOK, NEW b \in Backends, snap[b] # NoSnap, NEW row \in Row, Dead(row)
    PROVE  ~Visible(b, row)
<1>1. /\ row.xmax \in clog /\ row.xmax # 0 /\ row.xmax < snap[b].xmin
      /\ xid[b] # 0 => row.xmax < xid[b]
  BY DEF Dead, TypeOK
<1>2. row.xmax \notin {xid[b]} \ {0} BY <1>1 DEF Row, TypeOK
<1>3. xid_view(row.xmax, {xid[b]} \ {0}, clog, snap[b]) = "CommittedAndVisible"
  BY <1>1, <1>2 DEF xid_view, did_commit
<1> QED BY <1>1, <1>3 DEF Visible, visible_mvcc

\* What the invariant says of readers.
LEMMA IndexFinds == ASSUME IndexInv PROVE IndexFindsAll
<1>0. TypeOK /\ EntryInv BY DEF IndexInv
<1>1. ASSUME NEW r \in RowId, file.rows[r].xmin \in Ended, file.rows[r].xmax \notin Ended
      PROVE  IdOf(file.rows, r) \in index \cup skipped
  <2>1. file.rows[r].xmin # 0 BY <1>0, <1>1 DEF Ended, TypeOK
  <2>2. file.rows[r].xmax \in Nat BY <1>0, RowNats DEF TypeOK
  <2>3. ASSUME Dead(file.rows[r]) PROVE FALSE
    <3>1. file.rows[r].xmax \in Running BY <1>1, <2>3 DEF Dead, Ended
    <3>2. PICK c \in Backends : xid[c] = file.rows[r].xmax /\ xid[c] # 0 BY <3>1 DEF Running
    <3>3. file.rows[r].xmax < xid[c] BY <2>3, <3>2 DEF Dead
    <3> QED BY <2>2, <3>2, <3>3
  <2> QED BY <1>0, <2>1, <2>3 DEF EntryInv, Entered
<1>2. ASSUME NEW b \in Backends, snap[b] # NoSnap, NEW r \in Scan(b)
      PROVE  IdOf(Read(b).rows, r) \in index \cup skipped
  <2>1. r \in RowId /\ Read(b).rows[r].xmin # 0 /\ Visible(b, Read(b).rows[r]) BY DEF Scan
  <2>2. Read(b).rows[r] \in Row BY <1>0, <2>1, RowType
  <2>3. ~Dead(Read(b).rows[r]) BY <1>0, <1>2, <2>1, <2>2, DeadUnseen
  <2>4. Entered(Read(b).rows) BY <1>0 DEF EntryInv, Read
  <2> QED BY <2>1, <2>3, <2>4 DEF Entered
<1>3. Table \subseteq index \cup skipped BY <1>1 DEF Table
<1>4. \A b \in Backends : snap[b] # NoSnap =>
          {IdOf(Read(b).rows, r) : r \in Scan(b)} \subseteq index \cup skipped
  BY <1>2
<1> QED BY <1>3, <1>4 DEF IndexFindsAll

\* Every row that a held snapshot sees, or that the next one will see, has its
\* entry, unless the last build left it out: bottom-up deletion takes no entry
\* that anyone needs, for any set of backends and any bounds, with failures in
\* the commit window and VACUUM at once.  TRUNCATE is left out: there Postgres
\* gives the index a new file, which the model does not have.
THEOREM IndexComplete == ~Truncates => (IndexSpec => []IndexFindsAll)
<1>1. IndexInv => IndexFindsAll BY IndexFinds
<1> QED BY <1>1, IndexInvariant, PTL

\* Entries are identities of row versions.
EntriesOK == index \subseteq Id

LEMMA EntriesTyped == IndexSpec => []EntriesOK
<1>1. IndexInit => EntriesOK BY DEF IndexInit, EntriesOK
<1>2. ASSUME TypeOK, TypeOK', index \subseteq Id, [IndexNext]_indexVars PROVE index' \subseteq Id
  <2>1. CASE HeapStep
    <3>1. index' = index \cup UNION {did'[a].ins : a \in Backends} BY <2>1 DEF HeapStep
    <3>2. \A a \in Backends : did'[a].ins \subseteq Id BY <1>2 DEF TypeOK, Did
    <3> QED BY <1>2, <3>1, <3>2
  <2>2. ASSUME NEW b \in Backends, index_delete_tuples(b) PROVE index' \subseteq Id
    BY <1>2, <2>2 DEF index_delete_tuples
  <2>3. ASSUME NEW b \in Backends, build_index(b) PROVE index' \subseteq Id
    <3>1. \A r \in RowId : Read(b).rows[r].xmin # 0 => IdOf(Read(b).rows, r) \in Id
      BY <1>2, ReadType, IdOfType
    <3> QED BY <2>3, <3>1 DEF build_index
  <2>4. CASE UNCHANGED indexVars BY <1>2, <2>4 DEF indexVars
  <2> QED BY <1>2, <2>1, <2>2, <2>3, <2>4 DEF IndexNext
<1>3. TypeOK /\ TypeOK' /\ EntriesOK /\ [IndexNext]_indexVars => EntriesOK'
  BY <1>2 DEF EntriesOK, Id
<1> QED BY <1>1, <1>3, IndexedHeap, TypeCorrect, PTL DEF IndexSpec

\* A fetch through any entry returns a row of the table the snapshot stands for
\* (with the transaction's own) or nothing, and each such row is found through
\* its own entry, hence under its own key, unless the last build left it out.
IndexScanRight ==
    \A b \in Backends : snap[b] # NoSnap =>
        /\ \A e \in index : index_fetch_tuple(b, e) \subseteq Expected(b)
        /\ \A i \in Expected(b) \ skipped : i \in index /\ index_fetch_tuple(b, i) = {i}

\* An index scan finds what a table scan does (ReadsCorrect), less what
\* build_index left out.  It may find a row a second time, through an entry made
\* for an earlier row of the same rowid (IndexExact).
THEOREM IndexScansCorrect ==
    ~Truncates /\ (FailureWindow => ~Vacuums /\ ~XidReuse) => (IndexSpec => []IndexScanRight)
<1> SUFFICES ASSUME ~Truncates, FailureWindow => ~Vacuums /\ ~XidReuse
             PROVE  IndexSpec => []IndexScanRight
  OBVIOUS
<1>1. ASSUME IndexFindsAll, ReadsAsOfSnapshot, EntriesOK PROVE IndexScanRight
  <2> SUFFICES ASSUME NEW b \in Backends, snap[b] # NoSnap
               PROVE  /\ \A e \in index : index_fetch_tuple(b, e) \subseteq Expected(b)
                      /\ \A i \in Expected(b) \ skipped :
                             i \in index /\ index_fetch_tuple(b, i) = {i}
    BY DEF IndexScanRight
  <2>1. {IdOf(Read(b).rows, r) : r \in Scan(b)} = Expected(b) BY <1>1 DEF ReadsAsOfSnapshot
  <2>2. {IdOf(Read(b).rows, r) : r \in Scan(b)} \subseteq index \cup skipped
    BY <1>1 DEF IndexFindsAll
  <2>3. ASSUME NEW e \in index PROVE index_fetch_tuple(b, e) \subseteq Expected(b)
    <3>1. e[1] \in RowId BY <1>1 DEF EntriesOK, Id
    <3>2. fetch_one_into_slot(b, e[1]) => e[1] \in Scan(b)
      BY <3>1 DEF Scan, fetch_one_into_slot
    <3> QED BY <2>1, <3>2 DEF index_fetch_tuple
  <2>4. ASSUME NEW i \in Expected(b) \ skipped
        PROVE  i \in index /\ index_fetch_tuple(b, i) = {i}
    <3>1. PICK r \in Scan(b) : i = IdOf(Read(b).rows, r) BY <2>1, <2>4
    <3>2. i[1] = r BY <3>1 DEF IdOf
    <3>3. fetch_one_into_slot(b, r) BY DEF Scan, fetch_one_into_slot
    <3>4. index_fetch_tuple(b, i) = {i} BY <3>1, <3>2, <3>3 DEF index_fetch_tuple
    <3> QED BY <2>2, <3>1, <3>4
  <2> QED BY <2>3, <2>4
<1> QED BY <1>1, IndexComplete, EntriesTyped, IndexedHeap, ReadsCorrect, PTL
=============================================================================
