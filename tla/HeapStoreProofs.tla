--------------------------- MODULE HeapStoreProofs ---------------------------
(***************************************************************************)
(* Proofs about HeapStore, for any set of backends and any bounds, with    *)
(* crashes, late aborts, VACUUM and TRUNCATE all allowed.  Only one thing  *)
(* is not, from NeverBehind on: a crash that hands out an xid again that   *)
(* the SQLite file knows from a transaction which failed late.             *)
(***************************************************************************)
EXTENDS HeapStore, TLAPS

USE BoundsAssumption DEF Xid, RowId, Cid

-----------------------------------------------------------------------------
(* Types. *)

\* The constant records have their types.
LEMMA ConstantTypes ==
    NoRow \in Row /\ Empty \in Content /\ NoSnap \in Snap /\ NoDid \in Did
BY DEF NoRow, Row, Empty, Content, NoSnap, Snap, NoDid, Did

\* The xids of a stored row are numbers.
LEMMA RowNats ==
    ASSUME NEW c \in Content, NEW r \in RowId
    PROVE  c.rows[r].xmin \in Nat /\ c.rows[r].xmax \in Nat
<1>1. c.rows \in [RowId -> Row] BY DEF Content
<1>2. c.rows[r] \in Row BY <1>1
<1> QED BY <1>2 DEF Row

\* What a connection reads is a file.
LEMMA ReadType ==
    ASSUME TypeOK, NEW b \in Backends
    PROVE  Read(b) \in Content /\ Read(b).rows \in [RowId -> Row]
BY DEF TypeOK, Read, Content

\* The proc array holds xids.
LEMMA RunningType == ASSUME TypeOK PROVE Running \subseteq Xid
BY DEF TypeOK, Running

\* A stored row has an identity.
LEMMA IdOfType ==
    ASSUME NEW rows \in [RowId -> Row], NEW r \in RowId, rows[r].xmin # 0
    PROVE  IdOf(rows, r) \in Id
<1>1. rows[r].xmin \in Xid /\ rows[r].cmin \in Cid BY DEF Row
<1> QED BY <1>1 DEF IdOf, Id

\* The logical table is a set of row identities.
LEMMA TableType == ASSUME TypeOK PROVE Table \subseteq Id
<1> SUFFICES ASSUME NEW q \in RowId, file.rows[q].xmin \in Ended
             PROVE  IdOf(file.rows, q) \in Id
  BY DEF Table
<1>1. file.rows \in [RowId -> Row] BY DEF TypeOK, Content
<1>2. file.rows[q].xmin # 0 BY DEF TypeOK, Ended
<1> QED BY <1>1, <1>2, IdOfType

\* Inserting keeps a storage table well typed.
LEMMA WithNewType ==
    ASSUME TypeOK, NEW b \in Backends, NEW rows \in [RowId -> Row],
           NEW top \in Nat, NEW n \in Nat
    PROVE  WithNew(b, rows, top, n) \in [RowId -> Row]
BY DEF TypeOK, WithNew, Row

\* So does stamping.
LEMMA StampedType ==
    ASSUME TypeOK, NEW b \in Backends, NEW rows \in [RowId -> Row], NEW r \in RowId
    PROVE  Stamped(b, rows, r) \in [RowId -> Row]
BY DEF TypeOK, Stamped, Row

\* And replacing the storage table of a file.
LEMMA WithRowsType ==
    ASSUME NEW c \in Content, NEW rows \in [RowId -> Row]
    PROVE  WithRows(c, rows) \in Content
BY DEF Content, WithRows

\* The identities an insert reports.
LEMMA NewIdsType ==
    ASSUME TypeOK, NEW b \in Backends, xid[b] # 0, NEW n \in Nat,
           NEW top \in 0..(MaxRowid - n)
    PROVE  NewIds(b, top, n) \subseteq Id
BY DEF TypeOK, NewIds, Id

\* The identities a stamp reports.
LEMMA StampedIdsType ==
    ASSUME TypeOK, NEW b \in Backends, NEW rows \in [RowId -> Row], NEW r \in RowId
    PROVE  StampedIds(b, rows, r) \subseteq Id \X Cid
<1>1. CASE rows[r].xmin # 0 /\ rows[r].xmax = 0
  <2>1. IdOf(rows, r) \in Id BY <1>1, IdOfType
  <2>2. cid[b] \in Cid BY DEF TypeOK
  <2> QED BY <1>1, <2>1, <2>2 DEF StampedIds
<1>2. CASE ~(rows[r].xmin # 0 /\ rows[r].xmax = 0)
  BY <1>2 DEF StampedIds
<1> QED BY <1>1, <1>2

\* A SQLite write keeps the types of what it changes.
LEMMA SqliteWriteType ==
    ASSUME TypeOK, NEW b \in Backends, NEW c \in Content, SqliteWrite(b, c)
    PROVE  /\ in_txn' \in [Backends -> BOOLEAN]
           /\ local' \in [Backends -> Content]
           /\ file' \in Content
BY DEF TypeOK, SqliteWrite

\* So does the report to the executor.
LEMMA ReportType ==
    ASSUME TypeOK, NEW b \in Backends, NEW new \in SUBSET Id,
           NEW gone \in SUBSET (Id \X Cid), Report(b, new, gone)
    PROVE  did' \in [Backends -> Did]
<1>1. did[b].ins \subseteq Id /\ did[b].del \subseteq Id \X Cid /\ did[b].clear \in BOOLEAN
  BY DEF TypeOK, Did
<1>2. [ins |-> did[b].ins \cup new, del |-> did[b].del \cup gone,
       clear |-> did[b].clear] \in Did
  BY <1>1 DEF Did
<1> QED BY <1>2 DEF TypeOK, Report

\* Ending transactions keeps every type.
LEMMA ForgetType ==
    ASSUME TypeOK, NEW B, Forget(B), nextXid' \in 1..nextXid, UNCHANGED <<clog, file>>
    PROVE  TypeOK'
<1>1. phase' \in [Backends -> Phases] /\ xid' \in [Backends -> 0..MaxXid]
      /\ cid' \in [Backends -> Cid] /\ spec' \in [Backends -> 0..MaxRowid]
  BY DEF TypeOK, Forget, Phases
<1>2. snap' \in [Backends -> Snap] /\ local' \in [Backends -> Content]
      /\ did' \in [Backends -> Did]
  BY ConstantTypes DEF TypeOK, Forget
<1>3. in_txn' \in [Backends -> BOOLEAN] /\ excl' \in [Backends -> BOOLEAN]
  BY DEF TypeOK, Forget
<1>4. oldest' \in [Backends -> 0..(MaxXid + 1)] /\ base' \in [Backends -> SUBSET Id]
  BY DEF TypeOK, Forget
<1>5. nextXid' \in 1..(MaxXid + 1) BY DEF TypeOK
<1> QED BY <1>1, <1>2, <1>3, <1>4, <1>5 DEF TypeOK

\* A step keeps every type.
LEMMA TypeStep == ASSUME TypeOK, [Next]_vars PROVE TypeOK'
<1>0. CASE UNCHANGED vars BY <1>0 DEF TypeOK, vars
<1>f. UNCHANGED nextXid => nextXid' \in 1..nextXid BY DEF TypeOK
<1>1. CASE Crash BY <1>1, ForgetType DEF Crash, RecoveredXids
<1>2. ASSUME NEW b \in Backends, Begin(b) PROVE TypeOK'
  BY <1>2 DEF TypeOK, Begin, Phases
<1>3. ASSUME NEW b \in Backends, TakeSnapshot(b) PROVE TypeOK'
  <2>1. PICK m \in Running \cup {nextXid} : snap' = [snap EXCEPT ![b] = Snapshot(b, m)]
    BY <1>3 DEF TakeSnapshot
  <2>2. Snapshot(b, m) \in Snap
    <3>1. m \in 0..(MaxXid + 1) /\ nextXid \in 0..(MaxXid + 1)
      BY RunningType DEF TypeOK
    <3>2. Running \ {xid[b]} \in SUBSET Xid BY RunningType
    <3> QED BY <3>1, <3>2 DEF Snapshot, Snap
  <2>3. snap' \in [Backends -> Snap] BY <2>1, <2>2 DEF TypeOK
  <2>4. base' \in [Backends -> SUBSET Id] BY <1>3, TableType DEF TypeOK, TakeSnapshot
  <2> QED BY <1>3, <2>3, <2>4 DEF TypeOK, TakeSnapshot
<1>4. ASSUME NEW b \in Backends, AssignXid(b) PROVE TypeOK'
  BY <1>4 DEF TypeOK, AssignXid
<1>5. ASSUME NEW b \in Backends, NEW keep \in BOOLEAN, NextCommand(b, keep) PROVE TypeOK'
  <2>1. snap' \in [Backends -> Snap]
    BY <1>5, ConstantTypes DEF TypeOK, NextCommand
  <2>2. cid' \in [Backends -> Cid] BY <1>5 DEF TypeOK, NextCommand
  <2> QED BY <1>5, <2>1, <2>2 DEF TypeOK, NextCommand
<1>6. ASSUME NEW b \in Backends, NEW n \in 1..MaxBatch, Insert(b, n) PROVE TypeOK'
  <2>1. PICK top \in 0..(MaxRowid - n) :
           /\ SqliteWrite(b, WithRows(Read(b), WithNew(b, Read(b).rows, top, n)))
           /\ Report(b, NewIds(b, top, n), {})
    BY <1>6 DEF Insert
  <2>2. WithRows(Read(b), WithNew(b, Read(b).rows, top, n)) \in Content
    BY ReadType, WithNewType, WithRowsType
  <2>3. n \in Nat /\ xid[b] # 0 BY <1>6 DEF Insert, Writing
  <2>4. NewIds(b, top, n) \subseteq Id BY <2>3, NewIdsType
  <2>5. did' \in [Backends -> Did] BY <2>1, <2>4, ReportType
  <2> QED BY <1>6, <2>1, <2>2, <2>5, SqliteWriteType DEF TypeOK, Insert, writeUnchanged
<1>7. ASSUME NEW b \in Backends, InsertSpeculative(b) PROVE TypeOK'
  <2>1. PICK top \in 0..(MaxRowid - 1) :
           /\ SqliteWrite(b, WithRows(Read(b), WithNew(b, Read(b).rows, top, 1)))
           /\ Report(b, NewIds(b, top, 1), {})
           /\ spec' = [spec EXCEPT ![b] = top + 1]
    BY <1>7 DEF InsertSpeculative
  <2>2. WithRows(Read(b), WithNew(b, Read(b).rows, top, 1)) \in Content
    BY ReadType, WithNewType, WithRowsType
  <2>3. did' \in [Backends -> Did]
    BY <1>7, <2>1, NewIdsType, ReportType DEF InsertSpeculative, Writing
  <2>4. spec' \in [Backends -> 0..MaxRowid] BY <2>1 DEF TypeOK
  <2> QED BY <1>7, <2>1, <2>2, <2>3, <2>4, SqliteWriteType
          DEF TypeOK, InsertSpeculative, writeUnchanged
<1>8. ASSUME NEW b \in Backends, SpeculationWon(b) PROVE TypeOK'
  BY <1>8 DEF TypeOK, SpeculationWon, writeUnchanged
<1>9. ASSUME NEW b \in Backends, SpeculationLost(b) PROVE TypeOK'
  <2> DEFINE rows == [Read(b).rows EXCEPT ![spec[b]] = NoRow]
  <2>1. rows \in [RowId -> Row] BY ReadType, ConstantTypes
  <2>2. WithRows(Read(b), rows) \in Content BY <2>1, ReadType, WithRowsType
  <2>3. did' \in [Backends -> Did] BY <1>9 DEF TypeOK, Did, SpeculationLost
  <2>4. spec' \in [Backends -> 0..MaxRowid] BY <1>9 DEF TypeOK, SpeculationLost
  <2>5. SqliteWrite(b, WithRows(Read(b), rows)) BY <1>9 DEF SpeculationLost
  <2> QED BY <1>9, <2>2, <2>3, <2>4, <2>5, SqliteWriteType
          DEF TypeOK, SpeculationLost, writeUnchanged
<1>10. ASSUME NEW b \in Backends, NEW r \in RowId, Delete(b, r) PROVE TypeOK'
  <2> DEFINE c == WithRows(Read(b), Stamped(b, Read(b).rows, r))
  <2>1. c \in Content BY ReadType, StampedType, WithRowsType
  <2>2. did' \in [Backends -> Did]
    BY <1>10, ReadType, StampedIdsType, ReportType DEF Delete
  <2>3. SqliteWrite(b, c) BY <1>10 DEF Delete
  <2> QED BY <1>10, <2>1, <2>2, <2>3, SqliteWriteType DEF TypeOK, Delete, writeUnchanged
<1>11. ASSUME NEW b \in Backends, NEW r \in RowId, Update(b, r) PROVE TypeOK'
  <2>1. PICK top \in 0..(MaxRowid - 1) :
           /\ SqliteWrite(b, WithRows(Read(b),
                  WithNew(b, Stamped(b, Read(b).rows, r), top, 1)))
           /\ Report(b, NewIds(b, top, 1), StampedIds(b, Read(b).rows, r))
    BY <1>11 DEF Update, update_row
  <2>2. WithRows(Read(b), WithNew(b, Stamped(b, Read(b).rows, r), top, 1)) \in Content
    <3>1. Stamped(b, Read(b).rows, r) \in [RowId -> Row] BY ReadType, StampedType
    <3>2. WithNew(b, Stamped(b, Read(b).rows, r), top, 1) \in [RowId -> Row]
      BY <3>1, WithNewType
    <3> QED BY <3>2, ReadType, WithRowsType
  <2>3. NewIds(b, top, 1) \subseteq Id BY <1>11, NewIdsType DEF Update, Writing
  <2>4. StampedIds(b, Read(b).rows, r) \subseteq Id \X Cid BY ReadType, StampedIdsType
  <2>5. did' \in [Backends -> Did] BY <2>1, <2>3, <2>4, ReportType
  <2> QED BY <1>11, <2>1, <2>2, <2>5, SqliteWriteType DEF TypeOK, Update, writeUnchanged
<1>12. ASSUME NEW b \in Backends, Truncate(b) PROVE TypeOK'
  <2>1. Empty.rows \in [RowId -> Row] BY ConstantTypes DEF Content
  <2>2. WithRows(Read(b), Empty.rows) \in Content BY <2>1, ReadType, WithRowsType
  <2>3. did' \in [Backends -> Did] BY <1>12 DEF TypeOK, Did, Truncate
  <2>4. base' \in [Backends -> SUBSET Id] BY <1>12, TableType DEF TypeOK, Truncate
  <2>5. SqliteWrite(b, WithRows(Read(b), Empty.rows)) BY <1>12 DEF Truncate
  <2> QED BY <1>12, <2>2, <2>3, <2>4, <2>5, SqliteWriteType DEF TypeOK, Truncate
<1>13. ASSUME NEW b \in Backends, VacuumStart(b) PROVE TypeOK'
  BY <1>13 DEF TypeOK, VacuumStart, Phases
<1>14. ASSUME NEW b \in Backends, VacuumDead(b) PROVE TypeOK'
  <2> DEFINE c == [rows |-> Reaped(Read(b).rows, oldest[b]),
                   last_vacuum_xmin |-> oldest[b]]
  <2>1. Reaped(Read(b).rows, oldest[b]) \in [RowId -> Row]
    BY ReadType, ConstantTypes DEF Reaped
  <2>2. c \in Content BY <2>1 DEF TypeOK, Content
  <2>3. SqliteWrite(b, c) BY <1>14 DEF VacuumDead
  <2> QED BY <1>14, <2>2, <2>3, SqliteWriteType DEF TypeOK, VacuumDead, writeUnchanged
<1>15. ASSUME NEW b \in Backends, PreCommit(b) PROVE TypeOK'
  <2>1. file' \in Content BY <1>15, ReadType DEF PreCommit
  <2>2. local' \in [Backends -> Content] BY <1>15, ConstantTypes DEF TypeOK, PreCommit
  <2> QED BY <1>15, <2>1, <2>2 DEF TypeOK, PreCommit, Phases
<1>16. ASSUME NEW b \in Backends, RecordCommit(b) PROVE TypeOK'
  <2>1. xid[b] \in Xid BY <1>16 DEF TypeOK, RecordCommit
  <2>2. phase' \in [Backends -> Phases] BY <1>16 DEF TypeOK, RecordCommit, Phases
  <2>3. clog' \in SUBSET Xid BY <1>16, <2>1 DEF TypeOK, RecordCommit
  <2> QED BY <1>16, <2>2, <2>3 DEF TypeOK, RecordCommit
<1>17. ASSUME NEW b \in Backends, EndXact(b) PROVE TypeOK'
  BY <1>f, <1>17, ForgetType DEF EndXact
<1>18. ASSUME NEW b \in Backends, Abort(b) PROVE TypeOK'
  BY <1>f, <1>18, ForgetType DEF Abort
<1> QED BY <1>0, <1>1, <1>2, <1>3, <1>4, <1>5, <1>6, <1>7, <1>8, <1>9, <1>10,
           <1>11, <1>12, <1>13, <1>14, <1>15, <1>16, <1>17, <1>18 DEF Next

\* Every state of the relation, its connections and Postgres's bookkeeping has
\* its type: no action leaves the bounds of rowids, xids or watermarks.
THEOREM TypeCorrect == Spec => []TypeOK
<1>1. Init => TypeOK BY ConstantTypes DEF Init, TypeOK, Phases
<1>2. TypeOK /\ [Next]_vars => TypeOK' BY TypeStep
<1> QED BY <1>1, <1>2, PTL DEF Spec

-----------------------------------------------------------------------------
(* Every write callback, and vacuum_dead, leads from what the connection    *)
(* reads to a file whose xids are those already there and the writer's own. *)

Derived(b, c) ==
    /\ c \in Content
    /\ \A r \in RowId : /\ c.rows[r].xmin \in {0, xid[b], Read(b).rows[r].xmin}
                        /\ c.rows[r].xmax \in {0, xid[b], Read(b).rows[r].xmax}

\* A write whose stamps are at or above the watermark it leaves in the file.
AboveMark(b, c) ==
    /\ c.last_vacuum_xmin \in {Read(b).last_vacuum_xmin, oldest[b]}
    /\ Marked(c)

WriteStep(b) ==
    /\ phase[b] \in {"open", "vacuum"}
    /\ \E c \in Content : /\ SqliteWrite(b, c) /\ Derived(b, c)
                          /\ HorizonInv => AboveMark(b, c)
    /\ \A a \in Backends : spec'[a] # 0 => phase[a] = "open"
    /\ UNCHANGED <<nextXid, clog, phase, xid, oldest>>

\* The effect of the two row operators on a row's xids.
LEMMA WithNewXids ==
    ASSUME TypeOK, NEW b \in Backends, NEW rows \in [RowId -> Row],
           NEW top \in Nat, NEW n \in Nat, NEW r \in RowId
    PROVE  /\ WithNew(b, rows, top, n)[r].xmin \in {xid[b], rows[r].xmin}
           /\ WithNew(b, rows, top, n)[r].xmax \in {0, rows[r].xmax}
BY DEF WithNew

\* A stamped row keeps its inserter and gets the stamping transaction's xid.
LEMMA StampedXids ==
    ASSUME TypeOK, NEW b \in Backends, NEW rows \in [RowId -> Row],
           NEW q \in RowId, NEW r \in RowId
    PROVE  /\ Stamped(b, rows, q)[r].xmin = rows[r].xmin
           /\ Stamped(b, rows, q)[r].xmax \in {xid[b], rows[r].xmax}
BY DEF Stamped, Row

\* A write that keeps the watermark, by a transaction running statements.
LEMMA KeepsMark ==
    ASSUME TypeOK, HorizonInv, NEW b \in Backends, phase[b] = "open", xid[b] # 0,
           NEW rows \in [RowId -> Row],
           \A r \in RowId : rows[r].xmax \in {0, xid[b], Read(b).rows[r].xmax}
    PROVE  AboveMark(b, WithRows(Read(b), rows))
<1>1. Marked(Read(b)) /\ Below(Read(b).last_vacuum_xmin) BY DEF HorizonInv, Read
<1>2. Read(b) \in Content BY ReadType
<1>3. WithRows(Read(b), rows).rows = rows
      /\ WithRows(Read(b), rows).last_vacuum_xmin = Read(b).last_vacuum_xmin
  BY <1>2 DEF WithRows, Content
<1>4. xid[b] >= Read(b).last_vacuum_xmin BY <1>1, <1>2 DEF Below, TypeOK, Content
<1>5. ASSUME NEW r \in RowId, rows[r].xmax # 0
      PROVE  rows[r].xmax >= Read(b).last_vacuum_xmin
  BY <1>1, <1>4, <1>5 DEF Marked
<1> QED BY <1>3, <1>5 DEF AboveMark, Marked

\* The writes of SQL statements, once the rows they leave are known.
LEMMA StatementWrites ==
    ASSUME TypeOK, NEW b \in Backends, phase[b] = "open",
           NEW rows \in [RowId -> Row], SqliteWrite(b, WithRows(Read(b), rows)),
           \A r \in RowId : /\ rows[r].xmin \in {0, xid[b], Read(b).rows[r].xmin}
                            /\ rows[r].xmax \in {0, xid[b], Read(b).rows[r].xmax},
           xid[b] # 0,
           \A a \in Backends : spec'[a] # 0 => phase[a] = "open",
           UNCHANGED <<nextXid, clog, phase, xid, oldest>>
    PROVE  WriteStep(b)
<1> DEFINE c == WithRows(Read(b), rows)
<1>1. c \in Content BY ReadType, WithRowsType
<1>2. c.rows = rows BY ReadType DEF WithRows, Content
<1>3. Derived(b, c) BY <1>1, <1>2 DEF Derived
<1>4. HorizonInv => AboveMark(b, c) BY KeepsMark
<1> HIDE DEF c
<1>5. SqliteWrite(b, c) BY DEF c
<1> QED BY <1>1, <1>3, <1>4, <1>5 DEF WriteStep

WriteAction(b) ==
    \/ \E n \in 1..MaxBatch : Insert(b, n)
    \/ InsertSpeculative(b) \/ SpeculationLost(b)
    \/ \E r \in RowId : Delete(b, r) \/ Update(b, r)
    \/ Truncate(b) \/ VacuumDead(b)

\* Every action that writes SQLite is one write of its backend: it keeps all but
\* the rows and the watermark, and what it leaves is accounted for.
LEMMA WriteActions ==
    ASSUME TypeOK, PhaseDiscipline, NEW b \in Backends, WriteAction(b)
    PROVE  WriteStep(b)
<1> DEFINE old == Read(b).rows
           SpecOpen == \A a \in Backends : spec'[a] # 0 => phase[a] = "open"
<1>0. old \in [RowId -> Row] BY ReadType
<1>s. \A a \in Backends : spec[a] # 0 => phase[a] = "open"
  BY DEF PhaseDiscipline
<1>1. ASSUME NEW n \in 1..MaxBatch, Insert(b, n) PROVE WriteStep(b)
  <2>1. PICK top \in 0..(MaxRowid - n) :
           SqliteWrite(b, WithRows(Read(b), WithNew(b, old, top, n)))
    BY <1>1 DEF Insert
  <2>2. WithNew(b, old, top, n) \in [RowId -> Row] BY <1>0, WithNewType
  <2>3. SpecOpen BY <1>1, <1>s DEF Insert
  <2>4. \A q \in RowId : /\ WithNew(b, old, top, n)[q].xmin \in {0, xid[b], old[q].xmin}
                         /\ WithNew(b, old, top, n)[q].xmax \in {0, xid[b], old[q].xmax}
    BY <1>0, WithNewXids
  <2> QED BY <1>1, <2>1, <2>2, <2>3, <2>4, StatementWrites
          DEF Insert, Writing, writeUnchanged
<1>2. ASSUME InsertSpeculative(b) PROVE WriteStep(b)
  <2>1. PICK top \in 0..(MaxRowid - 1) :
           SqliteWrite(b, WithRows(Read(b), WithNew(b, old, top, 1)))
    BY <1>2 DEF InsertSpeculative
  <2>2. WithNew(b, old, top, 1) \in [RowId -> Row] BY <1>0, WithNewType
  <2>3. SpecOpen BY <1>2, <1>s DEF InsertSpeculative, Writing, TypeOK
  <2>4. \A q \in RowId : /\ WithNew(b, old, top, 1)[q].xmin \in {0, xid[b], old[q].xmin}
                         /\ WithNew(b, old, top, 1)[q].xmax \in {0, xid[b], old[q].xmax}
    BY <1>0, WithNewXids
  <2> QED BY <1>2, <2>1, <2>2, <2>3, <2>4, StatementWrites
          DEF InsertSpeculative, Writing, writeUnchanged
<1>3. ASSUME SpeculationLost(b) PROVE WriteStep(b)
  <2> DEFINE rows == [old EXCEPT ![spec[b]] = NoRow]
             c == WithRows(Read(b), rows)
  <2>1. rows \in [RowId -> Row] BY <1>0, ConstantTypes
  <2>2. \A r \in RowId : rows[r].xmin \in {0, old[r].xmin} /\ rows[r].xmax \in {0, old[r].xmax}
    BY <1>0 DEF NoRow
  <2>3. SpecOpen BY <1>3, <1>s DEF SpeculationLost, TypeOK
  <2>4. phase[b] = "open" BY <1>3, <1>s DEF SpeculationLost
  <2>5. c \in Content /\ c.rows = rows
        /\ c.last_vacuum_xmin = Read(b).last_vacuum_xmin
    BY <2>1, ReadType, WithRowsType DEF WithRows, Content
  <2>6. Derived(b, c) BY <2>2, <2>5 DEF Derived
  <2>7. HorizonInv => AboveMark(b, c)
    <3>1. HorizonInv => Marked(Read(b)) BY DEF HorizonInv, Read
    <3> QED BY <3>1, <2>2, <2>5 DEF Marked, AboveMark
  <2>8. SqliteWrite(b, c) BY <1>3 DEF SpeculationLost
  <2> HIDE DEF c
  <2> QED BY <1>3, <2>3, <2>4, <2>5, <2>6, <2>7, <2>8
          DEF WriteStep, SpeculationLost, writeUnchanged
<1>4. ASSUME NEW r \in RowId, Delete(b, r) PROVE WriteStep(b)
  <2>1. SqliteWrite(b, WithRows(Read(b), Stamped(b, old, r))) BY <1>4 DEF Delete
  <2>2. Stamped(b, old, r) \in [RowId -> Row] BY <1>0, StampedType
  <2>3. SpecOpen BY <1>4, <1>s DEF Delete
  <2> QED BY <1>0, <1>4, <2>1, <2>2, <2>3, StampedXids, StatementWrites
          DEF Delete, Writing, writeUnchanged
<1>5. ASSUME NEW r \in RowId, Update(b, r) PROVE WriteStep(b)
  <2> DEFINE mid == Stamped(b, old, r)
  <2>1. PICK top \in 0..(MaxRowid - 1) :
           SqliteWrite(b, WithRows(Read(b), WithNew(b, mid, top, 1)))
    BY <1>5 DEF Update, update_row
  <2>2. mid \in [RowId -> Row] BY <1>0, StampedType
  <2>3. \A q \in RowId : mid[q].xmin = old[q].xmin /\ mid[q].xmax \in {xid[b], old[q].xmax}
    BY <1>0, StampedXids
  <2> HIDE DEF mid
  <2>4. WithNew(b, mid, top, 1) \in [RowId -> Row] BY <2>2, WithNewType
  <2>5. \A q \in RowId : /\ WithNew(b, mid, top, 1)[q].xmin \in {0, xid[b], old[q].xmin}
                         /\ WithNew(b, mid, top, 1)[q].xmax \in {0, xid[b], old[q].xmax}
    BY <2>2, <2>3, WithNewXids
  <2>6. SpecOpen BY <1>5, <1>s DEF Update
  <2> QED BY <1>0, <1>5, <2>1, <2>4, <2>5, <2>6, StatementWrites
          DEF Update, Writing, writeUnchanged
<1>6. ASSUME Truncate(b) PROVE WriteStep(b)
  <2>1. SqliteWrite(b, WithRows(Read(b), Empty.rows)) BY <1>6 DEF Truncate
  <2>2. Empty.rows \in [RowId -> Row]
        /\ \A r \in RowId : Empty.rows[r].xmin = 0 /\ Empty.rows[r].xmax = 0
    BY ConstantTypes DEF Empty, Content, NoRow
  <2>3. SpecOpen BY <1>6, <1>s DEF Truncate
  <2> QED BY <1>6, <2>1, <2>2, <2>3, StatementWrites DEF Truncate, Writing
<1>7. ASSUME VacuumDead(b) PROVE WriteStep(b)
  <2> DEFINE c == [rows |-> Reaped(old, oldest[b]), last_vacuum_xmin |-> oldest[b]]
  <2>1. Reaped(old, oldest[b]) \in [RowId -> Row] BY <1>0, ConstantTypes DEF Reaped
  <2>2. c \in Content BY <2>1 DEF TypeOK, Content
  <2>3. Derived(b, c) BY <1>0, <2>2 DEF Derived, Reaped, NoRow
  <2>4. ASSUME NEW r \in RowId, c.rows[r].xmax # 0 PROVE c.rows[r].xmax >= oldest[b]
    <3>1. c.rows[r] = old[r] /\ ~(old[r].xmax < oldest[b])
      BY <2>4 DEF Reaped, NoRow
    <3>2. old[r] \in Row BY <1>0
    <3>3. old[r].xmax \in Nat BY <3>2 DEF Row
    <3>4. oldest[b] \in Nat BY DEF TypeOK
    <3> QED BY <3>1, <3>3, <3>4
  <2>5. AboveMark(b, c) BY <2>4 DEF AboveMark, Marked
  <2>6. SqliteWrite(b, c) BY <1>7 DEF VacuumDead
  <2>7. SpecOpen BY <1>7, <1>s DEF VacuumDead
  <2> HIDE DEF c
  <2> QED BY <1>7, <2>2, <2>3, <2>5, <2>6, <2>7 DEF WriteStep, VacuumDead, writeUnchanged
<1> QED BY <1>1, <1>2, <1>3, <1>4, <1>5, <1>6, <1>7 DEF WriteAction

-----------------------------------------------------------------------------
(* SQLite is never behind Postgres. *)

\* What a connection reads carries no xid of another open transaction.
LEMMA ReadIsPrivate ==
    ASSUME CommitOrderInv, NEW a \in Backends, NEW b \in Backends, a # b,
           phase[a] = "open", xid[a] # 0
    PROVE  ~Carries(Read(b), xid[a])
BY DEF CommitOrderInv, WritesArePrivate, Read

\* The transactions ended by a crash, an abort or a commit forget everything.
LEMMA ForgetEffects ==
    ASSUME TypeOK, NEW B \in SUBSET Backends, Forget(B), NEW b \in Backends
    PROVE  /\ b \in B => /\ phase'[b] = "idle" /\ xid'[b] = 0 /\ ~in_txn'[b]
                         /\ spec'[b] = 0 /\ local'[b] = Empty
           /\ b \notin B => /\ phase'[b] = phase[b] /\ xid'[b] = xid[b]
                            /\ in_txn'[b] = in_txn[b] /\ spec'[b] = spec[b]
                            /\ local'[b] = local[b]
BY DEF Forget, TypeOK

\* An empty file carries no xid.
LEMMA EmptyRows ==
    /\ Empty.rows \in [RowId -> Row]
    /\ \A r \in RowId : Empty.rows[r].xmin = 0 /\ Empty.rows[r].xmax = 0
BY ConstantTypes DEF Empty, Content, NoRow

\* Xids are handed out once at a time and commit records come last, whatever a
\* crash does to the counter: this much needs nothing about the file.
LEMMA XactsStep ==
    ASSUME TypeOK, XidsIssued, PhaseDiscipline, [Next]_vars
    PROVE  XidsIssued' /\ PhaseDiscipline'
<1>0. ASSUME UNCHANGED <<nextXid, clog, phase, xid, in_txn, spec>>
      PROVE  XidsIssued' /\ PhaseDiscipline'
  BY <1>0 DEF XidsIssued, PhaseDiscipline
<1>1. CASE UNCHANGED vars BY <1>0, <1>1 DEF vars
<1>z. 0 \notin clog /\ 0 < nextXid /\ nextXid \in Nat BY DEF TypeOK
<1>f. ASSUME NEW B \in SUBSET Backends, Forget(B), UNCHANGED clog,
             nextXid' \in Nat, 0 < nextXid', \A x \in clog : x < nextXid',
             \A b \in Backends \ B : xid[b] < nextXid'
      PROVE  XidsIssued' /\ PhaseDiscipline'
  <2>1. \A b \in Backends :
          /\ b \in B => phase'[b] = "idle" /\ xid'[b] = 0 /\ ~in_txn'[b] /\ spec'[b] = 0
          /\ b \notin B => /\ phase'[b] = phase[b] /\ xid'[b] = xid[b]
                           /\ in_txn'[b] = in_txn[b] /\ spec'[b] = spec[b]
    BY <1>f, ForgetEffects
  <2>2. XidsIssued' BY <1>f, <2>1 DEF XidsIssued
  <2>3. PhaseDiscipline' BY <1>f, <1>z, <2>1 DEF PhaseDiscipline
  <2> QED BY <2>2, <2>3
<1>2. CASE Crash
  <2>1. /\ Forget(Backends) /\ UNCHANGED clog
        /\ nextXid' \in 1..nextXid /\ \A x \in clog : x < nextXid'
    BY <1>2 DEF Crash, RecoveredXids
  <2>2. nextXid' \in Nat /\ 0 < nextXid' BY <2>1, <1>z
  <2> QED BY <1>f, <2>1, <2>2
<1>3. ASSUME NEW b \in Backends, Begin(b) \/ VacuumStart(b)
      PROVE  XidsIssued' /\ PhaseDiscipline'
  <2>1. /\ UNCHANGED <<nextXid, clog, xid, in_txn, spec>>
        /\ phase[b] = "idle"
        /\ \E p \in {"open", "vacuum"} : phase' = [phase EXCEPT ![b] = p]
    BY <1>3 DEF Begin, VacuumStart
  <2>2. xid[b] = 0 /\ ~in_txn[b] /\ spec[b] = 0 /\ xid[b] \notin clog
    BY <2>1 DEF PhaseDiscipline, TypeOK
  <2>3. XidsIssued' BY <2>1 DEF XidsIssued
  <2>4. PhaseDiscipline' BY <2>1, <2>2 DEF PhaseDiscipline, TypeOK
  <2> QED BY <2>3, <2>4
<1>4. ASSUME NEW b \in Backends, TakeSnapshot(b) \/ \E keep \in BOOLEAN : NextCommand(b, keep)
      PROVE  XidsIssued' /\ PhaseDiscipline'
  BY <1>0, <1>4 DEF TakeSnapshot, NextCommand
<1>5. ASSUME NEW b \in Backends, AssignXid(b) PROVE XidsIssued' /\ PhaseDiscipline'
  <2>1. /\ UNCHANGED <<clog, phase, in_txn, spec>>
        /\ phase[b] = "open" /\ xid' = [xid EXCEPT ![b] = nextXid]
        /\ nextXid' = nextXid + 1
    BY <1>5 DEF AssignXid
  <2>2. nextXid \notin clog /\ nextXid # 0 BY <1>z DEF XidsIssued, TypeOK
  <2>3. \A x \in Nat : x < nextXid => x < nextXid + 1 BY <1>z
  <2>4. \A a \in Backends : xid[a] \in Nat BY DEF TypeOK
  <2>5. (\A x \in clog : x < nextXid)' BY <2>1, <2>3 DEF XidsIssued, TypeOK
  <2>6. (\A a \in Backends : xid[a] < nextXid)'
    BY <1>z, <2>1, <2>3, <2>4 DEF XidsIssued, TypeOK
  <2>7. (\A a, c \in Backends : xid[a] = xid[c] /\ xid[a] # 0 => a = c)'
    BY <1>z, <2>1, <2>4 DEF XidsIssued, TypeOK
  <2>8. PhaseDiscipline' BY <2>1, <2>2 DEF PhaseDiscipline, TypeOK
  <2> QED BY <2>5, <2>6, <2>7, <2>8 DEF XidsIssued
<1>6. ASSUME NEW b \in Backends, WriteAction(b) PROVE XidsIssued' /\ PhaseDiscipline'
  <2>1. WriteStep(b) BY <1>6, WriteActions
  <2>2. in_txn' = [in_txn EXCEPT ![b] = TRUE] BY <2>1 DEF WriteStep, SqliteWrite
  <2>3. XidsIssued' BY <2>1 DEF XidsIssued, WriteStep
  <2>4. PhaseDiscipline' BY <2>1, <2>2 DEF PhaseDiscipline, WriteStep, TypeOK
  <2> QED BY <2>3, <2>4
<1>7. ASSUME NEW b \in Backends, SpeculationWon(b) PROVE XidsIssued' /\ PhaseDiscipline'
  <2>1. UNCHANGED <<nextXid, clog, phase, xid, in_txn>> /\ spec' = [spec EXCEPT ![b] = 0]
    BY <1>7 DEF SpeculationWon, writeUnchanged
  <2>2. PhaseDiscipline' BY <2>1 DEF PhaseDiscipline, TypeOK
  <2> QED BY <2>1, <2>2 DEF XidsIssued
<1>8. ASSUME NEW b \in Backends, PreCommit(b) PROVE XidsIssued' /\ PhaseDiscipline'
  <2>1. /\ UNCHANGED <<nextXid, clog, xid, spec>>
        /\ in_txn' = [in_txn EXCEPT ![b] = FALSE]
        /\ phase' = [phase EXCEPT ![b] = "precommit"]
        /\ phase[b] \in {"open", "vacuum"} /\ (phase[b] = "open" => spec[b] = 0)
    BY <1>8 DEF PreCommit
  <2>2. PhaseDiscipline' BY <2>1 DEF PhaseDiscipline, TypeOK
  <2> QED BY <2>1, <2>2 DEF XidsIssued
<1>9. ASSUME NEW b \in Backends, RecordCommit(b) PROVE XidsIssued' /\ PhaseDiscipline'
  <2>1. /\ UNCHANGED <<nextXid, xid, in_txn, spec>>
        /\ phase[b] = "precommit" /\ xid[b] # 0 /\ clog' = clog \cup {xid[b]}
        /\ phase' = [phase EXCEPT ![b] = "recorded"]
    BY <1>9 DEF RecordCommit
  <2>2. XidsIssued' BY <2>1 DEF XidsIssued
  <2>3. PhaseDiscipline' BY <2>1 DEF PhaseDiscipline, XidsIssued, TypeOK
  <2> QED BY <2>2, <2>3
<1>10. ASSUME NEW b \in Backends, EndXact(b) \/ Abort(b) PROVE XidsIssued' /\ PhaseDiscipline'
  <2>1. Forget({b}) /\ UNCHANGED <<nextXid, clog>> BY <1>10 DEF EndXact, Abort
  <2> QED BY <1>f, <1>z, <2>1 DEF XidsIssued
<1> QED BY <1>1, <1>2, <1>3, <1>4, <1>5, <1>6, <1>7, <1>8, <1>9, <1>10
        DEF Next, WriteAction

\* A crash does not hand out an xid again that a late failure left in the file.
NoAdoption == FailureWindow => ~XidReuse

\* Explained in the next state, for a value.
ExplainedAfter(x) == \/ x = 0 \/ x \in clog'
                     \/ \E b \in Backends : phase'[b] = "precommit" /\ xid'[b] = x

\* A write keeps the order: the new xids are the writer's own, and stay in its
\* SQLite transaction.
LEMMA CommitOrderWrite ==
    ASSUME TypeOK, CommitOrderInv, NEW b \in Backends, WriteStep(b)
    PROVE  XidsStored' /\ XidsExplained' /\ WritesArePrivate'
<1>1. PICK c \in Content : SqliteWrite(b, c) /\ Derived(b, c) BY DEF WriteStep
<1>2. \A r \in RowId : Read(b).rows[r].xmin < nextXid /\ Read(b).rows[r].xmax < nextXid
  BY DEF CommitOrderInv, XidsStored, Read
<1>3. xid[b] < nextXid /\ 0 < nextXid BY DEF CommitOrderInv, XidsIssued, TypeOK
<1>4. \A r \in RowId : c.rows[r].xmin < nextXid /\ c.rows[r].xmax < nextXid
  BY <1>1, <1>2, <1>3 DEF Derived
<1>5. local' = [local EXCEPT ![b] = c] /\ file' = file
      /\ in_txn' = [in_txn EXCEPT ![b] = TRUE]
  BY <1>1 DEF SqliteWrite
<1>6. XidsStored' BY <1>4, <1>5 DEF CommitOrderInv, XidsStored, WriteStep, TypeOK
<1>7. XidsExplained'
  <2>0. SUFFICES ASSUME ~FailureWindow, NEW r \in RowId
        PROVE /\ ExplainedAfter(file'.rows[r].xmin) /\ ExplainedAfter(file'.rows[r].xmax)
              /\ \A a \in Backends : in_txn'[a] =>
                    /\ local'[a].rows[r].xmin = xid'[a] \/ ExplainedAfter(local'[a].rows[r].xmin)
                    /\ local'[a].rows[r].xmax = xid'[a] \/ ExplainedAfter(local'[a].rows[r].xmax)
    BY DEF XidsExplained, Explained, ExplainedAfter
  <2>1. \A x : Explained(x) => ExplainedAfter(x)
    BY DEF Explained, ExplainedAfter, WriteStep
  <2>2. xid' = xid BY DEF WriteStep
  <2>3. /\ Explained(file.rows[r].xmin) /\ Explained(file.rows[r].xmax)
        /\ \A a \in Backends : in_txn[a] =>
              /\ local[a].rows[r].xmin = xid[a] \/ Explained(local[a].rows[r].xmin)
              /\ local[a].rows[r].xmax = xid[a] \/ Explained(local[a].rows[r].xmax)
    BY <2>0 DEF CommitOrderInv, XidsExplained
  <2>4. /\ Read(b).rows[r].xmin = xid[b] \/ Explained(Read(b).rows[r].xmin)
        /\ Read(b).rows[r].xmax = xid[b] \/ Explained(Read(b).rows[r].xmax)
    BY <2>3 DEF Read
  <2>5. Explained(0) BY DEF Explained
  <2>6. /\ c.rows[r].xmin = xid[b] \/ Explained(c.rows[r].xmin)
        /\ c.rows[r].xmax = xid[b] \/ Explained(c.rows[r].xmax)
    BY <1>1, <2>4, <2>5 DEF Derived
  <2>7. /\ local'[b] = c
        /\ \A a \in Backends : a # b => local'[a] = local[a] /\ in_txn'[a] = in_txn[a]
    BY <1>5 DEF TypeOK
  <2> QED BY <1>5, <2>1, <2>2, <2>3, <2>6, <2>7
<1>8. WritesArePrivate'
  <2> SUFFICES ASSUME NEW a \in Backends, phase[a] = "open", xid[a] # 0
               PROVE  /\ ~Carries(file, xid[a])
                      /\ \A d \in Backends \ {a} : in_txn'[d] => ~Carries(local'[d], xid[a])
    BY <1>5 DEF WritesArePrivate, WriteStep, Carries
  <2>1. ~Carries(file, xid[a]) BY DEF CommitOrderInv, WritesArePrivate
  <2>2. ASSUME NEW d \in Backends \ {a}, in_txn'[d] PROVE ~Carries(local'[d], xid[a])
    <3>1. CASE d = b
      <4>1. xid[b] # xid[a] BY <3>1 DEF CommitOrderInv, XidsIssued
      <4>2. ~Carries(Read(b), xid[a]) BY <3>1, ReadIsPrivate
      <4>3. ~Carries(c, xid[a]) BY <1>1, <4>1, <4>2 DEF Derived, Carries
      <4> QED BY <1>5, <3>1, <4>3 DEF TypeOK
    <3>2. CASE d # b
      <4>1. in_txn[d] /\ local'[d] = local[d] BY <1>5, <2>2, <3>2 DEF TypeOK
      <4> QED BY <4>1 DEF CommitOrderInv, WritesArePrivate
    <3> QED BY <3>1, <3>2
  <2> QED BY <2>1, <2>2
<1> QED BY <1>6, <1>7, <1>8

\* So does ending transactions, if what is in the file stays below the counter
\* and none of them is left between the two commits.
LEMMA CommitOrderForget ==
    ASSUME TypeOK, CommitOrderInv, NEW B \in SUBSET Backends, Forget(B),
           UNCHANGED <<clog, file>>, nextXid' \in Nat, 0 < nextXid',
           \A r \in RowId : file.rows[r].xmin < nextXid' /\ file.rows[r].xmax < nextXid',
           B # Backends => nextXid' = nextXid,
           ~FailureWindow => \A b \in B : phase[b] = "precommit" => xid[b] = 0
    PROVE  XidsStored' /\ XidsExplained' /\ WritesArePrivate'
<1>1. \A b \in Backends :
         /\ b \in B => /\ phase'[b] = "idle" /\ xid'[b] = 0 /\ ~in_txn'[b]
                       /\ spec'[b] = 0 /\ local'[b] = Empty
         /\ b \notin B => /\ phase'[b] = phase[b] /\ xid'[b] = xid[b]
                          /\ in_txn'[b] = in_txn[b] /\ spec'[b] = spec[b]
                          /\ local'[b] = local[b]
  BY ForgetEffects
<1>2. XidsStored'
  <2>1. ASSUME NEW b \in Backends, NEW r \in RowId
        PROVE  local'[b].rows[r].xmin < nextXid' /\ local'[b].rows[r].xmax < nextXid'
    <3>1. CASE b \in B BY <1>1, <3>1, EmptyRows
    <3>2. CASE b \notin B
      <4>1. nextXid' = nextXid /\ local'[b] = local[b] BY <1>1, <3>2
      <4> QED BY <4>1 DEF CommitOrderInv, XidsStored
    <3> QED BY <3>1, <3>2
  <2> QED BY <2>1 DEF XidsStored
<1>3. XidsExplained'
  <2>0. SUFFICES ASSUME ~FailureWindow, NEW r \in RowId
        PROVE /\ ExplainedAfter(file'.rows[r].xmin) /\ ExplainedAfter(file'.rows[r].xmax)
              /\ \A a \in Backends : in_txn'[a] =>
                    /\ local'[a].rows[r].xmin = xid'[a] \/ ExplainedAfter(local'[a].rows[r].xmin)
                    /\ local'[a].rows[r].xmax = xid'[a] \/ ExplainedAfter(local'[a].rows[r].xmax)
    BY DEF XidsExplained, Explained, ExplainedAfter
  <2>1. ASSUME NEW x, Explained(x) PROVE ExplainedAfter(x)
    <3>1. CASE x = 0 \/ x \in clog BY <3>1 DEF ExplainedAfter
    <3>2. CASE x # 0 /\ \E b \in Backends : phase[b] = "precommit" /\ xid[b] = x
      <4>1. PICK b \in Backends : phase[b] = "precommit" /\ xid[b] = x BY <3>2
      <4>2. b \notin B BY <2>0, <3>2, <4>1
      <4> QED BY <1>1, <4>1, <4>2 DEF ExplainedAfter
    <3> QED BY <2>1, <3>1, <3>2 DEF Explained
  <2>2. /\ Explained(file.rows[r].xmin) /\ Explained(file.rows[r].xmax)
        /\ \A a \in Backends : in_txn[a] =>
              /\ local[a].rows[r].xmin = xid[a] \/ Explained(local[a].rows[r].xmin)
              /\ local[a].rows[r].xmax = xid[a] \/ Explained(local[a].rows[r].xmax)
    BY <2>0 DEF CommitOrderInv, XidsExplained
  <2>3. \A a \in Backends : in_txn'[a] =>
            in_txn[a] /\ local'[a] = local[a] /\ xid'[a] = xid[a]
    BY <1>1
  <2> QED BY <2>1, <2>2, <2>3
<1>4. WritesArePrivate' BY <1>1 DEF CommitOrderInv, WritesArePrivate, Carries
<1> QED BY <1>2, <1>3, <1>4

\* A step keeps the commit order: one case per action.
LEMMA CommitOrderStep ==
    ASSUME TypeOK, CommitOrderInv, NoAdoption, [Next]_vars PROVE CommitOrderInv'
<1> DEFINE Goal == XidsStored' /\ XidsExplained' /\ WritesArePrivate'
<1>x. XidsIssued' /\ PhaseDiscipline' BY XactsStep DEF CommitOrderInv
<1>g. Goal => CommitOrderInv' BY <1>x DEF CommitOrderInv
<1>n. /\ nextXid \in Nat /\ 0 < nextXid
      /\ \A r \in RowId : file.rows[r].xmin < nextXid /\ file.rows[r].xmax < nextXid
  BY DEF CommitOrderInv, XidsStored, TypeOK
<1>0. ASSUME UNCHANGED <<nextXid, clog, phase, xid, in_txn, local, file>> PROVE Goal
  BY <1>0 DEF CommitOrderInv, XidsStored, XidsExplained, Explained, WritesArePrivate, Carries
<1>1. UNCHANGED vars => Goal BY <1>0 DEF vars
<1>2. ASSUME Crash PROVE Goal
  <2>1. /\ Forget(Backends) /\ UNCHANGED <<clog, file>>
        /\ nextXid' \in 1..nextXid /\ \A x \in clog : x < nextXid'
        /\ XidReuse \/ Unknown(nextXid')
        /\ FailureWindow \/ \A b \in Backends : phase[b] = "precommit" => xid[b] = 0
    BY <1>2 DEF Crash, RecoveredXids
  <2>2. nextXid' \in Nat /\ 0 < nextXid' BY <1>n, <2>1
  <2>3. ASSUME NEW r \in RowId
        PROVE  file.rows[r].xmin < nextXid' /\ file.rows[r].xmax < nextXid'
    <3>1. CASE Unknown(nextXid') BY <3>1 DEF Unknown
    <3>2. CASE XidReuse
      <4>1. ~FailureWindow BY <3>2 DEF NoAdoption
      <4>2. Explained(file.rows[r].xmin) /\ Explained(file.rows[r].xmax)
        BY <4>1 DEF CommitOrderInv, XidsExplained
      <4>3. \A x : Explained(x) => x = 0 \/ x \in clog
        BY <2>1, <4>1 DEF Explained
      <4> QED BY <2>1, <2>2, <4>2, <4>3
    <3> QED BY <2>1, <3>1, <3>2
  <2> QED BY <2>1, <2>2, <2>3, CommitOrderForget
<1>3. ASSUME NEW b \in Backends, Begin(b) \/ VacuumStart(b) PROVE Goal
  <2>1. /\ UNCHANGED <<nextXid, clog, xid, in_txn, local, file>>
        /\ phase[b] = "idle"
        /\ \E p \in {"open", "vacuum"} : phase' = [phase EXCEPT ![b] = p]
    BY <1>3 DEF Begin, VacuumStart
  <2>2. xid[b] = 0 BY <2>1 DEF CommitOrderInv, PhaseDiscipline
  <2>3. XidsStored' BY <2>1 DEF CommitOrderInv, XidsStored
  <2>4. \A a \in Backends : phase[a] = "precommit" => phase'[a] = "precommit"
    BY <2>1 DEF TypeOK
  <2>5. XidsExplained'
    BY <2>1, <2>4 DEF CommitOrderInv, XidsExplained, Explained
  <2>6. WritesArePrivate'
    BY <2>1, <2>2 DEF CommitOrderInv, WritesArePrivate, Carries, TypeOK
  <2> QED BY <2>3, <2>5, <2>6
<1>4. ASSUME NEW b \in Backends, TakeSnapshot(b) \/ \E keep \in BOOLEAN : NextCommand(b, keep)
      PROVE  Goal
  BY <1>0, <1>4 DEF TakeSnapshot, NextCommand
<1>5. ASSUME NEW b \in Backends, AssignXid(b) PROVE Goal
  <2>1. /\ UNCHANGED <<clog, phase, in_txn, local, file>>
        /\ phase[b] = "open" /\ xid' = [xid EXCEPT ![b] = nextXid]
        /\ nextXid' = nextXid + 1 /\ xid[b] = 0
    BY <1>5 DEF AssignXid
  <2>p. xid'[b] = nextXid /\ \A a \in Backends : a # b => xid'[a] = xid[a]
    BY <2>1 DEF TypeOK
  <2>3. XidsStored'
    <3>1. \A x \in Nat : x < nextXid => x < nextXid + 1 BY <1>n
    <3>2. ASSUME NEW c \in Content, NEW r \in RowId
          PROVE  c.rows[r].xmin \in Nat /\ c.rows[r].xmax \in Nat
      BY RowNats
    <3>3. file \in Content /\ \A a \in Backends : local[a] \in Content BY DEF TypeOK
    <3>4. (\A r \in RowId : file.rows[r].xmin < nextXid /\ file.rows[r].xmax < nextXid)'
      BY <2>1, <3>1, <3>2, <3>3 DEF CommitOrderInv, XidsStored
    <3>5. (\A a \in Backends, r \in RowId :
              local[a].rows[r].xmin < nextXid /\ local[a].rows[r].xmax < nextXid)'
      BY <2>1, <3>1, <3>2, <3>3 DEF CommitOrderInv, XidsStored
    <3> QED BY <3>4, <3>5 DEF XidsStored
  <2>4. XidsExplained'
    <3>0. SUFFICES ASSUME ~FailureWindow, NEW r \in RowId
          PROVE /\ ExplainedAfter(file'.rows[r].xmin) /\ ExplainedAfter(file'.rows[r].xmax)
                /\ \A a \in Backends : in_txn'[a] =>
                      /\ local'[a].rows[r].xmin = xid'[a] \/ ExplainedAfter(local'[a].rows[r].xmin)
                      /\ local'[a].rows[r].xmax = xid'[a] \/ ExplainedAfter(local'[a].rows[r].xmax)
      BY DEF XidsExplained, Explained, ExplainedAfter
    <3>1. \A x : Explained(x) => ExplainedAfter(x)
      BY <2>1, <2>p DEF Explained, ExplainedAfter
    <3>2. /\ Explained(file.rows[r].xmin) /\ Explained(file.rows[r].xmax)
          /\ \A a \in Backends : in_txn[a] =>
                /\ local[a].rows[r].xmin = xid[a] \/ Explained(local[a].rows[r].xmin)
                /\ local[a].rows[r].xmax = xid[a] \/ Explained(local[a].rows[r].xmax)
      BY <3>0 DEF CommitOrderInv, XidsExplained
    <3>3. ExplainedAfter(0) BY DEF ExplainedAfter
    <3> QED BY <2>1, <2>p, <3>1, <3>2, <3>3
  <2>5. ~Carries(file, nextXid) /\ \A a \in Backends : ~Carries(local[a], nextXid)
    BY <1>n DEF CommitOrderInv, XidsStored, Carries
  <2>6. WritesArePrivate'
    BY <2>1, <2>5 DEF CommitOrderInv, WritesArePrivate, Carries, TypeOK
  <2> QED BY <2>3, <2>4, <2>6
<1>6. ASSUME NEW b \in Backends, WriteAction(b) PROVE Goal
  BY <1>6, WriteActions, CommitOrderWrite DEF CommitOrderInv
<1>7. ASSUME NEW b \in Backends, SpeculationWon(b) PROVE Goal
  BY <1>0, <1>7 DEF SpeculationWon, writeUnchanged
<1>8. ASSUME NEW b \in Backends, PreCommit(b) PROVE Goal
  <2>1. /\ UNCHANGED <<nextXid, clog, xid, spec>>
        /\ file' = Read(b) /\ local' = [local EXCEPT ![b] = Empty]
        /\ in_txn' = [in_txn EXCEPT ![b] = FALSE]
        /\ phase' = [phase EXCEPT ![b] = "precommit"]
        /\ phase[b] \in {"open", "vacuum"} /\ (phase[b] = "open" => spec[b] = 0)
    BY <1>8 DEF PreCommit
  <2>2. \A r \in RowId : Read(b).rows[r].xmin < nextXid /\ Read(b).rows[r].xmax < nextXid
    BY DEF CommitOrderInv, XidsStored, Read
  <2>3. XidsStored' BY <1>n, <2>1, <2>2, EmptyRows DEF CommitOrderInv, XidsStored, TypeOK
  <2>4. XidsExplained'
    <3>0. SUFFICES ASSUME ~FailureWindow, NEW r \in RowId
          PROVE /\ ExplainedAfter(file'.rows[r].xmin) /\ ExplainedAfter(file'.rows[r].xmax)
                /\ \A a \in Backends : in_txn'[a] =>
                      /\ local'[a].rows[r].xmin = xid'[a] \/ ExplainedAfter(local'[a].rows[r].xmin)
                      /\ local'[a].rows[r].xmax = xid'[a] \/ ExplainedAfter(local'[a].rows[r].xmax)
      BY DEF XidsExplained, Explained, ExplainedAfter
    <3>1. \A a \in Backends : phase[a] = "precommit" => phase'[a] = "precommit"
      BY <2>1 DEF TypeOK
    <3>2. \A x : Explained(x) => ExplainedAfter(x)
      BY <2>1, <3>1 DEF Explained, ExplainedAfter
    <3>3. phase'[b] = "precommit" BY <2>1 DEF TypeOK
    <3>4. ExplainedAfter(xid[b]) BY <2>1, <3>3 DEF ExplainedAfter
    <3>5. /\ Explained(file.rows[r].xmin) /\ Explained(file.rows[r].xmax)
          /\ \A a \in Backends : in_txn[a] =>
                /\ local[a].rows[r].xmin = xid[a] \/ Explained(local[a].rows[r].xmin)
                /\ local[a].rows[r].xmax = xid[a] \/ Explained(local[a].rows[r].xmax)
      BY <3>0 DEF CommitOrderInv, XidsExplained
    <3>6. ExplainedAfter(Read(b).rows[r].xmin) /\ ExplainedAfter(Read(b).rows[r].xmax)
      BY <3>2, <3>4, <3>5 DEF Read
    <3>7. \A a \in Backends : in_txn'[a] => in_txn[a] /\ local'[a] = local[a]
      BY <2>1 DEF TypeOK
    <3> QED BY <2>1, <3>2, <3>5, <3>6, <3>7
  <2>5. ASSUME NEW a \in Backends, phase'[a] = "open", xid[a] # 0
        PROVE  /\ ~Carries(file', xid[a])
               /\ \A d \in Backends \ {a} : in_txn'[d] => ~Carries(local'[d], xid[a])
    <3>1. a # b /\ phase[a] = "open" BY <2>1, <2>5 DEF TypeOK
    <3>2. ~Carries(file', xid[a]) BY <2>1, <2>5, <3>1, ReadIsPrivate
    <3>3. ASSUME NEW d \in Backends \ {a}, in_txn'[d] PROVE ~Carries(local'[d], xid[a])
      <4>1. d # b /\ in_txn[d] /\ local'[d] = local[d] BY <2>1, <3>3 DEF TypeOK
      <4> QED BY <2>5, <3>1, <4>1 DEF CommitOrderInv, WritesArePrivate
    <3> QED BY <3>2, <3>3
  <2>6. WritesArePrivate' BY <2>1, <2>5 DEF WritesArePrivate, Carries
  <2> QED BY <2>3, <2>4, <2>6
<1>9. ASSUME NEW b \in Backends, RecordCommit(b) PROVE Goal
  <2>1. /\ UNCHANGED <<nextXid, xid, in_txn, local, file>>
        /\ phase[b] = "precommit" /\ xid[b] # 0 /\ clog' = clog \cup {xid[b]}
        /\ phase' = [phase EXCEPT ![b] = "recorded"]
    BY <1>9 DEF RecordCommit
  <2>2. XidsStored' BY <2>1 DEF CommitOrderInv, XidsStored
  <2>3. \A a \in Backends : phase[a] = "precommit" =>
            phase'[a] = "precommit" \/ xid[a] \in clog'
    BY <2>1 DEF TypeOK
  <2>4. XidsExplained'
    <3>1. \A x : Explained(x) => ExplainedAfter(x)
      BY <2>1, <2>3 DEF Explained, ExplainedAfter
    <3>2. SUFFICES ASSUME ~FailureWindow, NEW r \in RowId
          PROVE /\ ExplainedAfter(file.rows[r].xmin) /\ ExplainedAfter(file.rows[r].xmax)
                /\ \A a \in Backends : in_txn[a] =>
                      /\ local[a].rows[r].xmin = xid[a] \/ ExplainedAfter(local[a].rows[r].xmin)
                      /\ local[a].rows[r].xmax = xid[a] \/ ExplainedAfter(local[a].rows[r].xmax)
      BY <2>1 DEF XidsExplained, Explained, ExplainedAfter
    <3> QED BY <3>1, <3>2 DEF CommitOrderInv, XidsExplained
  <2>5. WritesArePrivate' BY <2>1 DEF CommitOrderInv, WritesArePrivate, Carries, TypeOK
  <2> QED BY <2>2, <2>4, <2>5
<1>10. ASSUME NEW b \in Backends, EndXact(b) \/ Abort(b) PROVE Goal
  <2>1. /\ Forget({b}) /\ UNCHANGED <<nextXid, clog, file>>
        /\ ~FailureWindow => (phase[b] = "precommit" => xid[b] = 0)
    BY <1>10 DEF EndXact, Abort
  <2> QED BY <1>n, <2>1, CommitOrderForget
<1> QED BY <1>g, <1>1, <1>2, <1>3, <1>4, <1>5, <1>6, <1>7, <1>8, <1>9, <1>10
        DEF Next, WriteAction

\* The commit order is what SqliteNeverBehind says, and more.
LEMMA CommitOrderImplies == ASSUME TypeOK, CommitOrderInv PROVE SqliteNeverBehind
<1>1. \A b \in Backends : in_txn[b] => xid[b] \notin clog
  BY DEF CommitOrderInv, PhaseDiscipline
<1> QED BY <1>1 DEF CommitOrderInv, WritesArePrivate, Carries, SqliteNeverBehind

\* The commit order holds at the start, before there is any xid.
LEMMA CommitOrderInit == ASSUME Init PROVE CommitOrderInv
BY DEF Init, CommitOrderInv, XidsIssued, XidsStored, XidsExplained, Explained,
       PhaseDiscipline, WritesArePrivate, Carries, Empty, NoRow

\* However backends interleave and whenever they fail, the SQLite file never
\* lacks a write of a transaction whose commit record exists, and never holds
\* one of a transaction still running statements: committing SQLite in the
\* PreCommit callback keeps both orders, unless a crash hands out the xid of a
\* late failure again.
THEOREM NeverBehind ==
    (FailureWindow => ~XidReuse) => (Spec => []SqliteNeverBehind)
<1> SUFFICES ASSUME NoAdoption PROVE Spec => []SqliteNeverBehind BY DEF NoAdoption
<1>1. Init => CommitOrderInv BY CommitOrderInit
<1>2. TypeOK /\ CommitOrderInv /\ [Next]_vars => CommitOrderInv' BY CommitOrderStep
<1>3. TypeOK /\ CommitOrderInv => SqliteNeverBehind BY CommitOrderImplies
<1> QED BY <1>1, <1>2, <1>3, TypeCorrect, PTL DEF Spec

-----------------------------------------------------------------------------
(* The VACUUM watermark. *)

\* Below(o) in the next state, for a value o.
BelowAfter(o) ==
    /\ o <= nextXid'
    /\ \A b \in Backends : xid'[b] # 0 /\ phase'[b] = "open" => o <= xid'[b]

\* HorizonInv after a step, from its parts with xid, phase and nextXid primed.
LEMMA HorizonAfter ==
    ASSUME Marked(file') /\ BelowAfter(file'.last_vacuum_xmin),
           \A b \in Backends : Marked(local'[b]) /\ BelowAfter(local'[b].last_vacuum_xmin),
           \A b \in Backends : BelowAfter(oldest'[b])
    PROVE  HorizonInv'
BY DEF HorizonInv, Marked, Below, BelowAfter

\* A write stamps rows with an xid no watermark has passed.
LEMMA HorizonWrite ==
    ASSUME TypeOK, HorizonInv, NEW b \in Backends, WriteStep(b)
    PROVE  HorizonInv'
<1>1. PICK c \in Content : SqliteWrite(b, c) /\ AboveMark(b, c)
  BY DEF WriteStep
<1>2. local' = [local EXCEPT ![b] = c] /\ file' = file
      /\ UNCHANGED <<nextXid, phase, xid, oldest>>
  BY <1>1 DEF SqliteWrite, WriteStep
<1>3. Below(c.last_vacuum_xmin) BY <1>1 DEF AboveMark, HorizonInv, Read
<1>4. Marked(c) BY <1>1 DEF AboveMark
<1>5. \A o : Below(o) => BelowAfter(o) BY <1>2 DEF Below, BelowAfter
<1>6. \A a \in Backends : Marked(local'[a]) /\ BelowAfter(local'[a].last_vacuum_xmin)
  BY <1>2, <1>3, <1>4, <1>5 DEF HorizonInv, TypeOK
<1>7. Marked(file') /\ BelowAfter(file'.last_vacuum_xmin) BY <1>2, <1>5 DEF HorizonInv
<1>8. \A a \in Backends : BelowAfter(oldest'[a]) BY <1>2, <1>5 DEF HorizonInv
<1> QED BY <1>6, <1>7, <1>8, HorizonAfter

\* Ending transactions leaves fewer xids to compare with.
LEMMA HorizonForget ==
    ASSUME TypeOK, HorizonInv, NEW B \in SUBSET Backends, Forget(B),
           UNCHANGED <<clog, file>>, nextXid' \in Nat,
           B # Backends => nextXid' = nextXid, file.last_vacuum_xmin <= nextXid'
    PROVE  HorizonInv'
<1>1. \A b \in Backends :
         /\ b \in B => phase'[b] = "idle" /\ xid'[b] = 0 /\ local'[b] = Empty /\ oldest'[b] = 0
         /\ b \notin B => /\ phase'[b] = phase[b] /\ xid'[b] = xid[b]
                          /\ local'[b] = local[b] /\ oldest'[b] = oldest[b]
  BY DEF Forget
<1>2. ASSUME NEW o, Below(o), o <= nextXid' PROVE BelowAfter(o)
  BY <1>1, <1>2 DEF Below, BelowAfter
<1>b. ASSUME NEW b \in Backends, b \notin B, NEW o, Below(o) PROVE BelowAfter(o)
  BY <1>b, <1>2 DEF Below
<1>3. BelowAfter(0) BY <1>1 DEF BelowAfter, TypeOK
<1>4. Marked(Empty) /\ Empty.last_vacuum_xmin = 0 BY DEF Marked, Empty, NoRow
<1>5. Marked(file') /\ BelowAfter(file'.last_vacuum_xmin) BY <1>2 DEF HorizonInv
<1>6. \A b \in Backends : Marked(local'[b]) /\ BelowAfter(local'[b].last_vacuum_xmin)
  BY <1>1, <1>b, <1>3, <1>4 DEF HorizonInv
<1>7. \A b \in Backends : BelowAfter(oldest'[b]) BY <1>1, <1>b, <1>3 DEF HorizonInv
<1> QED BY <1>5, <1>6, <1>7, HorizonAfter

\* A step keeps the watermarks below every xid that may still stamp a row.
LEMMA HorizonStep ==
    ASSUME TypeOK, CommitOrderInv, HorizonInv, ~XidReuse, [Next]_vars PROVE HorizonInv'
<1>0. ASSUME UNCHANGED <<nextXid, phase, xid, local, file, oldest>> PROVE HorizonInv'
  BY <1>0 DEF HorizonInv, Marked, Below
<1>1. CASE UNCHANGED vars BY <1>0, <1>1 DEF vars
<1>n. nextXid \in Nat /\ file.last_vacuum_xmin <= nextXid
  BY DEF TypeOK, HorizonInv, Below
<1>2. CASE Crash
  <2>1. /\ Forget(Backends) /\ UNCHANGED <<clog, file>>
        /\ nextXid' \in 1..nextXid /\ Unknown(nextXid')
    BY <1>2 DEF Crash, RecoveredXids
  <2> QED BY <1>n, <2>1, HorizonForget DEF Unknown
<1>3. ASSUME NEW b \in Backends, Begin(b) PROVE HorizonInv'
  <2>1. /\ UNCHANGED <<nextXid, xid, local, file, oldest>> /\ phase[b] = "idle"
        /\ phase' = [phase EXCEPT ![b] = "open"]
    BY <1>3 DEF Begin
  <2>2. xid[b] = 0 BY <2>1 DEF CommitOrderInv, PhaseDiscipline
  <2>3. \A o : Below(o) => BelowAfter(o) BY <2>1, <2>2 DEF Below, BelowAfter, TypeOK
  <2> QED BY <2>1, <2>3, HorizonAfter DEF HorizonInv
<1>4. ASSUME NEW b \in Backends, TakeSnapshot(b) \/ \E keep \in BOOLEAN : NextCommand(b, keep)
      PROVE  HorizonInv'
  BY <1>0, <1>4 DEF TakeSnapshot, NextCommand
<1>5. ASSUME NEW b \in Backends, AssignXid(b) PROVE HorizonInv'
  <2>1. /\ UNCHANGED <<phase, local, file, oldest>>
        /\ xid' = [xid EXCEPT ![b] = nextXid] /\ nextXid' = nextXid + 1
    BY <1>5 DEF AssignXid
  <2>2. ASSUME NEW o \in Nat, Below(o) PROVE BelowAfter(o)
    BY <2>1, <2>2 DEF Below, BelowAfter, TypeOK
  <2>3. /\ file.last_vacuum_xmin \in Nat
        /\ \A a \in Backends : local[a].last_vacuum_xmin \in Nat /\ oldest[a] \in Nat
    BY DEF TypeOK, Content
  <2> QED BY <2>1, <2>2, <2>3, HorizonAfter DEF HorizonInv
<1>6. ASSUME NEW b \in Backends, WriteAction(b) PROVE HorizonInv'
  BY <1>6, WriteActions, HorizonWrite DEF CommitOrderInv
<1>7. ASSUME NEW b \in Backends, SpeculationWon(b) PROVE HorizonInv'
  BY <1>0, <1>7 DEF SpeculationWon, writeUnchanged
<1>8. ASSUME NEW b \in Backends, VacuumStart(b) PROVE HorizonInv'
  <2>1. PICK o \in Xid \cup {MaxXid + 1} :
           IsHorizon(o) /\ oldest' = [oldest EXCEPT ![b] = o]
    BY <1>8 DEF VacuumStart
  <2>2. /\ UNCHANGED <<nextXid, xid, local, file>>
        /\ phase' = [phase EXCEPT ![b] = "vacuum"]
    BY <1>8 DEF VacuumStart
  <2>3. \A p : Below(p) => BelowAfter(p) BY <2>2 DEF Below, BelowAfter, TypeOK
  <2>4. Below(o)
    <3>1. o <= nextXid /\ \A x \in Running : o <= x BY <2>1 DEF IsHorizon, IsLeast
    <3> QED BY <3>1 DEF Below, Running
  <2>5. \A a \in Backends : BelowAfter(oldest'[a])
    BY <2>1, <2>3, <2>4 DEF HorizonInv, TypeOK
  <2> QED BY <2>2, <2>3, <2>5, HorizonAfter DEF HorizonInv
<1>9. ASSUME NEW b \in Backends, PreCommit(b) PROVE HorizonInv'
  <2>1. /\ UNCHANGED <<nextXid, xid, oldest>>
        /\ file' = Read(b) /\ local' = [local EXCEPT ![b] = Empty]
        /\ phase' = [phase EXCEPT ![b] = "precommit"]
    BY <1>9 DEF PreCommit
  <2>2. \A o : Below(o) => BelowAfter(o) BY <2>1 DEF Below, BelowAfter, TypeOK
  <2>3. BelowAfter(0) BY <2>1 DEF BelowAfter, TypeOK
  <2>4. Marked(Empty) /\ Empty.last_vacuum_xmin = 0 BY DEF Marked, Empty, NoRow
  <2>5. Marked(Read(b)) /\ Below(Read(b).last_vacuum_xmin) BY DEF HorizonInv, Read
  <2>6. \A a \in Backends : Marked(local'[a]) /\ BelowAfter(local'[a].last_vacuum_xmin)
    BY <2>1, <2>2, <2>3, <2>4 DEF HorizonInv, TypeOK
  <2> QED BY <2>1, <2>2, <2>5, <2>6, HorizonAfter DEF HorizonInv
<1>10. ASSUME NEW b \in Backends, RecordCommit(b) PROVE HorizonInv'
  <2>1. /\ UNCHANGED <<nextXid, xid, local, file, oldest>>
        /\ phase' = [phase EXCEPT ![b] = "recorded"]
    BY <1>10 DEF RecordCommit
  <2>2. \A o : Below(o) => BelowAfter(o) BY <2>1 DEF Below, BelowAfter, TypeOK
  <2> QED BY <2>1, <2>2, HorizonAfter DEF HorizonInv
<1>11. ASSUME NEW b \in Backends, EndXact(b) \/ Abort(b) PROVE HorizonInv'
  <2>1. Forget({b}) /\ UNCHANGED <<nextXid, clog, file>> BY <1>11 DEF EndXact, Abort
  <2> QED BY <1>n, <2>1, HorizonForget
<1> QED BY <1>1, <1>2, <1>3, <1>4, <1>5, <1>6, <1>7, <1>8, <1>9, <1>10, <1>11
        DEF Next, WriteAction

\* A VACUUM that skips because of the watermark has nothing to remove: no row
\* of the file was deleted by an xid below last_vacuum_xmin, although the
\* horizon is read before the wait for the write lock; provided that a crash
\* never lets xids start again below a watermark.
THEOREM WatermarkCorrect == ~XidReuse => (Spec => []WatermarkSound)
<1> SUFFICES ASSUME ~XidReuse PROVE Spec => []WatermarkSound OBVIOUS
<1>1. Init => CommitOrderInv /\ HorizonInv
  <2>1. Init => HorizonInv BY DEF Init, Empty, NoRow, HorizonInv, Marked, Below
  <2> QED BY <2>1, CommitOrderInit
<1>2. TypeOK /\ CommitOrderInv /\ HorizonInv /\ [Next]_vars
      => CommitOrderInv' /\ HorizonInv'
  BY CommitOrderStep, HorizonStep DEF NoAdoption
<1>3. HorizonInv => WatermarkSound BY DEF HorizonInv, Marked, WatermarkSound
<1> QED BY <1>1, <1>2, <1>3, TypeCorrect, PTL DEF Spec
=============================================================================
