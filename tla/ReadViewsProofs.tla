--------------------------- MODULE ReadViewsProofs ---------------------------
(***************************************************************************)
(* Proofs about ReadViews, for any sets of backends, relations and lookup  *)
(* statements, and any number of transactions.                             *)
(***************************************************************************)
EXTENDS ReadViews, TLAPS

\* b's transaction has not reached its PreCommit callback.
Undecided(b) == phase[b] \in {"open", "failed"}

\* Transactions are numbered once.
TxInv ==
    /\ \A b \in Backends : /\ phase[b] = "idle" <=> tx[b] = 0
                           /\ tx[b] < nextTx /\ tx[b] \notin committed
    /\ \A b, c \in Backends : tx[b] = tx[c] /\ tx[b] # 0 => b = c
    /\ \A t \in committed : t < nextTx

\* Who has a file's write lock is in a transaction, will end it, and sees all
\* of the file as it is now.
LockInv ==
    \A b \in Backends, r \in Rels : lock[r] = b =>
        /\ Undecided(b) /\ r \in TX_RELS[b]
        /\ in_txn[b][r] /\ reading[b][r] /\ file[r] \subseteq view[b][r]

\* Who waits for one has taken no view yet.
WaitInv ==
    \A b \in Backends : wait[b] # None =>
        /\ phase[b] = "open" /\ wait[b] \in TX_RELS[b]
        /\ in_txn[b][wait[b]] /\ ~reading[b][wait[b]]

\* A view is an earlier state of the file, and the writes of the lock's holder.
ViewInv ==
    \A b \in Backends, r \in Rels :
        view[b][r] \subseteq file[r] \cup {t \in {tx[b]} : lock[r] = b}

\* Nothing of an undecided transaction is in a file.
FileInv ==
    \A r \in Rels :
        /\ \A b \in Backends : Undecided(b) => tx[b] \notin file[r]
        /\ \A t \in file[r] : t < nextTx

\* Where what a transaction wrote is while it goes through its phases.
WroteInv ==
    /\ \A b \in Backends, r \in Rels : tx[b] # 0 /\ r \in wrote[tx[b]] =>
        /\ Undecided(b) => lock[r] = b /\ tx[b] \in view[b][r]
        /\ ~Undecided(b) => tx[b] \in file[r]
    /\ \A t \in Txs : t >= nextTx => wrote[t] = {}

\* What had been committed at a planning is in the file and in the view.
DueInv ==
    \A b \in Backends, r \in Rels :
        /\ due[b][r] \subseteq file[r]
        /\ reading[b][r] => due[b][r] \subseteq view[b][r]

\* An active statement keeps a read transaction.
ActiveInv ==
    \A b \in Backends, r \in Rels : active[b][r] # {} => reading[b][r]

ViewsInv ==
    /\ ActiveInv
    /\ TypeOK /\ TxInv /\ LockInv /\ WaitInv /\ ViewInv /\ FileInv
    /\ WroteInv /\ CommittedStay /\ DueInv
-----------------------------------------------------------------------------
(* Types. *)

\* Changing one entry, or one backend's entries, of a table of connections.
LEMMA ConnsEntry ==
    ASSUME NEW S, NEW f \in Conns(S), NEW b \in Backends, NEW r \in Rels, NEW x \in S
    PROVE  [f EXCEPT ![b][r] = x] \in Conns(S)
BY DEF Conns

\* The same for all the entries of one backend.
LEMMA ConnsRow ==
    ASSUME NEW S, NEW f \in Conns(S), NEW b \in Backends, NEW g \in [Rels -> S]
    PROVE  [f EXCEPT ![b] = g] \in Conns(S)
BY DEF Conns

\* The first state has its types.
LEMMA InitType == ASSUME Init PROVE TypeOK
BY LockAssumption DEF Init, TypeOK, Everywhere, Conns, Txs, Stmts

\* A statement that is stepped.
LEMMA StepStatementType ==
    ASSUME TypeOK, NEW b \in Backends, NEW r \in Rels, NEW s, NEW row \in BOOLEAN,
           row => s \in Stmts, StepStatement(b, r, s, row)
    PROVE  /\ active' \in Conns(SUBSET Stmts) /\ reading' \in Conns(BOOLEAN)
           /\ view' \in Conns(SUBSET Txs)
           /\ wait' = wait /\ lock' = lock /\ file' = file
<1> DEFINE rest == active[b][r] \ {s}
           open == in_txn[b][r] \/ rest # {} \/ row
           a == IF row THEN rest \cup {s} ELSE rest
           v == CASE ~open -> {}
                  [] open /\ prepare_cached(b, r, s) -> view[b][r]
                  [] open /\ ~prepare_cached(b, r, s) -> file[r]
<1>1. a \in SUBSET Stmts BY DEF TypeOK, Conns
<1>2. open \in BOOLEAN BY DEF TypeOK, Conns
<1>3. v \in SUBSET Txs BY <1>2 DEF TypeOK, Conns
<1>4. /\ active' = [active EXCEPT ![b][r] = a]
      /\ reading' = [reading EXCEPT ![b][r] = open]
      /\ view' = [view EXCEPT ![b][r] = v]
      /\ wait' = wait /\ lock' = lock /\ file' = file
  BY DEF StepStatement
<1> HIDE DEF a, open, v
<1> QED BY <1>1, <1>2, <1>3, <1>4, ConnsEntry DEF TypeOK

\* A lock that is acquired.
LEMMA AcquireType ==
    ASSUME TypeOK, NEW b \in Backends, NEW r \in Rels, tx[b] # 0, Acquire(b, r)
    PROVE  /\ lock' \in [Rels -> Backends \cup {None}]
           /\ reading' \in Conns(BOOLEAN) /\ view' \in Conns(SUBSET Txs)
           /\ wrote' \in [Txs -> SUBSET Rels]
<1>1. tx[b] \in Txs BY LockAssumption DEF TypeOK, Txs
<1>2. ViewOf(b, r) \cup {tx[b]} \in SUBSET Txs BY <1>1 DEF TypeOK, Conns, ViewOf
<1>3. view' \in Conns(SUBSET Txs) BY <1>2, ConnsEntry DEF TypeOK, Acquire
<1>4. reading' \in Conns(BOOLEAN) BY ConnsEntry DEF TypeOK, Acquire
<1>5. lock' \in [Rels -> Backends \cup {None}] BY DEF TypeOK, Acquire
<1>6. wrote' \in [Txs -> SUBSET Rels] BY <1>1 DEF TypeOK, Acquire
<1> QED BY <1>3, <1>4, <1>5, <1>6

\* The SQLite transactions of a backend end.
LEMMA EndSqliteType ==
    ASSUME TypeOK, NEW b \in Backends, NEW v \in [Rels -> SUBSET Txs], EndSqlite(b, v)
    PROVE  /\ in_txn' \in Conns(BOOLEAN) /\ reading' \in Conns(BOOLEAN)
           /\ view' \in Conns(SUBSET Txs) /\ lock' \in [Rels -> Backends \cup {None}]
           /\ TX_RELS' \in [Backends -> SUBSET Rels]
<1> DEFINE ending == {r \in TX_RELS[b] : in_txn[b][r]}
           stays(r) == IF r \in ending THEN active[b][r] # {} ELSE reading[b][r]
           i == [r \in Rels |-> in_txn[b][r] /\ r \notin ending]
           g == [r \in Rels |-> stays(r)]
           w == [r \in Rels |-> IF stays(r) THEN v[r] ELSE {}]
<1>1. i \in [Rels -> BOOLEAN] OBVIOUS
<1>2. g \in [Rels -> BOOLEAN]
  <2>1. ASSUME NEW r \in Rels PROVE stays(r) \in BOOLEAN
    <3>1. reading[b][r] \in BOOLEAN BY DEF TypeOK, Conns
    <3> QED BY <3>1
  <2> HIDE DEF stays
  <2> QED BY <2>1
<1>3. w \in [Rels -> SUBSET Txs] OBVIOUS
<1>4. /\ in_txn' = [in_txn EXCEPT ![b] = i] /\ reading' = [reading EXCEPT ![b] = g]
      /\ view' = [view EXCEPT ![b] = w]
  BY DEF EndSqlite
<1>5. lock' \in [Rels -> Backends \cup {None}] BY DEF TypeOK, EndSqlite
<1>6. TX_RELS' \in [Backends -> SUBSET Rels] BY DEF TypeOK, EndSqlite
<1> HIDE DEF i, g, w
<1> QED BY <1>1, <1>2, <1>3, <1>4, <1>5, <1>6, ConnsRow DEF TypeOK

\* BEGIN on the relations in R.
LEMMA BeginType ==
    ASSUME TypeOK, NEW b \in Backends, NEW R, begin_if_needed(b, R)
    PROVE  in_txn' \in Conns(BOOLEAN)
<1>1. [r \in Rels |-> in_txn[b][r] \/ r \in R] \in [Rels -> BOOLEAN] OBVIOUS
<1> QED BY <1>1, ConnsRow DEF TypeOK, begin_if_needed

\* A step keeps every type, if who runs statements has a transaction.
LEMMA TypeStep == ASSUME TypeOK, TxInv, WaitInv, [Next]_vars PROVE TypeOK'
<1>0. CASE UNCHANGED vars BY <1>0 DEF TypeOK, vars, subxact, sqlite
<1>1. ASSUME NEW b \in Backends, Begin(b) PROVE TypeOK'
  BY <1>1, LockAssumption DEF TypeOK, Begin, subxact, sqlite
<1>2. ASSUME NEW b \in Backends, on_sub_start(b) PROVE TypeOK'
  <2>1. sub' \in [Backends -> BOOLEAN] /\ undoes' \in [Backends -> SUBSET Rels]
    BY <1>2 DEF TypeOK, on_sub_start
  <2>2. in_txn' \in Conns(BOOLEAN) BY <1>2, BeginType DEF on_sub_start
  <2> QED BY <1>2, <2>1, <2>2 DEF TypeOK, on_sub_start, sqlite
<1>3. ASSUME NEW b \in Backends, Granted(b) PROVE TypeOK'
  <2>1. tx[b] # 0 /\ wait[b] \in Rels BY <1>3 DEF Granted, WaitInv, TxInv, TypeOK
  <2>2. wait' \in [Backends -> Rels \cup {None}] BY <1>3 DEF Granted, TypeOK
  <2> QED BY <1>3, <2>1, <2>2, AcquireType DEF TypeOK, Granted, subxact
<1>4. ASSUME NEW b \in Backends, BusyTimeout(b) PROVE TypeOK'
  BY <1>4 DEF TypeOK, BusyTimeout, subxact
<1>5. ASSUME NEW b \in Backends, on_precommit(b) PROVE TypeOK'
  <2>1. view[b] \in [Rels -> SUBSET Txs] BY DEF TypeOK, Conns
  <2>2. file' \in [Rels -> SUBSET Txs]
    BY <1>5, <2>1 DEF TypeOK, on_precommit
  <2>3. EndSqlite(b, view[b]) BY <1>5 DEF on_precommit
  <2> QED BY <1>5, <2>1, <2>2, <2>3, EndSqliteType DEF TypeOK, on_precommit, subxact
<1>6. ASSUME NEW b \in Backends, EndXact(b) PROVE TypeOK'
  <2>1. tx[b] \in Txs BY <1>6, LockAssumption DEF EndXact, TxInv, TypeOK, Txs
  <2>2. /\ committed' \in SUBSET Txs /\ tx' \in [Backends -> 0..MaxTx]
        /\ phase' \in [Backends -> {"idle", "open", "failed", "precommit"}]
    BY <1>6, <2>1, LockAssumption DEF TypeOK, EndXact
  <2> QED BY <1>6, <2>2 DEF TypeOK, EndXact, subxact, sqlite
<1>7. ASSUME NEW b \in Backends, on_abort(b) PROVE TypeOK'
  <2> DEFINE v == [r \in Rels |-> view[b][r] \ {tx[b]}]
  <2>1. v \in [Rels -> SUBSET Txs] BY DEF TypeOK, Conns
  <2>2. EndSqlite(b, v) BY <1>7 DEF on_abort
  <2>3. tx[b] \in Txs
    BY <1>7, LockAssumption DEF on_abort, Running, TxInv, TypeOK, Txs
  <2>4. /\ wrote' \in [Txs -> SUBSET Rels] /\ tx' \in [Backends -> 0..MaxTx]
        /\ phase' \in [Backends -> {"idle", "open", "failed", "precommit"}]
    BY <1>7, <2>3, LockAssumption DEF TypeOK, on_abort
  <2> HIDE DEF v
  <2>5. sub' \in [Backends -> BOOLEAN] /\ undoes' \in [Backends -> SUBSET Rels]
    BY <1>7 DEF TypeOK, on_abort, SubEnds
  <2> QED BY <1>7, <2>1, <2>2, <2>4, <2>5, EndSqliteType DEF TypeOK, on_abort
<1>8. ASSUME NEW b \in Backends, Exit(b) PROVE TypeOK'
  <2>1. /\ [r \in Rels |-> {}] \in [Rels -> SUBSET Stmts]
        /\ [r \in Rels |-> FALSE] \in [Rels -> BOOLEAN]
        /\ [r \in Rels |-> {}] \in [Rels -> SUBSET Txs]
    OBVIOUS
  <2> QED BY <1>8, <2>1, ConnsRow DEF TypeOK, Exit, subxact
<1>9. ASSUME NEW b \in Backends, NEW r \in Rels, Write(b, r) PROVE TypeOK'
  <2>1. tx[b] # 0 BY <1>9 DEF Write, Running, TxInv
  <2>2. TX_RELS' \in [Backends -> SUBSET Rels] /\ in_txn' \in Conns(BOOLEAN)
    BY <1>9, BeginType DEF Write, Touch, TypeOK
  <2>3. CASE Verdict(b, r) = "ok" /\ Acquire(b, r) /\ UNCHANGED <<phase, wait>>
    BY <1>9, <2>1, <2>2, <2>3, AcquireType DEF TypeOK, Write, subxact
  <2>4. CASE /\ wait' = [wait EXCEPT ![b] = r]
             /\ UNCHANGED <<phase, lock, reading, view, wrote>>
    BY <1>9, <2>2, <2>4 DEF TypeOK, Write, subxact
  <2>5. CASE /\ phase' = [phase EXCEPT ![b] = "failed"]
             /\ UNCHANGED <<wait, lock, reading, view, wrote>>
    BY <1>9, <2>2, <2>5 DEF TypeOK, Write, subxact
  <2> QED BY <1>9, <2>3, <2>4, <2>5 DEF Write, step_done
<1>10. ASSUME NEW b \in Backends, NEW r \in ReadRels, relation_estimate_size(b, r)
       PROVE  TypeOK'
  <2>1. r \in Rels BY LockAssumption
  <2>2. TX_RELS' \in [Backends -> SUBSET Rels]
    BY <1>10, <2>1 DEF relation_estimate_size, Touch, TypeOK
  <2>3. due' \in Conns(SUBSET Txs)
    <3> DEFINE d == IF active[b][r] \subseteq {"count"} /\ ~in_txn[b][r]
                    THEN file[r] ELSE due[b][r]
    <3>1. d \in SUBSET Txs BY <2>1 DEF TypeOK, Conns
    <3>2. due' = [due EXCEPT ![b][r] = d] BY <1>10 DEF relation_estimate_size
    <3> HIDE DEF d
    <3> QED BY <2>1, <3>1, <3>2, ConnsEntry DEF TypeOK
  <2>4. StepStatement(b, r, "count", TRUE) /\ "count" \in Stmts
    BY <1>10 DEF relation_estimate_size, estimate_size, Stmts
  <2> QED BY <1>10, <2>1, <2>2, <2>3, <2>4, StepStatementType
          DEF TypeOK, relation_estimate_size, readUnchanged, subxact
<1>11. ASSUME NEW b \in Backends, NEW r \in ReadRels, NEW s \in Lookups,
              NEW found \in BOOLEAN, Lookup(b, r, s, found)
       PROVE  TypeOK'
  <2>1. r \in Rels /\ s \in Stmts BY LockAssumption DEF Stmts
  <2>2. TX_RELS' \in [Backends -> SUBSET Rels]
    BY <1>11, <2>1 DEF Lookup, Touch, TypeOK
  <2>3. /\ active' \in Conns(SUBSET Stmts) /\ reading' \in Conns(BOOLEAN)
        /\ view' \in Conns(SUBSET Txs) /\ UNCHANGED <<wait, lock, file>>
    <3>1. StepStatement(b, r, s, found) BY <1>11 DEF Lookup
    <3> QED BY <2>1, <3>1, StepStatementType
  <2> QED BY <1>11, <2>2, <2>3 DEF TypeOK, Lookup, readUnchanged, subxact
<1>12. ASSUME NEW b \in Backends, NEW r \in ReadRels, select_all(b, r) PROVE TypeOK'
  <2>1. r \in Rels BY LockAssumption
  <2>2. TX_RELS' \in [Backends -> SUBSET Rels]
    BY <1>12, <2>1 DEF select_all, Touch, TypeOK
  <2>3. StepStatement(b, r, "all", FALSE) BY <1>12 DEF select_all
  <2> QED BY <1>12, <2>1, <2>2, <2>3, StepStatementType
          DEF TypeOK, select_all, readUnchanged, subxact
<1>13. ASSUME NEW b \in Backends, on_sub_commit(b) PROVE TypeOK'
  BY <1>13 DEF TypeOK, on_sub_commit, SubEnds, sqlite
<1>14. ASSUME NEW b \in Backends, on_sub_abort(b) PROVE TypeOK'
  <2> DEFINE v == [q \in Rels |-> view[b][q] \ {t \in {tx[b]} : q \in undoes[b]}]
  <2>1. v \in [Rels -> SUBSET Txs] BY DEF TypeOK, Conns
  <2>2. view' = [view EXCEPT ![b] = v] BY <1>14 DEF on_sub_abort
  <2> HIDE DEF v
  <2>3. view' \in Conns(SUBSET Txs) BY <2>1, <2>2, ConnsRow DEF TypeOK
  <2>4. /\ sub' \in [Backends -> BOOLEAN] /\ undoes' \in [Backends -> SUBSET Rels]
        /\ phase' \in [Backends -> {"idle", "open", "failed", "precommit"}]
        /\ wrote' \in [Txs -> SUBSET Rels]
    BY <1>14 DEF TypeOK, on_sub_abort, SubEnds
  <2> QED BY <1>14, <2>3, <2>4 DEF TypeOK, on_sub_abort
<1> QED BY <1>0, <1>1, <1>2, <1>3, <1>4, <1>5, <1>6, <1>7, <1>8, <1>9, <1>10, <1>11,
           <1>12, <1>13, <1>14 DEF Next
-----------------------------------------------------------------------------
(* The invariant. *)

\* The invariant holds before any transaction starts.
LEMMA ViewsInit == ASSUME Init PROVE ViewsInv
<1>1. TypeOK BY InitType
<1>2. TxInv BY DEF Init, TxInv
<1>3. LockInv /\ WaitInv BY LockAssumption DEF Init, LockInv, WaitInv
<1>4. ViewInv /\ FileInv /\ DueInv BY DEF Init, ViewInv, FileInv, DueInv, Everywhere
<1>5. WroteInv /\ CommittedStay BY DEF Init, WroteInv, CommittedStay
<1>6. ActiveInv BY DEF Init, ActiveInv, Everywhere
<1> QED BY <1>1, <1>2, <1>3, <1>4, <1>5, <1>6 DEF ViewsInv

\* What stepping a statement does to the view: it stays, or is taken anew, or
\* is given up; a connection inside BEGIN that has a view keeps it.
LEMMA StepStatementView ==
    ASSUME TypeOK, NEW b \in Backends, NEW r \in Rels, NEW s, NEW row \in BOOLEAN,
           row => s \in Stmts, StepStatement(b, r, s, row)
    PROVE  /\ \A c \in Backends, q \in Rels : c # b \/ q # r =>
                 view'[c][q] = view[c][q] /\ reading'[c][q] = reading[c][q]
           /\ view'[b][r] \in {{}, view[b][r], file[r]}
           /\ reading'[b][r] => (view'[b][r] = file[r] \/ (reading[b][r] /\ view'[b][r] = view[b][r]))
           /\ in_txn[b][r] /\ reading[b][r] => reading'[b][r] /\ view'[b][r] = view[b][r]
           /\ row /\ active[b][r] \subseteq {s} /\ ~in_txn[b][r] => view'[b][r] = file[r]
           /\ active'[b][r] # {} => reading'[b][r]
           /\ \A c \in Backends, q \in Rels : c # b \/ q # r => active'[c][q] = active[c][q]
           /\ UNCHANGED <<wait, lock, file>>
<1> DEFINE rest == active[b][r] \ {s}
           open == in_txn[b][r] \/ rest # {} \/ row
           kept == prepare_cached(b, r, s)
           v == CASE ~open -> {} [] open /\ kept -> view[b][r] [] open /\ ~kept -> file[r]
<1>1. /\ reading' = [reading EXCEPT ![b][r] = open]
      /\ view' = [view EXCEPT ![b][r] = v] /\ UNCHANGED <<wait, lock, file>>
  BY DEF StepStatement
<1>2. open \in BOOLEAN /\ kept \in BOOLEAN BY DEF prepare_cached, TypeOK, Conns
<1>3. /\ ~open => v = {}
      /\ open /\ kept => v = view[b][r] /\ reading[b][r]
      /\ open /\ ~kept => v = file[r]
      /\ in_txn[b][r] /\ reading[b][r] => open /\ kept
      /\ row /\ active[b][r] \subseteq {s} /\ ~in_txn[b][r] => open /\ ~kept
  BY <1>2 DEF prepare_cached
<1>4. /\ reading'[b][r] = open /\ view'[b][r] = v
      /\ \A c \in Backends, q \in Rels : c # b \/ q # r =>
            view'[c][q] = view[c][q] /\ reading'[c][q] = reading[c][q]
  BY <1>1 DEF TypeOK, Conns
<1>5. /\ active'[b][r] = IF row THEN rest \cup {s} ELSE rest
      /\ \A c \in Backends, q \in Rels : c # b \/ q # r => active'[c][q] = active[c][q]
  BY DEF StepStatement, TypeOK, Conns
<1>6. active'[b][r] # {} => open BY <1>5
<1> HIDE DEF open, kept, v, rest
<1> QED BY <1>1, <1>2, <1>3, <1>4, <1>5, <1>6

\* Reading keeps the invariant.
LEMMA ReadStep ==
    ASSUME ViewsInv, TypeOK', NEW b \in Backends, NEW r \in Rels, NEW s,
           NEW row \in BOOLEAN, row => s \in Stmts,
           Running(b), Touch(b, r), StepStatement(b, r, s, row), UNCHANGED readUnchanged,
           \/ due' = due
           \/ /\ row /\ s = "count"
              /\ due' = [due EXCEPT ![b][r] =
                    IF active[b][r] \subseteq {"count"} /\ ~in_txn[b][r] THEN file[r] ELSE @]
    PROVE  ViewsInv'
<1> USE DEF readUnchanged
<1>t. TypeOK BY DEF ViewsInv
<1>v. /\ \A c \in Backends, q \in Rels : c # b \/ q # r =>
             view'[c][q] = view[c][q] /\ reading'[c][q] = reading[c][q]
      /\ view'[b][r] \in {{}, view[b][r], file[r]}
      /\ reading'[b][r] => (view'[b][r] = file[r] \/ (reading[b][r] /\ view'[b][r] = view[b][r]))
      /\ in_txn[b][r] /\ reading[b][r] => reading'[b][r] /\ view'[b][r] = view[b][r]
      /\ row /\ active[b][r] \subseteq {s} /\ ~in_txn[b][r] => view'[b][r] = file[r]
      /\ UNCHANGED <<wait, lock, file>>
  BY <1>t, StepStatementView
<1>u. \A c \in Backends : TX_RELS[c] \subseteq TX_RELS'[c]
  BY <1>t DEF Touch, TypeOK
<1>9. ActiveInv'
  <2>1. /\ active'[b][r] # {} => reading'[b][r]
        /\ \A c \in Backends, q \in Rels : c # b \/ q # r => active'[c][q] = active[c][q]
    BY <1>t, StepStatementView
  <2> QED BY <1>v, <2>1 DEF ViewsInv, ActiveInv
<1>1. TxInv' BY DEF ViewsInv, TxInv
<1>2. LockInv'
  <2> SUFFICES ASSUME NEW c \in Backends, NEW q \in Rels, lock[q] = c
               PROVE  /\ Undecided(c)' /\ q \in TX_RELS'[c] /\ in_txn'[c][q]
                      /\ reading'[c][q] /\ file'[q] \subseteq view'[c][q]
    BY <1>v DEF LockInv
  <2>1. /\ Undecided(c) /\ q \in TX_RELS[c] /\ in_txn[c][q]
        /\ reading[c][q] /\ file[q] \subseteq view[c][q]
    BY DEF ViewsInv, LockInv
  <2> QED BY <1>v, <1>u, <2>1 DEF Undecided
<1>3. WaitInv'
  <2> SUFFICES ASSUME NEW c \in Backends, wait[c] # None
               PROVE  /\ phase'[c] = "open" /\ wait[c] \in TX_RELS'[c]
                      /\ in_txn'[c][wait[c]] /\ ~reading'[c][wait[c]]
    BY <1>v DEF WaitInv
  <2>1. c # b /\ wait[c] \in Rels BY <1>t DEF Running, TypeOK
  <2> QED BY <1>v, <1>u, <2>1 DEF ViewsInv, WaitInv
<1>4. ViewInv'
  <2> SUFFICES ASSUME NEW c \in Backends, NEW q \in Rels
               PROVE  view'[c][q] \subseteq file[q] \cup {t \in {tx[c]} : lock[q] = c}
    BY <1>v DEF ViewInv
  <2>1. view[c][q] \subseteq file[q] \cup {t \in {tx[c]} : lock[q] = c}
    BY DEF ViewsInv, ViewInv
  <2>2. view'[c][q] \in {{}, view[c][q], file[q]} BY <1>v
  <2> QED BY <2>1, <2>2
<1>5. FileInv' BY <1>v DEF ViewsInv, FileInv, Undecided
<1>6. WroteInv'
  <2>1. \A t \in Txs : t >= nextTx => wrote[t] = {} BY DEF ViewsInv, WroteInv
  <2> SUFFICES ASSUME NEW c \in Backends, NEW q \in Rels, tx[c] # 0, q \in wrote[tx[c]]
               PROVE  /\ Undecided(c) => lock[q] = c /\ tx[c] \in view'[c][q]
                      /\ ~Undecided(c) => tx[c] \in file[q]
    BY <1>v, <2>1 DEF WroteInv, Undecided
  <2>2. /\ Undecided(c) => lock[q] = c /\ tx[c] \in view[c][q]
        /\ ~Undecided(c) => tx[c] \in file[q]
    BY DEF ViewsInv, WroteInv
  <2>3. lock[q] = c => in_txn[c][q] /\ reading[c][q] BY DEF ViewsInv, LockInv
  <2> QED BY <1>v, <2>2, <2>3
<1>7. CommittedStay' BY <1>v DEF ViewsInv, CommittedStay
<1>8. DueInv'
  <2> SUFFICES ASSUME NEW c \in Backends, NEW q \in Rels
               PROVE  /\ due'[c][q] \subseteq file[q]
                      /\ reading'[c][q] => due'[c][q] \subseteq view'[c][q]
    BY <1>v DEF DueInv
  <2>1. /\ due[c][q] \subseteq file[q]
        /\ reading[c][q] => due[c][q] \subseteq view[c][q]
    BY DEF ViewsInv, DueInv
  <2>2. CASE due'[c][q] = due[c][q] BY <1>v, <2>1, <2>2
  <2>3. CASE due'[c][q] # due[c][q]
    <3>1. /\ c = b /\ q = r /\ row /\ s = "count"
          /\ active[b][r] \subseteq {"count"} /\ ~in_txn[b][r] /\ due'[b][r] = file[r]
      BY <1>t, <2>3 DEF TypeOK, Conns
    <3> QED BY <1>v, <3>1
  <2> QED BY <2>2, <2>3
<1> QED BY <1>1, <1>2, <1>3, <1>4, <1>5, <1>6, <1>7, <1>8, <1>9 DEF ViewsInv

\* Getting a lock, at once or after waiting, keeps the invariant: the view that
\* is written on is the file as it is now.
LEMMA AcquireStep ==
    ASSUME ViewsInv, TypeOK', NEW b \in Backends, NEW r \in Rels, phase[b] = "open",
           Acquire(b, r), lock[r] # b => lock[r] = None /\ ViewOf(b, r) = file[r],
           r \in TX_RELS'[b], \A c \in Backends : TX_RELS[c] \subseteq TX_RELS'[c],
           in_txn'[b][r],
           \A c \in Backends, q \in Rels : in_txn[c][q] => in_txn'[c][q],
           \A c \in Backends : wait'[c] # None => wait'[c] = wait[c],
           wait'[b] = None,
           UNCHANGED <<nextTx, tx, phase, committed, active, file, due>>
    PROVE  ViewsInv'
<1>t. TypeOK BY DEF ViewsInv
<1>x. tx[b] # 0 /\ tx[b] \in Txs /\ tx[b] < nextTx /\ nextTx \in Nat
  BY <1>t, LockAssumption DEF ViewsInv, TxInv, TypeOK, Txs
<1>v. /\ lock' = [lock EXCEPT ![r] = b]
      /\ reading'[b][r] /\ view'[b][r] = ViewOf(b, r) \cup {tx[b]}
      /\ \A c \in Backends, q \in Rels : c # b \/ q # r =>
            view'[c][q] = view[c][q] /\ reading'[c][q] = reading[c][q]
      /\ wrote' = [wrote EXCEPT ![tx[b]] = @ \cup {r}]
  <2>1. lock' = [lock EXCEPT ![r] = b] /\ wrote' = [wrote EXCEPT ![tx[b]] = @ \cup {r}]
    BY DEF Acquire
  <2>2. /\ reading'[b][r] = TRUE
        /\ \A c \in Backends, q \in Rels : c # b \/ q # r => reading'[c][q] = reading[c][q]
    <3>1. reading \in Conns(BOOLEAN) BY <1>t DEF TypeOK
    <3> DEFINE yes == TRUE
    <3>2. reading' = [reading EXCEPT ![b][r] = yes] BY DEF Acquire
    <3>3. yes \in BOOLEAN OBVIOUS
    <3>4. yes = TRUE OBVIOUS
    <3> HIDE DEF yes
    <3>5. /\ reading'[b][r] = yes
          /\ \A c \in Backends, q \in Rels : c # b \/ q # r => reading'[c][q] = reading[c][q]
      BY <3>1, <3>2, <3>3 DEF Conns
    <3> QED BY <3>4, <3>5
  <2>3. /\ view'[b][r] = ViewOf(b, r) \cup {tx[b]}
        /\ \A c \in Backends, q \in Rels : c # b \/ q # r => view'[c][q] = view[c][q]
    BY <1>t DEF Acquire, TypeOK, Conns
  <2> QED BY <2>1, <2>2, <2>3
<1>9. ActiveInv' BY <1>v DEF ViewsInv, ActiveInv
<1>l. lock[r] \in {b, None} /\ b # None BY LockAssumption
<1>w. /\ file[r] \subseteq ViewOf(b, r)
      /\ ViewOf(b, r) \subseteq file[r] \cup {tx[b]}
      /\ reading[b][r] => ViewOf(b, r) = view[b][r]
  <2>1. CASE lock[r] = b BY <2>1 DEF ViewsInv, LockInv, ViewInv, ViewOf
  <2>2. CASE lock[r] # b BY <2>2 DEF ViewOf
  <2> QED BY <2>1, <2>2
<1>1. TxInv' BY DEF ViewsInv, TxInv
<1>2. LockInv'
  <2> SUFFICES ASSUME NEW c \in Backends, NEW q \in Rels, lock'[q] = c
               PROVE  /\ Undecided(c)' /\ q \in TX_RELS'[c] /\ in_txn'[c][q]
                      /\ reading'[c][q] /\ file'[q] \subseteq view'[c][q]
    BY DEF LockInv
  <2>1. CASE q = r
    <3>1. c = b BY <1>t, <1>v, <2>1 DEF TypeOK
    <3> QED BY <1>v, <1>w, <2>1, <3>1 DEF Undecided
  <2>2. CASE q # r
    <3>1. lock[q] = c BY <1>t, <1>v, <2>2 DEF TypeOK
    <3>2. /\ Undecided(c) /\ q \in TX_RELS[c] /\ in_txn[c][q]
          /\ reading[c][q] /\ file[q] \subseteq view[c][q]
      BY <3>1 DEF ViewsInv, LockInv
    <3> QED BY <1>v, <2>2, <3>2 DEF Undecided
  <2> QED BY <2>1, <2>2
<1>3. WaitInv'
  <2> SUFFICES ASSUME NEW c \in Backends, wait'[c] # None
               PROVE  /\ phase'[c] = "open" /\ wait'[c] \in TX_RELS'[c]
                      /\ in_txn'[c][wait'[c]] /\ ~reading'[c][wait'[c]]
    BY DEF WaitInv
  <2>1. c # b /\ wait'[c] = wait[c] /\ wait[c] # None /\ wait[c] \in Rels
    BY <1>t DEF TypeOK
  <2>2. /\ phase[c] = "open" /\ wait[c] \in TX_RELS[c]
        /\ in_txn[c][wait[c]] /\ ~reading[c][wait[c]]
    BY <2>1 DEF ViewsInv, WaitInv
  <2> QED BY <1>v, <2>1, <2>2
<1>4. ViewInv'
  <2> SUFFICES ASSUME NEW c \in Backends, NEW q \in Rels
               PROVE  view'[c][q] \subseteq file[q] \cup {t \in {tx[c]} : lock'[q] = c}
    BY DEF ViewInv
  <2>1. view[c][q] \subseteq file[q] \cup {t \in {tx[c]} : lock[q] = c}
    BY DEF ViewsInv, ViewInv
  <2>2. CASE q = r /\ c = b
    <3>1. lock'[q] = c BY <1>t, <1>v, <2>2 DEF TypeOK
    <3> QED BY <1>v, <1>w, <2>2, <3>1
  <2>3. CASE q # r \/ c # b
    <3>1. lock[q] = c => lock'[q] = c BY <1>t, <1>v, <1>l, <2>3, LockAssumption DEF TypeOK
    <3>2. view'[c][q] = view[c][q] BY <1>v, <2>3
    <3> QED BY <2>1, <3>1, <3>2
  <2> QED BY <2>2, <2>3
<1>5. FileInv' BY DEF ViewsInv, FileInv, Undecided
<1>6. WroteInv'
  <2>1. \A t \in Txs : t >= nextTx' => wrote'[t] = {}
    BY <1>t, <1>v, <1>x DEF ViewsInv, WroteInv, TypeOK, Txs
  <2> SUFFICES ASSUME NEW c \in Backends, NEW q \in Rels, tx[c] # 0, q \in wrote'[tx[c]]
               PROVE  /\ Undecided(c)' => lock'[q] = c /\ tx[c] \in view'[c][q]
                      /\ ~Undecided(c)' => tx[c] \in file[q]
    BY <2>1 DEF WroteInv
  <2>2. CASE c = b /\ q = r
    BY <1>t, <1>v, <2>2 DEF Undecided, TypeOK
  <2>3. CASE c # b \/ q # r
    <3>1. tx[c] \in Txs BY <1>t, LockAssumption DEF TypeOK, Txs
    <3>2. c # b => tx[c] # tx[b] BY DEF ViewsInv, TxInv
    <3>3. q \in wrote[tx[c]] BY <1>t, <1>v, <1>x, <2>3, <3>1, <3>2 DEF TypeOK
    <3>4. /\ Undecided(c) => lock[q] = c /\ tx[c] \in view[c][q]
          /\ ~Undecided(c) => tx[c] \in file[q]
      BY <3>3 DEF ViewsInv, WroteInv
    <3>5. lock[q] = c => lock'[q] = c
      BY <1>t, <1>v, <1>l, <2>3, LockAssumption DEF TypeOK
    <3> QED BY <1>v, <2>3, <3>4, <3>5 DEF Undecided
  <2> QED BY <2>2, <2>3
<1>7. CommittedStay'
  <2>1. \A t \in committed : t # tx[b] /\ t \in Txs
    BY <1>t DEF ViewsInv, TxInv, TypeOK
  <2>2. \A t \in committed : wrote'[t] = wrote[t] BY <1>t, <1>v, <2>1 DEF TypeOK
  <2> QED BY <2>2 DEF ViewsInv, CommittedStay
<1>8. DueInv'
  <2> SUFFICES ASSUME NEW c \in Backends, NEW q \in Rels
               PROVE  /\ due[c][q] \subseteq file[q]
                      /\ reading'[c][q] => due[c][q] \subseteq view'[c][q]
    BY DEF DueInv
  <2>1. /\ due[c][q] \subseteq file[q]
        /\ reading[c][q] => due[c][q] \subseteq view[c][q]
    BY DEF ViewsInv, DueInv
  <2> QED BY <1>v, <1>w, <2>1
<1> QED BY <1>1, <1>2, <1>3, <1>4, <1>5, <1>6, <1>7, <1>8, <1>9 DEF ViewsInv

\* What ending the SQLite transactions of b does: every lock b has is released,
\* and a view that stays shows v.
LEMMA EndSqliteView ==
    ASSUME ViewsInv, NEW b \in Backends, NEW v \in [Rels -> SUBSET Txs], EndSqlite(b, v)
    PROVE  /\ \A q \in Rels : lock'[q] = IF lock[q] = b THEN None ELSE lock[q]
           /\ \A c \in Backends \ {b}, q \in Rels :
                /\ view'[c][q] = view[c][q] /\ reading'[c][q] = reading[c][q]
                /\ in_txn'[c][q] = in_txn[c][q]
           /\ \A c \in Backends \ {b} : TX_RELS'[c] = TX_RELS[c]
           /\ \A q \in Rels : /\ view'[b][q] \in {{}, v[q]}
                              /\ reading'[b][q] => view'[b][q] = v[q]
           /\ \A q \in Rels : /\ reading'[b][q] => reading[b][q]
                              /\ active[b][q] # {} => reading'[b][q]
<1>t. TypeOK BY DEF ViewsInv
<1>1. \A q \in Rels : lock[q] = b => q \in TX_RELS[b] /\ in_txn[b][q]
  BY DEF ViewsInv, LockInv
<1>2. \A q \in Rels : lock'[q] = IF lock[q] = b THEN None ELSE lock[q]
  BY <1>1 DEF EndSqlite
<1>3. ASSUME NEW c \in Backends \ {b}, NEW q \in Rels
      PROVE  /\ view'[c][q] = view[c][q] /\ reading'[c][q] = reading[c][q]
             /\ in_txn'[c][q] = in_txn[c][q] /\ TX_RELS'[c] = TX_RELS[c]
  BY <1>t DEF EndSqlite, TypeOK, Conns
<1>4. \A c \in Backends \ {b} : TX_RELS'[c] = TX_RELS[c]
  BY <1>t DEF EndSqlite, TypeOK
<1>5. ASSUME NEW q \in Rels
      PROVE  view'[b][q] \in {{}, v[q]} /\ (reading'[b][q] => view'[b][q] = v[q])
  BY <1>t DEF EndSqlite, TypeOK, Conns
<1>6. ASSUME NEW q \in Rels
      PROVE  /\ reading'[b][q] => reading[b][q]
             /\ active[b][q] # {} => reading'[b][q]
  <2>1. active[b][q] # {} => reading[b][q] BY DEF ViewsInv, ActiveInv
  <2> QED BY <1>t, <2>1 DEF EndSqlite, TypeOK, Conns
<1> QED BY <1>2, <1>3, <1>4, <1>5, <1>6

\* COMMIT keeps the invariant: a file is replaced by its lock holder's view,
\* which has all of it.
LEMMA PreCommitStep ==
    ASSUME ViewsInv, TypeOK', NEW b \in Backends, on_precommit(b) PROVE ViewsInv'
<1>t. TypeOK BY DEF ViewsInv
<1>u. /\ file' = [q \in Rels |-> IF lock[q] = b THEN view[b][q] ELSE file[q]]
      /\ EndSqlite(b, view[b]) /\ phase' = [phase EXCEPT ![b] = "precommit"]
      /\ UNCHANGED <<nextTx, tx, committed, active, wait, wrote, due>>
      /\ phase[b] = "open" /\ wait[b] = None
  BY DEF on_precommit, Running
<1>e. /\ \A q \in Rels : lock'[q] = IF lock[q] = b THEN None ELSE lock[q]
      /\ \A c \in Backends \ {b}, q \in Rels :
           /\ view'[c][q] = view[c][q] /\ reading'[c][q] = reading[c][q]
           /\ in_txn'[c][q] = in_txn[c][q]
      /\ \A c \in Backends \ {b} : TX_RELS'[c] = TX_RELS[c]
      /\ \A q \in Rels : /\ view'[b][q] \in {{}, view[b][q]}
                         /\ reading'[b][q] => view'[b][q] = view[b][q]
      /\ \A q \in Rels : /\ reading'[b][q] => reading[b][q]
                         /\ active[b][q] # {} => reading'[b][q]
  <2>1. view[b] \in [Rels -> SUBSET Txs] BY <1>t DEF TypeOK, Conns
  <2> QED BY <1>u, <2>1, EndSqliteView
<1>p. /\ ~Undecided(b)' /\ phase'[b] # "idle"
      /\ \A c \in Backends \ {b} : phase'[c] = phase[c]
  BY <1>t, <1>u DEF TypeOK, Undecided
<1>f. \A q \in Rels : /\ file[q] \subseteq file'[q]
                      /\ file'[q] \subseteq file[q] \cup {tx[b]}
                      /\ lock[q] = b => file'[q] = view[b][q]
                      /\ lock[q] # b => file'[q] = file[q]
                      /\ view[b][q] \subseteq file'[q]
  BY <1>u DEF ViewsInv, LockInv, ViewInv
<1>x. tx[b] # 0 /\ tx[b] < nextTx /\ (\A c \in Backends \ {b} : tx[c] # tx[b])
  BY <1>u DEF ViewsInv, TxInv
<1>n. \A c \in Backends : c # None BY LockAssumption
<1>1. TxInv'
  <2>1. \A c \in Backends : phase'[c] = "idle" <=> tx[c] = 0
    BY <1>p, <1>x DEF ViewsInv, TxInv
  <2> QED BY <1>u, <2>1 DEF ViewsInv, TxInv
<1>2. LockInv'
  <2> SUFFICES ASSUME NEW c \in Backends, NEW q \in Rels, lock'[q] = c
               PROVE  /\ Undecided(c)' /\ q \in TX_RELS'[c] /\ in_txn'[c][q]
                      /\ reading'[c][q] /\ file'[q] \subseteq view'[c][q]
    BY DEF LockInv
  <2>1. c # b /\ lock[q] = c BY <1>e, <1>n
  <2>2. /\ Undecided(c) /\ q \in TX_RELS[c] /\ in_txn[c][q]
        /\ reading[c][q] /\ file[q] \subseteq view[c][q]
    BY <2>1 DEF ViewsInv, LockInv
  <2> QED BY <1>e, <1>f, <1>p, <2>1, <2>2 DEF Undecided
<1>3. WaitInv'
  <2> SUFFICES ASSUME NEW c \in Backends, wait[c] # None
               PROVE  /\ phase'[c] = "open" /\ wait[c] \in TX_RELS'[c]
                      /\ in_txn'[c][wait[c]] /\ ~reading'[c][wait[c]]
    BY <1>u DEF WaitInv
  <2>1. c # b /\ wait[c] \in Rels BY <1>t, <1>u DEF TypeOK
  <2> QED BY <1>e, <1>p, <2>1 DEF ViewsInv, WaitInv
<1>4. ViewInv'
  <2> SUFFICES ASSUME NEW c \in Backends, NEW q \in Rels
               PROVE  view'[c][q] \subseteq file'[q] \cup {t \in {tx[c]} : lock'[q] = c}
    BY <1>u DEF ViewInv
  <2>1. view[c][q] \subseteq file[q] \cup {t \in {tx[c]} : lock[q] = c}
    BY DEF ViewsInv, ViewInv
  <2>2. CASE c = b BY <1>e, <1>f, <2>2
  <2>3. CASE c # b BY <1>e, <1>f, <2>1, <2>3
  <2> QED BY <2>2, <2>3
<1>5. FileInv'
  <2>1. ASSUME NEW q \in Rels, NEW c \in Backends, Undecided(c)'
        PROVE  tx[c] \notin file'[q]
    BY <1>f, <1>p, <1>x, <2>1 DEF ViewsInv, FileInv, Undecided
  <2>2. ASSUME NEW q \in Rels, NEW t \in file'[q] PROVE t < nextTx
    BY <1>f, <1>x DEF ViewsInv, FileInv
  <2> QED BY <1>u, <2>1, <2>2 DEF FileInv
<1>6. WroteInv'
  <2>1. \A t \in Txs : t >= nextTx => wrote[t] = {} BY DEF ViewsInv, WroteInv
  <2> SUFFICES ASSUME NEW c \in Backends, NEW q \in Rels, tx[c] # 0, q \in wrote[tx[c]]
               PROVE  /\ Undecided(c)' => lock'[q] = c /\ tx[c] \in view'[c][q]
                      /\ ~Undecided(c)' => tx[c] \in file'[q]
    BY <1>u, <2>1 DEF WroteInv
  <2>2. /\ Undecided(c) => lock[q] = c /\ tx[c] \in view[c][q]
        /\ ~Undecided(c) => tx[c] \in file[q]
    BY DEF ViewsInv, WroteInv
  <2>3. CASE c = b BY <1>f, <1>p, <1>u, <2>2, <2>3 DEF Undecided
  <2>4. CASE c # b BY <1>e, <1>f, <1>p, <2>2, <2>4 DEF Undecided
  <2> QED BY <2>3, <2>4
<1>7. CommittedStay'
  <2>1. \A t \in committed : wrote[t] \subseteq Rels BY <1>t DEF TypeOK
  <2> QED BY <1>f, <1>u, <2>1 DEF ViewsInv, CommittedStay
<1>8. DueInv'
  <2> SUFFICES ASSUME NEW c \in Backends, NEW q \in Rels
               PROVE  /\ due[c][q] \subseteq file'[q]
                      /\ reading'[c][q] => due[c][q] \subseteq view'[c][q]
    BY <1>u DEF DueInv
  <2>1. /\ due[c][q] \subseteq file[q]
        /\ reading[c][q] => due[c][q] \subseteq view[c][q]
    BY DEF ViewsInv, DueInv
  <2> QED BY <1>e, <1>f, <2>1
<1>9. ActiveInv' BY <1>e, <1>u DEF ViewsInv, ActiveInv
<1> QED BY <1>1, <1>2, <1>3, <1>4, <1>5, <1>6, <1>7, <1>8, <1>9 DEF ViewsInv

\* So does ROLLBACK: what it takes back was in no file and in no other view.
LEMMA AbortStep ==
    ASSUME ViewsInv, TypeOK', NEW b \in Backends, on_abort(b) PROVE ViewsInv'
<1> DEFINE v == [q \in Rels |-> view[b][q] \ {tx[b]}]
<1>t. TypeOK BY DEF ViewsInv
<1>u. /\ EndSqlite(b, v)
      /\ phase' = [phase EXCEPT ![b] = "idle"] /\ tx' = [tx EXCEPT ![b] = 0]
      /\ wrote' = [wrote EXCEPT ![tx[b]] = {}]
      /\ UNCHANGED <<nextTx, committed, active, wait, file, due>>
      /\ Undecided(b) /\ wait[b] = None
  <2>1. phase[b] = "failed" => wait[b] = None BY DEF ViewsInv, WaitInv
  <2> QED BY <2>1 DEF on_abort, Running, Undecided
<1>e. /\ \A q \in Rels : lock'[q] = IF lock[q] = b THEN None ELSE lock[q]
      /\ \A c \in Backends \ {b}, q \in Rels :
           /\ view'[c][q] = view[c][q] /\ reading'[c][q] = reading[c][q]
           /\ in_txn'[c][q] = in_txn[c][q]
      /\ \A c \in Backends \ {b} : TX_RELS'[c] = TX_RELS[c]
      /\ \A q \in Rels : /\ view'[b][q] \in {{}, v[q]}
                         /\ reading'[b][q] => view'[b][q] = v[q]
      /\ \A q \in Rels : /\ reading'[b][q] => reading[b][q]
                         /\ active[b][q] # {} => reading'[b][q]
  <2>1. v \in [Rels -> SUBSET Txs] BY <1>t DEF TypeOK, Conns
  <2> HIDE DEF v
  <2> QED BY <1>u, <2>1, EndSqliteView
<1>v. \A q \in Rels : v[q] = view[b][q] \ {tx[b]} OBVIOUS
<1> HIDE DEF v
<1>p. /\ phase'[b] = "idle" /\ tx'[b] = 0 /\ ~Undecided(b)'
      /\ \A c \in Backends \ {b} : phase'[c] = phase[c] /\ tx'[c] = tx[c]
  BY <1>t, <1>u DEF TypeOK, Undecided
<1>x. /\ tx[b] # 0 /\ tx[b] \in Txs /\ (\A c \in Backends \ {b} : tx[c] # tx[b])
      /\ 0 < nextTx /\ 0 \notin committed
  BY <1>t, <1>u, LockAssumption DEF ViewsInv, TxInv, Undecided, TypeOK, Txs
<1>n. \A c \in Backends : c # None BY LockAssumption
<1>1. TxInv' BY <1>p, <1>u, <1>x DEF ViewsInv, TxInv
<1>2. LockInv'
  <2> SUFFICES ASSUME NEW c \in Backends, NEW q \in Rels, lock'[q] = c
               PROVE  /\ Undecided(c)' /\ q \in TX_RELS'[c] /\ in_txn'[c][q]
                      /\ reading'[c][q] /\ file'[q] \subseteq view'[c][q]
    BY DEF LockInv
  <2>1. c # b /\ lock[q] = c BY <1>e, <1>n
  <2>2. /\ Undecided(c) /\ q \in TX_RELS[c] /\ in_txn[c][q]
        /\ reading[c][q] /\ file[q] \subseteq view[c][q]
    BY <2>1 DEF ViewsInv, LockInv
  <2> QED BY <1>e, <1>p, <1>u, <2>1, <2>2 DEF Undecided
<1>3. WaitInv'
  <2> SUFFICES ASSUME NEW c \in Backends, wait[c] # None
               PROVE  /\ phase'[c] = "open" /\ wait[c] \in TX_RELS'[c]
                      /\ in_txn'[c][wait[c]] /\ ~reading'[c][wait[c]]
    BY <1>u DEF WaitInv
  <2>1. c # b /\ wait[c] \in Rels BY <1>t, <1>u DEF TypeOK
  <2> QED BY <1>e, <1>p, <2>1 DEF ViewsInv, WaitInv
<1>4. ViewInv'
  <2> SUFFICES ASSUME NEW c \in Backends, NEW q \in Rels
               PROVE  view'[c][q] \subseteq file[q] \cup {t \in {tx'[c]} : lock'[q] = c}
    BY <1>u DEF ViewInv
  <2>1. view[c][q] \subseteq file[q] \cup {t \in {tx[c]} : lock[q] = c}
    BY DEF ViewsInv, ViewInv
  <2>2. CASE c = b BY <1>e, <1>v, <2>1, <2>2
  <2>3. CASE c # b BY <1>e, <1>p, <2>1, <2>3
  <2> QED BY <2>2, <2>3
<1>5. FileInv' BY <1>p, <1>u DEF ViewsInv, FileInv, Undecided
<1>6. WroteInv'
  <2>1. \A t \in Txs : t >= nextTx => wrote'[t] = {}
    BY <1>t, <1>u, <1>x DEF ViewsInv, WroteInv, TypeOK
  <2> SUFFICES ASSUME NEW c \in Backends, NEW q \in Rels, tx'[c] # 0, q \in wrote'[tx'[c]]
               PROVE  /\ Undecided(c)' => lock'[q] = c /\ tx'[c] \in view'[c][q]
                      /\ ~Undecided(c)' => tx'[c] \in file[q]
    BY <1>u, <2>1 DEF WroteInv
  <2>2. c # b /\ tx'[c] = tx[c] /\ tx[c] # tx[b] /\ tx[c] \in Txs
    BY <1>p, <1>t, <1>x, LockAssumption DEF TypeOK, Txs
  <2>3. q \in wrote[tx[c]] BY <1>t, <1>u, <1>x, <2>2 DEF TypeOK
  <2>4. /\ Undecided(c) => lock[q] = c /\ tx[c] \in view[c][q]
        /\ ~Undecided(c) => tx[c] \in file[q]
    BY <2>2, <2>3 DEF ViewsInv, WroteInv
  <2> QED BY <1>e, <1>p, <2>2, <2>4 DEF Undecided
<1>7. CommittedStay'
  <2>1. \A t \in committed : t \in Txs /\ t # tx[b] BY <1>t DEF ViewsInv, TxInv, TypeOK
  <2>2. \A t \in committed : wrote'[t] = wrote[t] BY <1>t, <1>u, <2>1 DEF TypeOK
  <2> QED BY <1>u, <2>2 DEF ViewsInv, CommittedStay
<1>8. DueInv'
  <2> SUFFICES ASSUME NEW c \in Backends, NEW q \in Rels
               PROVE  /\ due[c][q] \subseteq file[q]
                      /\ reading'[c][q] => due[c][q] \subseteq view'[c][q]
    BY <1>u DEF DueInv
  <2>1. /\ due[c][q] \subseteq file[q]
        /\ reading[c][q] => due[c][q] \subseteq view[c][q]
    BY DEF ViewsInv, DueInv
  <2>2. tx[b] \notin file[q] BY <1>u DEF ViewsInv, FileInv
  <2> QED BY <1>e, <1>v, <2>1, <2>2
<1>9. ActiveInv' BY <1>e, <1>u DEF ViewsInv, ActiveInv
<1> QED BY <1>1, <1>2, <1>3, <1>4, <1>5, <1>6, <1>7, <1>8, <1>9 DEF ViewsInv

\* The commit record, after PreCommit.
LEMMA EndXactStep ==
    ASSUME ViewsInv, TypeOK', NEW b \in Backends, EndXact(b) PROVE ViewsInv'
<1>t. TypeOK BY DEF ViewsInv
<1>u. /\ committed' = committed \cup {tx[b]}
      /\ phase' = [phase EXCEPT ![b] = "idle"] /\ tx' = [tx EXCEPT ![b] = 0]
      /\ UNCHANGED <<nextTx, TX_RELS, in_txn, active, reading, view, wait, lock, file,
                     wrote, due>>
      /\ phase[b] = "precommit" /\ ~Undecided(b)
  BY DEF EndXact, sqlite, Undecided
<1>p. /\ phase'[b] = "idle" /\ tx'[b] = 0 /\ ~Undecided(b)'
      /\ \A c \in Backends \ {b} : /\ phase'[c] = phase[c] /\ tx'[c] = tx[c]
                                   /\ Undecided(c)' <=> Undecided(c)
  BY <1>t, <1>u DEF TypeOK, Undecided
<1>x. /\ tx[b] # 0 /\ tx[b] < nextTx /\ (\A c \in Backends \ {b} : tx[c] # tx[b])
      /\ 0 < nextTx /\ 0 \notin committed
  BY <1>t, <1>u DEF ViewsInv, TxInv, TypeOK, Txs
<1>1. TxInv' BY <1>p, <1>u, <1>x DEF ViewsInv, TxInv
<1>2. LockInv' BY <1>p, <1>u DEF ViewsInv, LockInv
<1>3. WaitInv' BY <1>p, <1>u DEF ViewsInv, WaitInv
<1>4. ViewInv'
  <2>1. \A q \in Rels : lock[q] # b BY <1>u DEF ViewsInv, LockInv
  <2> QED BY <1>p, <1>u, <2>1 DEF ViewsInv, ViewInv
<1>5. FileInv' BY <1>p, <1>u DEF ViewsInv, FileInv
<1>6. WroteInv' BY <1>p, <1>u DEF ViewsInv, WroteInv
<1>7. CommittedStay'
  <2>1. wrote[tx[b]] \subseteq Rels BY <1>t, <1>x, LockAssumption DEF TypeOK, Txs
  <2>2. \A r \in wrote[tx[b]] : tx[b] \in file[r]
    BY <1>u, <1>x, <2>1 DEF ViewsInv, WroteInv
  <2> QED BY <1>u, <2>2 DEF ViewsInv, CommittedStay
<1>8. DueInv' BY <1>u DEF ViewsInv, DueInv
<1>9. ActiveInv' BY <1>u DEF ViewsInv, ActiveInv
<1> QED BY <1>1, <1>2, <1>3, <1>4, <1>5, <1>6, <1>7, <1>8, <1>9 DEF ViewsInv

\* A write statement: it gets the lock, or waits, or dies.
LEMMA WriteStep ==
    ASSUME ViewsInv, TypeOK', NEW b \in Backends, NEW r \in Rels, Write(b, r)
    PROVE  ViewsInv'
<1>t. TypeOK BY DEF ViewsInv
<1>n. b # None /\ phase[b] = "open" /\ wait[b] = None
  BY LockAssumption DEF Write, Running
<1>u. /\ r \in TX_RELS'[b] /\ (\A c \in Backends : TX_RELS[c] \subseteq TX_RELS'[c])
      /\ UNCHANGED <<nextTx, tx, committed, active, file, due>>
  BY <1>t DEF Write, Touch, TypeOK
<1>i. /\ in_txn'[b][r]
      /\ \A c \in Backends, q \in Rels : in_txn[c][q] => in_txn'[c][q]
  BY <1>t DEF Write, begin_if_needed, TypeOK, Conns
<1>1. CASE Verdict(b, r) = "ok" /\ Acquire(b, r) /\ UNCHANGED <<phase, wait>>
  <2>1. lock[r] # b => lock[r] = None /\ ViewOf(b, r) = file[r]
    BY <1>1 DEF Verdict, ViewOf
  <2> QED BY <1>1, <1>i, <1>n, <1>u, <2>1, AcquireStep
<1>2. CASE /\ Verdict(b, r) = "wait" /\ wait' = [wait EXCEPT ![b] = r]
           /\ UNCHANGED <<phase, lock, reading, view, wrote>>
  <2>1. ~reading[b][r] BY <1>2 DEF Verdict
  <2>2. WaitInv'
    <3> SUFFICES ASSUME NEW c \in Backends, wait'[c] # None
                 PROVE  /\ phase[c] = "open" /\ wait'[c] \in TX_RELS'[c]
                        /\ in_txn'[c][wait'[c]] /\ ~reading[c][wait'[c]]
      BY <1>2 DEF WaitInv
    <3>1. CASE c = b BY <1>2, <1>i, <1>n, <1>t, <1>u, <2>1, <3>1 DEF TypeOK
    <3>2. CASE c # b
      <4>1. wait'[c] = wait[c] /\ wait[c] \in Rels BY <1>2, <1>t, <3>2 DEF TypeOK
      <4> QED BY <1>i, <1>u, <4>1 DEF ViewsInv, WaitInv
    <3> QED BY <3>1, <3>2
  <2>3. LockInv' BY <1>2, <1>i, <1>u DEF ViewsInv, LockInv, Undecided
  <2>4. TxInv' /\ ViewInv' /\ FileInv' BY <1>2, <1>u
    DEF ViewsInv, TxInv, ViewInv, FileInv, Undecided
  <2>5. WroteInv' /\ CommittedStay' BY <1>2, <1>u
    DEF ViewsInv, WroteInv, CommittedStay, Undecided
  <2>6. DueInv' /\ ActiveInv' BY <1>2, <1>u DEF ViewsInv, DueInv, ActiveInv
  <2> QED BY <2>2, <2>3, <2>4, <2>5, <2>6 DEF ViewsInv
<1>3. CASE /\ phase' = [phase EXCEPT ![b] = "failed"]
           /\ UNCHANGED <<wait, lock, reading, view, wrote>>
  <2>1. \A c \in Backends : /\ Undecided(c)' <=> Undecided(c)
                            /\ phase'[c] = "idle" <=> phase[c] = "idle"
                            /\ wait[c] # None => phase'[c] = phase[c]
    BY <1>3, <1>n, <1>t DEF TypeOK, Undecided
  <2>2. WaitInv'
    <3> SUFFICES ASSUME NEW c \in Backends, wait[c] # None
                 PROVE  /\ phase'[c] = "open" /\ wait[c] \in TX_RELS'[c]
                        /\ in_txn'[c][wait[c]] /\ ~reading[c][wait[c]]
      BY <1>3 DEF WaitInv
    <3>1. wait[c] \in Rels BY <1>t DEF TypeOK
    <3> QED BY <1>i, <1>u, <2>1, <3>1 DEF ViewsInv, WaitInv
  <2>3. LockInv' BY <1>3, <1>i, <1>u, <2>1 DEF ViewsInv, LockInv
  <2>4. TxInv' BY <1>3, <1>u, <2>1 DEF ViewsInv, TxInv
  <2>5. ViewInv' /\ FileInv' BY <1>3, <1>u, <2>1 DEF ViewsInv, ViewInv, FileInv
  <2>6. WroteInv' /\ CommittedStay' BY <1>3, <1>u, <2>1
    DEF ViewsInv, WroteInv, CommittedStay
  <2>7. DueInv' /\ ActiveInv' BY <1>3, <1>u DEF ViewsInv, DueInv, ActiveInv
  <2> QED BY <2>2, <2>3, <2>4, <2>5, <2>6, <2>7 DEF ViewsInv
<1> QED BY <1>1, <1>2, <1>3 DEF Write, step_done

\* The busy handler gets the lock, or gives up.
LEMMA GrantedStep ==
    ASSUME ViewsInv, TypeOK', NEW b \in Backends, Granted(b) PROVE ViewsInv'
<1>t. TypeOK BY DEF ViewsInv
<1>1. /\ wait[b] \in Rels /\ phase[b] = "open" /\ wait[b] \in TX_RELS[b]
      /\ in_txn[b][wait[b]] /\ ~reading[b][wait[b]]
  BY <1>t DEF Granted, ViewsInv, WaitInv, TypeOK
<1>2. lock[wait[b]] = None /\ ViewOf(b, wait[b]) = file[wait[b]]
  BY <1>1 DEF Granted, ViewOf
<1>3. /\ \A c \in Backends : wait'[c] # None => wait'[c] = wait[c]
      /\ wait'[b] = None
  BY <1>t DEF Granted, TypeOK
<1>4. /\ TX_RELS' = TX_RELS /\ in_txn' = in_txn /\ Acquire(b, wait[b])
      /\ UNCHANGED <<nextTx, tx, phase, committed, active, file, due>>
  BY DEF Granted
<1> QED BY <1>1, <1>2, <1>3, <1>4, AcquireStep

\* A busy handler that gives up fails the statement and its transaction.
LEMMA BusyTimeoutStep ==
    ASSUME ViewsInv, TypeOK', NEW b \in Backends, BusyTimeout(b) PROVE ViewsInv'
<1>t. TypeOK BY DEF ViewsInv
<1>u. /\ phase' = [phase EXCEPT ![b] = "failed"] /\ wait' = [wait EXCEPT ![b] = None]
      /\ UNCHANGED <<nextTx, tx, committed, TX_RELS, in_txn, active, reading, view,
                     lock, file, wrote, due>>
      /\ phase[b] = "open"
  BY DEF BusyTimeout, ViewsInv, WaitInv
<1>p. /\ \A c \in Backends : /\ Undecided(c)' <=> Undecided(c)
                             /\ phase'[c] = "idle" <=> phase[c] = "idle"
      /\ \A c \in Backends \ {b} : phase'[c] = phase[c] /\ wait'[c] = wait[c]
      /\ wait'[b] = None
  BY <1>u, <1>t DEF TypeOK, Undecided
<1>1. TxInv' BY <1>p, <1>u DEF ViewsInv, TxInv
<1>2. LockInv' BY <1>p, <1>u DEF ViewsInv, LockInv
<1>3. WaitInv' BY <1>p, <1>u DEF ViewsInv, WaitInv
<1>4. ViewInv' /\ FileInv' BY <1>p, <1>u DEF ViewsInv, ViewInv, FileInv
<1>5. WroteInv' /\ CommittedStay' BY <1>p, <1>u DEF ViewsInv, WroteInv, CommittedStay
<1>6. DueInv' /\ ActiveInv' BY <1>u DEF ViewsInv, DueInv, ActiveInv
<1> QED BY <1>1, <1>2, <1>3, <1>4, <1>5, <1>6 DEF ViewsInv

\* A transaction starts.
LEMMA BeginStep ==
    ASSUME ViewsInv, TypeOK', NEW b \in Backends, Begin(b) PROVE ViewsInv'
<1>t. TypeOK BY DEF ViewsInv
<1>u. /\ tx' = [tx EXCEPT ![b] = nextTx] /\ nextTx' = nextTx + 1
      /\ phase' = [phase EXCEPT ![b] = "open"] /\ phase[b] = "idle"
      /\ UNCHANGED <<committed, TX_RELS, in_txn, active, reading, view, wait, lock,
                     file, wrote, due>>
      /\ nextTx \in Txs
  BY <1>t, LockAssumption DEF Begin, sqlite, TypeOK, Txs
<1>p. /\ phase'[b] = "open" /\ tx'[b] = nextTx /\ Undecided(b)'
      /\ \A c \in Backends \ {b} : /\ phase'[c] = phase[c] /\ tx'[c] = tx[c]
                                   /\ Undecided(c)' <=> Undecided(c)
  BY <1>t, <1>u DEF TypeOK, Undecided
<1>l. /\ \A q \in Rels : lock[q] # b
      /\ wait[b] = None
  BY <1>u DEF ViewsInv, LockInv, WaitInv, Undecided
<1>1. TxInv'
  <2>1. \A t \in committed : t \in Nat BY <1>t DEF TypeOK, Txs
  <2>2. \A c \in Backends : tx[c] \in Nat BY <1>t DEF TypeOK
  <2>3. nextTx \in Nat \ {0} BY <1>u DEF Txs
  <2> QED BY <1>p, <1>u, <2>1, <2>2, <2>3 DEF ViewsInv, TxInv
<1>2. LockInv' BY <1>l, <1>p, <1>u DEF ViewsInv, LockInv
<1>3. WaitInv' BY <1>l, <1>p, <1>u DEF ViewsInv, WaitInv
<1>4. ViewInv' BY <1>l, <1>p, <1>u DEF ViewsInv, ViewInv
<1>5. FileInv'
  <2>1. \A q \in Rels : \A t \in file[q] : t \in Nat BY <1>t DEF TypeOK, Txs
  <2>2. nextTx \in Nat BY <1>u DEF Txs
  <2>3. \A q \in Rels : \A t \in file[q] : t < nextTx /\ t < nextTx + 1
    BY <2>1, <2>2 DEF ViewsInv, FileInv
  <2>4. \A q \in Rels : nextTx \notin file[q] BY <2>2, <2>3
  <2> QED BY <1>p, <1>u, <2>3, <2>4 DEF ViewsInv, FileInv
<1>6. WroteInv'
  <2>1. wrote[nextTx] = {} BY <1>u DEF ViewsInv, WroteInv, Txs
  <2>2. \A t \in Txs : t >= nextTx + 1 => wrote[t] = {}
    BY <1>u DEF ViewsInv, WroteInv, Txs
  <2> QED BY <1>p, <1>u, <2>1, <2>2 DEF ViewsInv, WroteInv
<1>7. CommittedStay' BY <1>u DEF ViewsInv, CommittedStay
<1>8. DueInv' /\ ActiveInv' BY <1>u DEF ViewsInv, DueInv, ActiveInv
<1> QED BY <1>1, <1>2, <1>3, <1>4, <1>5, <1>6, <1>7, <1>8 DEF ViewsInv

\* A savepoint starts.
LEMMA SubStartStep ==
    ASSUME ViewsInv, TypeOK', NEW b \in Backends, on_sub_start(b) PROVE ViewsInv'
<1>t. TypeOK BY DEF ViewsInv
<1>u. UNCHANGED <<nextTx, tx, phase, committed, TX_RELS, active, reading, view, wait,
                  lock, file, wrote, due>>
  BY DEF on_sub_start, sqlite
<1>i. \A c \in Backends, q \in Rels : in_txn[c][q] => in_txn'[c][q]
  BY <1>t DEF on_sub_start, begin_if_needed, TypeOK, Conns
<1>1. LockInv' BY <1>i, <1>u DEF ViewsInv, LockInv, Undecided
<1>2. WaitInv'
  <2>1. \A c \in Backends : wait[c] \in Rels \cup {None} BY <1>t DEF TypeOK
  <2> QED BY <1>i, <1>u, <2>1 DEF ViewsInv, WaitInv
<1>3. TxInv' /\ ViewInv' /\ FileInv' BY <1>u
  DEF ViewsInv, TxInv, ViewInv, FileInv, Undecided
<1>4. WroteInv' /\ CommittedStay' BY <1>u DEF ViewsInv, WroteInv, CommittedStay, Undecided
<1>5. DueInv' /\ ActiveInv' BY <1>u DEF ViewsInv, DueInv, ActiveInv
<1> QED BY <1>1, <1>2, <1>3, <1>4, <1>5 DEF ViewsInv

\* RELEASE of a savepoint.
LEMMA SubCommitStep ==
    ASSUME ViewsInv, TypeOK', NEW b \in Backends, on_sub_commit(b) PROVE ViewsInv'
<1>u. UNCHANGED <<nextTx, tx, phase, committed, TX_RELS, in_txn, active, reading, view,
                  wait, lock, file, wrote, due>>
  BY DEF on_sub_commit, sqlite
<1>1. LockInv' /\ WaitInv' BY <1>u DEF ViewsInv, LockInv, WaitInv, Undecided
<1>2. TxInv' /\ ViewInv' /\ FileInv' BY <1>u
  DEF ViewsInv, TxInv, ViewInv, FileInv, Undecided
<1>3. WroteInv' /\ CommittedStay' BY <1>u DEF ViewsInv, WroteInv, CommittedStay, Undecided
<1>4. DueInv' /\ ActiveInv' BY <1>u DEF ViewsInv, DueInv, ActiveInv
<1> QED BY <1>1, <1>2, <1>3, <1>4 DEF ViewsInv

\* ROLLBACK TO: what it takes back was in no file, and the locks stay.
LEMMA SubAbortStep ==
    ASSUME ViewsInv, TypeOK', NEW b \in Backends, on_sub_abort(b) PROVE ViewsInv'
<1>t. TypeOK BY DEF ViewsInv
<1>u. /\ phase' = [phase EXCEPT ![b] = "open"]
      /\ wrote' = [wrote EXCEPT ![tx[b]] = @ \ undoes[b]]
      /\ UNCHANGED <<nextTx, tx, committed, TX_RELS, in_txn, active, reading, wait, lock,
                     file, due>>
      /\ Undecided(b) /\ wait[b] = None
  <2>1. phase[b] = "failed" => wait[b] = None BY DEF ViewsInv, WaitInv
  <2> QED BY <2>1 DEF on_sub_abort, Running, Undecided
<1>v. \A c \in Backends, q \in Rels :
        /\ view'[c][q] \subseteq view[c][q]
        /\ view[c][q] \subseteq view'[c][q] \cup {tx[b]}
        /\ c # b \/ q \notin undoes[b] => view'[c][q] = view[c][q]
  <2> SUFFICES ASSUME NEW c \in Backends, NEW q \in Rels
               PROVE  /\ view'[c][q] \subseteq view[c][q]
                      /\ view[c][q] \subseteq view'[c][q] \cup {tx[b]}
                      /\ c # b \/ q \notin undoes[b] => view'[c][q] = view[c][q]
    OBVIOUS
  <2>1. CASE c = b
    <3>1. view'[b][q] = view[b][q] \ {t \in {tx[b]} : q \in undoes[b]}
      BY <1>t DEF on_sub_abort, TypeOK, Conns
    <3> QED BY <2>1, <3>1
  <2>2. CASE c # b
    <3>1. view'[c][q] = view[c][q] BY <1>t, <2>2 DEF on_sub_abort, TypeOK, Conns
    <3> QED BY <2>2, <3>1
  <2> QED BY <2>1, <2>2
<1>p. \A c \in Backends : /\ Undecided(c)' <=> Undecided(c)
                          /\ phase'[c] = "idle" <=> phase[c] = "idle"
                          /\ c # b => phase'[c] = phase[c]
  BY <1>t, <1>u DEF TypeOK, Undecided
<1>x. /\ tx[b] # 0 /\ tx[b] \in Txs /\ (\A c \in Backends \ {b} : tx[c] # tx[b])
      /\ \A q \in Rels : tx[b] \notin file[q]
  BY <1>t, <1>u, LockAssumption DEF ViewsInv, TxInv, FileInv, Undecided, TypeOK, Txs
<1>w. /\ \A t \in Txs : wrote'[t] \subseteq wrote[t] /\ (t # tx[b] => wrote'[t] = wrote[t])
      /\ \A q \in wrote'[tx[b]] : q \notin undoes[b]
  BY <1>t, <1>u, <1>x DEF TypeOK
<1>1. TxInv' BY <1>p, <1>u DEF ViewsInv, TxInv
<1>2. LockInv' BY <1>p, <1>u, <1>v, <1>x DEF ViewsInv, LockInv
<1>3. WaitInv' BY <1>p, <1>u DEF ViewsInv, WaitInv
<1>4. ViewInv'
  <2>1. \A c \in Backends, q \in Rels :
          view'[c][q] \subseteq file[q] \cup {t \in {tx[c]} : lock[q] = c}
    BY <1>v DEF ViewsInv, ViewInv
  <2> QED BY <1>u, <2>1 DEF ViewInv
<1>5. FileInv' BY <1>p, <1>u DEF ViewsInv, FileInv
<1>6. WroteInv'
  <2>1. \A t \in Txs : t >= nextTx => wrote'[t] = {}
    BY <1>w DEF ViewsInv, WroteInv
  <2> SUFFICES ASSUME NEW c \in Backends, NEW q \in Rels, tx[c] # 0, q \in wrote'[tx[c]]
               PROVE  /\ Undecided(c)' => lock[q] = c /\ tx[c] \in view'[c][q]
                      /\ ~Undecided(c)' => tx[c] \in file[q]
    BY <1>u, <2>1 DEF WroteInv
  <2>2. tx[c] \in Txs BY <1>t, LockAssumption DEF TypeOK, Txs
  <2>3. /\ Undecided(c) => lock[q] = c /\ tx[c] \in view[c][q]
        /\ ~Undecided(c) => tx[c] \in file[q]
    BY <1>w, <2>2 DEF ViewsInv, WroteInv
  <2>4. view'[c][q] = view[c][q] BY <1>v, <1>w
  <2> QED BY <1>p, <2>3, <2>4
<1>7. CommittedStay'
  <2>1. \A t \in committed : t \in Txs BY <1>t DEF TypeOK
  <2> QED BY <1>u, <1>w, <2>1 DEF ViewsInv, CommittedStay
<1>8. DueInv'
  <2> SUFFICES ASSUME NEW c \in Backends, NEW q \in Rels
               PROVE  /\ due[c][q] \subseteq file[q]
                      /\ reading[c][q] => due[c][q] \subseteq view'[c][q]
    BY <1>u DEF DueInv
  <2>1. /\ due[c][q] \subseteq file[q]
        /\ reading[c][q] => due[c][q] \subseteq view[c][q]
    BY DEF ViewsInv, DueInv
  <2> QED BY <1>v, <1>x, <2>1
<1>9. ActiveInv' BY <1>u DEF ViewsInv, ActiveInv
<1> QED BY <1>1, <1>2, <1>3, <1>4, <1>5, <1>6, <1>7, <1>8, <1>9 DEF ViewsInv

\* A backend goes away, with its connections.
LEMMA ExitStep ==
    ASSUME ViewsInv, TypeOK', NEW b \in Backends, Exit(b) PROVE ViewsInv'
<1>t. TypeOK BY DEF ViewsInv
<1>u. UNCHANGED <<nextTx, tx, phase, committed, TX_RELS, in_txn, wait, lock, file,
                  wrote, due>>
  BY DEF Exit
<1>v. /\ \A q \in Rels : /\ active'[b][q] = {} /\ ~reading'[b][q] /\ view'[b][q] = {}
      /\ \A c \in Backends \ {b}, q \in Rels :
           /\ active'[c][q] = active[c][q] /\ reading'[c][q] = reading[c][q]
           /\ view'[c][q] = view[c][q]
  BY <1>t DEF Exit, TypeOK, Conns
<1>l. ~Undecided(b) /\ tx[b] = 0 BY DEF Exit, Undecided, ViewsInv, TxInv
<1>1. LockInv' BY <1>l, <1>u, <1>v DEF ViewsInv, LockInv, Undecided
<1>2. WaitInv'
  <2>1. \A c \in Backends : wait[c] \in Rels \cup {None} BY <1>t DEF TypeOK
  <2>2. \A c \in Backends, q \in Rels : ~reading[c][q] => ~reading'[c][q] BY <1>v
  <2> QED BY <1>u, <2>1, <2>2 DEF ViewsInv, WaitInv
<1>3. TxInv' /\ FileInv' BY <1>u DEF ViewsInv, TxInv, FileInv, Undecided
<1>4. ViewInv'
  <2>1. \A c \in Backends, q \in Rels : view'[c][q] \subseteq view[c][q] BY <1>v
  <2> QED BY <1>u, <2>1 DEF ViewsInv, ViewInv
<1>5. WroteInv' BY <1>l, <1>u, <1>v DEF ViewsInv, WroteInv, Undecided
<1>6. CommittedStay' BY <1>u DEF ViewsInv, CommittedStay
<1>7. DueInv' BY <1>u, <1>v DEF ViewsInv, DueInv
<1>8. ActiveInv' BY <1>v DEF ViewsInv, ActiveInv
<1> QED BY <1>1, <1>2, <1>3, <1>4, <1>5, <1>6, <1>7, <1>8 DEF ViewsInv

\* Every step keeps the invariant.
LEMMA ViewsStep == ASSUME ViewsInv, [Next]_vars PROVE ViewsInv'
<1>t. TypeOK' BY TypeStep DEF ViewsInv
<1>1. CASE UNCHANGED vars
  <2>1. UNCHANGED <<nextTx, tx, phase, committed, TX_RELS, in_txn, active, reading,
                    view, wait, lock, file, wrote, due>>
    BY <1>1 DEF vars, sqlite
  <2>2. TxInv' /\ LockInv' /\ WaitInv' BY <2>1
    DEF ViewsInv, TxInv, LockInv, WaitInv, Undecided
  <2>3. ViewInv' /\ FileInv' /\ DueInv' /\ ActiveInv' BY <2>1
    DEF ViewsInv, ViewInv, FileInv, DueInv, ActiveInv, Undecided
  <2>4. WroteInv' /\ CommittedStay' BY <2>1
    DEF ViewsInv, WroteInv, CommittedStay, Undecided
  <2> QED BY <1>t, <2>2, <2>3, <2>4 DEF ViewsInv
<1>2. ASSUME NEW b \in Backends,
             \/ Begin(b) \/ on_sub_start(b) \/ on_sub_commit(b) \/ on_sub_abort(b)
             \/ Granted(b) \/ BusyTimeout(b)
             \/ on_precommit(b) \/ EndXact(b) \/ on_abort(b) \/ Exit(b)
      PROVE  ViewsInv'
  BY <1>2, <1>t, BeginStep, SubStartStep, SubCommitStep, SubAbortStep, GrantedStep, BusyTimeoutStep,
     PreCommitStep, EndXactStep, AbortStep, ExitStep
<1>3. ASSUME NEW b \in Backends, NEW r \in Rels, Write(b, r) PROVE ViewsInv'
  BY <1>3, <1>t, WriteStep
<1>4. ASSUME NEW b \in Backends, NEW r \in ReadRels, relation_estimate_size(b, r)
      PROVE  ViewsInv'
  <2>1. /\ r \in Rels /\ "count" \in Stmts /\ TRUE \in BOOLEAN
        /\ Running(b) /\ Touch(b, r) /\ StepStatement(b, r, "count", TRUE)
        /\ UNCHANGED readUnchanged
        /\ due' = [due EXCEPT ![b][r] =
              IF active[b][r] \subseteq {"count"} /\ ~in_txn[b][r] THEN file[r] ELSE @]
    BY <1>4, LockAssumption DEF relation_estimate_size, estimate_size, Stmts
  <2> QED BY <1>t, <2>1, ReadStep
<1>5. ASSUME NEW b \in Backends, NEW r \in ReadRels, select_all(b, r) PROVE ViewsInv'
  <2>1. /\ r \in Rels /\ FALSE \in BOOLEAN
        /\ Running(b) /\ Touch(b, r) /\ StepStatement(b, r, "all", FALSE)
        /\ UNCHANGED readUnchanged /\ due' = due
    BY <1>5, LockAssumption DEF select_all
  <2> QED BY <1>t, <2>1, ReadStep
<1>6. ASSUME NEW b \in Backends, NEW r \in ReadRels, NEW s \in Lookups,
             NEW found \in BOOLEAN, Lookup(b, r, s, found)
      PROVE  ViewsInv'
  <2>1. /\ r \in Rels /\ s \in Stmts
        /\ Running(b) /\ Touch(b, r) /\ StepStatement(b, r, s, found)
        /\ UNCHANGED readUnchanged /\ due' = due
    BY <1>6, LockAssumption DEF Lookup, Stmts
  <2> QED BY <1>t, <2>1, ReadStep
<1> QED BY <1>1, <1>2, <1>3, <1>4, <1>5, <1>6 DEF Next

\* The invariant holds throughout.
LEMMA ViewsInvariant == Spec => []ViewsInv
<1>1. Init => ViewsInv BY ViewsInit
<1>2. ViewsInv /\ [Next]_vars => ViewsInv' BY ViewsStep
<1> QED BY <1>1, <1>2, PTL DEF Spec

\* No committed write is overwritten or dropped, whatever views statements left
\* active keep: for any number of backends, relations and transactions.
THEOREM NoLostWrites == Spec => []CommittedStay
<1>1. ViewsInv => CommittedStay BY DEF ViewsInv
<1> QED BY <1>1, ViewsInvariant, PTL

\* What was committed when a statement was planned, with no lookup active and
\* no SQLite transaction, is in everything the connection reads afterwards.
THEOREM PlansReadFresh == Spec => []PlannedFresh
<1>1. ViewsInv => PlannedFresh BY DEF ViewsInv, DueInv, PlannedFresh, ViewOf
<1> QED BY <1>1, ViewsInvariant, PTL

\* Every variable has its type.
THEOREM ViewsTypeCorrect == Spec => []TypeOK
<1>1. ViewsInv => TypeOK BY DEF ViewsInv
<1> QED BY <1>1, ViewsInvariant, PTL
=============================================================================
