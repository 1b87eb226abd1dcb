---------------------------- MODULE XactConnProofs ----------------------------
(***************************************************************************)
(* Proofs about XactConn, for any finite set of relations, any number of   *)
(* transactions and any depth of subtransactions.                          *)
(***************************************************************************)
EXTENDS XactConn, SequenceTheorems, TLAPS

\* An entry of stack, and one of a connection's savepoints.
Level     == [id: Nat, all: SUBSET Nat]
Savepoint == [id: Nat, name: Int, saved: SUBSET Nat]

\* Every variable has its type, and a connection is adrift only after a rollback
\* of SQLite's own.
TypeInv ==
    /\ pg \in {"idle", "open", "failed", "precommit", "late", "committed"}
    /\ stack \in Seq(Level) /\ nextId \in Nat /\ committed \in SUBSET Nat
    /\ registered \in BOOLEAN /\ unlinks \in SUBSET Rels /\ dropper \in [Rels -> Nat]
    /\ TX_RELS \in SUBSET Rels /\ CONNS \in SUBSET Rels /\ taken \in SUBSET Rels
    /\ in_txn \in [Rels -> BOOLEAN] /\ exists \in [Rels -> BOOLEAN]
    /\ work \in [Rels -> SUBSET Nat] /\ file \in [Rels -> SUBSET Nat]
    /\ savepoints \in [Rels -> Seq(Savepoint)]
    /\ wrote \in [Rels -> SUBSET Nat] /\ bare \in [Rels -> SUBSET Nat]
    /\ undone \in SUBSET Nat /\ stranded \in SUBSET Rels
    /\ ruined \in SUBSET Rels /\ adrift \subseteq ruined

\* The current transaction can still be rolled back as a whole, by statements.
Live == pg \in {"open", "failed"}

\* Numbers are given out once: those of a level are not below its own and below
\* the next level's.
StackInv ==
    /\ pg = "idle" <=> stack = <<>>
    /\ pg \in {"precommit", "late", "committed"} => Len(stack) = 1
    /\ \A i \in DOMAIN stack :
           /\ stack[i].id \in stack[i].all
           /\ \A x \in stack[i].all :
                  /\ stack[i].id <= x /\ x < nextId
                  /\ \A k \in DOMAIN stack : i < k => x < stack[k].id
                  /\ x \in committed <=> pg = "committed"
                  /\ Live => x \notin undone
    /\ \A x \in committed \cup undone : x < nextId
    /\ \A r \in Rels : \A x \in wrote[r] : x < nextId

\* Whoever has touched a relation has the callbacks, and an open SQLite
\* transaction belongs to a relation that they will end, or that a failed
\* COMMIT left.
CallInv ==
    /\ Live => (TX_RELS # {} => registered)
    /\ ~Live => TX_RELS = {}
    /\ pg # "precommit" => taken = {}
    /\ \A r \in Rels : in_txn[r] => r \in CONNS /\ r \in TX_RELS \cup taken \cup stranded

\* A registered unlink is of a relation that the top transaction drops.
DropInv ==
    /\ \A r \in unlinks : stack # <<>> /\ dropper[r] \in stack[1].all
    /\ \A r \in Rels : ~exists[r] => dropper[r] \in committed

\* r has the SAVEPOINT of level i.
Real(r, i) == \E j \in DOMAIN savepoints[r] : savepoints[r][j].id = stack[i].id

\* r's savepoints: later ones have larger numbers and name a later
\* subtransaction; one remembers only what was written before it.
OrderOf(r) ==
    /\ ~in_txn[r] => savepoints[r] = <<>>
    /\ \A j \in DOMAIN savepoints[r] :
           /\ savepoints[r][j].id < nextId
           /\ \A x \in savepoints[r][j].saved : x < savepoints[r][j].id
           /\ \A k \in DOMAIN savepoints[r] : j < k => savepoints[r][j].id < savepoints[r][k].id
           /\ stack # <<>> => /\ savepoints[r][j].id # stack[1].id
                              /\ savepoints[r][j].id > stack[1].id =>
                                     savepoints[r][j].name = SubId(savepoints[r][j].id)

\* The levels with a SAVEPOINT on r: all from one on, and every level above a
\* write.  The savepoint of a level remembers what the levels below wrote.
LevelsOf(r) ==
    Live =>
        /\ \A i \in 2..Len(stack) : Real(r, i) =>
               /\ registered /\ r \in TX_RELS \cap CONNS
               /\ \A k \in i..Len(stack) : Real(r, k)
        /\ \A i \in DOMAIN stack : \A x \in wrote[r] \cap stack[i].all :
               /\ registered /\ r \in TX_RELS \cap CONNS /\ in_txn[r] /\ x \in work[r]
               /\ \A k \in (i + 1)..Len(stack) :
                      /\ Real(r, k)
                      /\ \A j \in DOMAIN savepoints[r] :
                             savepoints[r][j].id = stack[k].id => x \in savepoints[r][j].saved

\* What SQLite may make the content of r: the file, the open transaction's view,
\* or what a savepoint remembers.
Contents(r) == {file[r]} \cup {w \in {work[r]} : in_txn[r]}
                   \cup {savepoints[r][j].saved : j \in DOMAIN savepoints[r]}

\* All of them have what was committed to r.
StoreOf(r) ==
    /\ dropper[r] \notin committed =>
           \A x \in wrote[r] \cap committed : \A s \in Contents(r) : x \in s
    /\ pg = "precommit" => \A i \in DOMAIN stack : \A x \in wrote[r] \cap stack[i].all :
           \/ r \in taken \cap CONNS /\ in_txn[r] /\ x \in work[r]
           \/ r \notin taken /\ ~in_txn[r] /\ x \in file[r]

\* None has a number that was rolled back, or may be, unless it is in bare.
TraceOf(r) ==
    /\ Live => \A i \in DOMAIN stack : \A x \in stack[i].all : x \notin file[r]
    /\ \A s \in Contents(r) : \A x \in s :
           /\ x \in wrote[r]
           /\ x \in undone => x \in bare[r]
           /\ Live => \A k \in DOMAIN stack : x \in stack[k].all =>
                          \A i \in 2..k : Real(r, i) \/ x \in bare[r]

\* For every relation whose transactions SQLite has never rolled back by itself.
CleanInv == \A r \in Rels \ ruined : OrderOf(r) /\ LevelsOf(r) /\ TraceOf(r)
StoreInv == \A r \in Rels \ ruined : StoreOf(r)

-----------------------------------------------------------------------------
(* The stack of levels. *)

\* A new level on top.
LEMMA PushLevel ==
    ASSUME TypeInv, on_sub_start
    PROVE  /\ stack' \in Seq(Level) /\ Len(stack') = Len(stack) + 1
           /\ \A i \in DOMAIN stack : stack'[i] = stack[i]
           /\ stack'[Len(stack) + 1] = [id |-> nextId, all |-> {nextId}]
<1>1. [id |-> nextId, all |-> {nextId}] \in Level BY DEF TypeInv, Level
<1> QED BY <1>1 DEF TypeInv, on_sub_start

\* The top level is rolled back.
LEMMA PopLevel ==
    ASSUME TypeInv, on_sub_abort
    PROVE  /\ stack' \in Seq(Level) /\ Len(stack') = Len(stack) - 1 /\ Len(stack) > 1
           /\ \A i \in 1..(Len(stack) - 1) : stack'[i] = stack[i]
BY DEF TypeInv, on_sub_abort

\* The top level is merged into the one below.
LEMMA MergeLevel ==
    ASSUME TypeInv, on_sub_commit
    PROVE  /\ stack' \in Seq(Level) /\ Len(stack') = Len(stack) - 1 /\ Len(stack) > 1
           /\ \A i \in 1..(Len(stack) - 1) : stack'[i].id = stack[i].id
           /\ \A i \in 1..(Len(stack) - 2) : stack'[i].all = stack[i].all
           /\ stack'[Len(stack) - 1].all = stack[Len(stack) - 1].all \cup stack[Len(stack)].all
<1> DEFINE L == Len(stack)
           s == SubSeq(stack, 1, L - 1)
<1>1. stack \in Seq(Level) /\ L \in Nat /\ L > 1 BY DEF TypeInv, on_sub_commit
<1>2. s \in Seq(Level) /\ Len(s) = L - 1 /\ \A i \in 1..(L - 1) : s[i] = stack[i] BY <1>1
<1>3. stack' = [s EXCEPT ![L - 1].all = s[L - 1].all \cup Top.all] BY DEF on_sub_commit
<1>4. Top = stack[L] BY DEF Top
<1>5. s[L - 1] \in Level /\ stack[L] \in Level BY <1>1, <1>2
<1> DEFINE e == [s[L - 1] EXCEPT !.all = s[L - 1].all \cup Top.all]
<1>6. e \in Level /\ e.id = s[L - 1].id /\ e.all = s[L - 1].all \cup Top.all
  BY <1>4, <1>5 DEF Level
<1>7. stack' = [s EXCEPT ![L - 1] = e] BY <1>3
<1>8. L - 1 \in 1..Len(s) BY <1>1, <1>2
<1> HIDE DEF s, e
<1>9. stack' \in Seq(Level) /\ Len(stack') = Len(s)
      /\ \A i \in 1..Len(s) : stack'[i] = IF i = L - 1 THEN e ELSE s[i]
  BY <1>2, <1>6, <1>7, <1>8, ExceptSeq
<1>10. /\ \A i \in 1..(L - 1) : stack'[i].id = stack[i].id
       /\ \A i \in 1..(L - 2) : stack'[i].all = stack[i].all
       /\ stack'[L - 1].all = stack[L - 1].all \cup stack[L].all
  <2> HIDE DEF L
  <2> QED BY <1>1, <1>2, <1>4, <1>6, <1>8, <1>9
<1> QED BY <1>1, <1>2, <1>9, <1>10

-----------------------------------------------------------------------------
(* Savepoints, and types. *)

\* The savepoint that RELEASE and ROLLBACK TO find.
At(r) == CHOOSE i \in Place(r) : TRUE

\* It has the top level's name, and none above has.
LEMMA PlaceIs ==
    ASSUME NEW r \in Rels, Place(r) # {}
    PROVE  /\ At(r) \in DOMAIN savepoints[r] /\ r \in Callable /\ in_txn[r]
           /\ savepoints[r][At(r)].name = SubId(Top.id)
           /\ \A j \in DOMAIN savepoints[r] :
                  savepoints[r][j].name = SubId(Top.id) => j <= At(r)
<1>1. At(r) \in Place(r) BY DEF At
<1> QED BY <1>1 DEF Place

\* What a connection sees is a set of numbers.
LEMMA CurrentTyped ==
    ASSUME TypeInv, NEW r \in Rels
    PROVE  Current(r) \in SUBSET Nat /\ savepoints[r] \in Seq(Savepoint)
BY DEF TypeInv, Current

\* SQLite's side of the start of a subtransaction.
LEMMA PushSavepoints ==
    ASSUME TypeInv, stack # <<>>, on_sub_start, NEW r \in Rels
    PROVE  /\ savepoints'[r] \in Seq(Savepoint)
           /\ r \notin Callable => savepoints'[r] = savepoints[r] /\ in_txn'[r] = in_txn[r]
                                   /\ work'[r] = work[r]
           /\ r \in Callable =>
                  /\ in_txn'[r] /\ work'[r] = Current(r)
                  /\ Len(savepoints'[r]) = Len(savepoints[r]) + 1
                  /\ \A j \in DOMAIN savepoints[r] : savepoints'[r][j] = savepoints[r][j]
                  /\ savepoints'[r][Len(savepoints[r]) + 1].id = nextId
                  /\ savepoints'[r][Len(savepoints[r]) + 1].name = SubId(nextId)
                  /\ savepoints'[r][Len(savepoints[r]) + 1].saved = Current(r)
<1> DEFINE sp == [id |-> nextId, name |-> SubId(nextId), saved |-> Current(r)]
<1>1. Current(r) \in SUBSET Nat /\ savepoints[r] \in Seq(Savepoint) BY CurrentTyped
<1>2. stack[1] \in Level /\ nextId \in Nat BY DEF TypeInv
<1>3. SubId(nextId) \in Int BY <1>2 DEF SubId, Level
<1>4. sp \in Savepoint BY <1>1, <1>2, <1>3 DEF Savepoint
<1>5. savepoints'[r] = IF r \in Callable THEN Append(savepoints[r], sp) ELSE savepoints[r]
  BY DEF on_sub_start
<1>6. /\ in_txn'[r] = (in_txn[r] \/ r \in Callable) /\ in_txn[r] \in BOOLEAN
      /\ work'[r] = IF r \in Callable THEN Current(r) ELSE work[r]
  BY DEF on_sub_start, TypeInv
<1>7. sp.id = nextId /\ sp.name = SubId(nextId) /\ sp.saved = Current(r) OBVIOUS
<1> HIDE DEF sp
<1>8. CASE r \in Callable
  <2>1. savepoints'[r] = Append(savepoints[r], sp) BY <1>5, <1>8
  <2>2. /\ savepoints'[r] \in Seq(Savepoint) /\ Len(savepoints'[r]) = Len(savepoints[r]) + 1
        /\ \A j \in DOMAIN savepoints[r] : savepoints'[r][j] = savepoints[r][j]
        /\ savepoints'[r][Len(savepoints[r]) + 1] = sp
    BY <1>1, <1>4, <2>1
  <2> QED BY <1>6, <1>7, <1>8, <2>2
<1>9. CASE r \notin Callable BY <1>1, <1>5, <1>6, <1>9
<1> QED BY <1>8, <1>9

\* RELEASE.
LEMMA PopSavepoints ==
    ASSUME TypeInv, on_sub_commit, NEW r \in Rels
    PROVE  /\ Place(r) = {} => savepoints'[r] = savepoints[r]
           /\ Place(r) # {} =>
                  /\ savepoints'[r] \in Seq(Savepoint) /\ Len(savepoints'[r]) = At(r) - 1
                  /\ At(r) \in DOMAIN savepoints[r]
                  /\ \A j \in 1..(At(r) - 1) : savepoints'[r][j] = savepoints[r][j]
           /\ savepoints'[r] \in Seq(Savepoint)
<1>1. savepoints'[r] = IF Place(r) = {} THEN savepoints[r] ELSE SubSeq(savepoints[r], 1, At(r) - 1)
  BY DEF on_sub_commit, At
<1>2. savepoints[r] \in Seq(Savepoint) BY CurrentTyped
<1>3. CASE Place(r) # {}
  <2>1. At(r) \in DOMAIN savepoints[r] BY <1>3, PlaceIs
  <2> QED BY <1>1, <1>2, <1>3, <2>1
<1>4. CASE Place(r) = {} BY <1>1, <1>2, <1>4
<1> QED BY <1>3, <1>4

\* ROLLBACK TO.
LEMMA CutSavepoints ==
    ASSUME TypeInv, on_sub_abort, NEW r \in Rels
    PROVE  /\ Place(r) = {} => savepoints'[r] = savepoints[r] /\ work'[r] = work[r]
           /\ Place(r) # {} =>
                  /\ At(r) \in DOMAIN savepoints[r]
                  /\ savepoints'[r] \in Seq(Savepoint) /\ Len(savepoints'[r]) = At(r)
                  /\ \A j \in 1..At(r) : savepoints'[r][j] = savepoints[r][j]
                  /\ work'[r] = savepoints[r][At(r)].saved
           /\ savepoints'[r] \in Seq(Savepoint) /\ work'[r] \in SUBSET Nat
<1>1. savepoints'[r] = IF Place(r) = {} THEN savepoints[r] ELSE SubSeq(savepoints[r], 1, At(r))
  BY DEF on_sub_abort, At
<1>2. work'[r] = IF Place(r) = {} THEN work[r] ELSE savepoints[r][At(r)].saved
  BY DEF on_sub_abort, At
<1>3. savepoints[r] \in Seq(Savepoint) /\ work[r] \in SUBSET Nat BY DEF TypeInv
<1>4. CASE Place(r) # {}
  <2>1. At(r) \in DOMAIN savepoints[r] BY <1>4, PlaceIs
  <2>2. savepoints[r][At(r)] \in Savepoint BY <1>3, <2>1
  <2>3. savepoints[r][At(r)].saved \in SUBSET Nat BY <2>2 DEF Savepoint
  <2> QED BY <1>1, <1>2, <1>3, <1>4, <2>1, <2>3
<1>5. CASE Place(r) = {} BY <1>1, <1>2, <1>3, <1>5
<1> QED BY <1>4, <1>5

\* Nothing has happened yet.
LEMMA TypeInit == Init => TypeInv /\ StackInv /\ CallInv /\ DropInv /\ CleanInv /\ StoreInv
<1> SUFFICES ASSUME Init
             PROVE  TypeInv /\ StackInv /\ CallInv /\ DropInv /\ CleanInv /\ StoreInv
  OBVIOUS
<1>1. TypeInv
  <2>1. stack \in Seq(Level) BY DEF Init
  <2>2. savepoints \in [Rels -> Seq(Savepoint)]
    <3>1. <<>> \in Seq(Savepoint) OBVIOUS
    <3> QED BY <3>1 DEF Init
  <2> QED BY <2>1, <2>2 DEF Init, TypeInv
<1>2. DOMAIN stack = {} /\ \A r \in Rels : DOMAIN savepoints[r] = {} BY DEF Init
<1>3. StackInv BY <1>2 DEF Init, StackInv
<1>4. CallInv /\ DropInv BY DEF Init, CallInv, DropInv, Live
<1>5. \A r \in Rels : \A s \in Contents(r) : s = {} BY <1>2 DEF Init, Contents
<1>6. \A r \in Rels : OrderOf(r) BY <1>2 DEF Init, OrderOf
<1>7. \A r \in Rels : LevelsOf(r) BY <1>2 DEF Init, LevelsOf, Live
<1>8. \A r \in Rels : TraceOf(r) BY <1>5 DEF Init, TraceOf, Live
<1>9. \A r \in Rels : StoreOf(r) BY <1>5 DEF Init, StoreOf
<1> QED BY <1>1, <1>3, <1>4, <1>6, <1>7, <1>8, <1>9 DEF CleanInv, StoreInv

\* What the end of SQLite transactions does to each relation.
LEMMA EndSqliteIs ==
    ASSUME TypeInv, NEW R, NEW f \in [Rels -> SUBSET Nat], EndSqlite(R, f)
    PROVE  /\ in_txn' \in [Rels -> BOOLEAN] /\ work' \in [Rels -> SUBSET Nat]
           /\ savepoints' \in [Rels -> Seq(Savepoint)] /\ file' = f
           /\ \A r \in Rels :
                  /\ r \in R => ~in_txn'[r] /\ savepoints'[r] = <<>>
                  /\ r \notin R => in_txn'[r] = in_txn[r] /\ work'[r] = work[r]
                                   /\ savepoints'[r] = savepoints[r]
           /\ stranded' \in SUBSET Rels /\ stranded' = stranded \ R
           /\ adrift' \subseteq ruined
<1>1. /\ stranded' = stranded \ R /\ stranded' \in SUBSET Rels
      /\ adrift' \subseteq ruined
  BY DEF EndSqlite, TypeInv
<1>2. \A r \in Rels : /\ in_txn'[r] = (in_txn[r] /\ r \notin R) /\ in_txn[r] \in BOOLEAN
                      /\ work'[r] = IF r \in R THEN {} ELSE work[r]
                      /\ savepoints'[r] = IF r \in R THEN <<>> ELSE savepoints[r]
  BY DEF EndSqlite, TypeInv
<1>3. in_txn' \in [Rels -> BOOLEAN] /\ work' \in [Rels -> SUBSET Nat]
  BY DEF EndSqlite, TypeInv
<1>4. savepoints' \in [Rels -> Seq(Savepoint)]
  <2>1. savepoints' = [r \in Rels |-> IF r \in R THEN <<>> ELSE savepoints[r]] BY DEF EndSqlite
  <2>2. \A r \in Rels : savepoints[r] \in Seq(Savepoint) /\ <<>> \in Seq(Savepoint)
    BY DEF TypeInv
  <2> QED BY <2>1, <2>2
<1>5. file' = f BY DEF EndSqlite
<1> QED BY <1>1, <1>2, <1>3, <1>4, <1>5

\* No step leaves the types.
LEMMA TypeStep == TypeInv /\ StackInv /\ Next => TypeInv'
<1> SUFFICES ASSUME TypeInv, StackInv, Next PROVE TypeInv' OBVIOUS
<1> USE DEF postgres, sqlite, history
<1>1. CASE Begin
  <2>1. stack' \in Seq(Level)
    <3>1. [id |-> nextId, all |-> {nextId}] \in Level BY DEF TypeInv, Level
    <3> QED BY <1>1, <3>1 DEF Begin
  <2> QED BY <1>1, <2>1 DEF Begin, TypeInv
<1>2. CASE StatementFails BY <1>2 DEF StatementFails, TypeInv
<1>3. ASSUME NEW r \in Rels, ensure_in_xact(r) PROVE TypeInv'
  BY <1>3 DEF ensure_in_xact, TypeInv
<1>4. ASSUME NEW r \in Rels, OpenFails(r) PROVE TypeInv' BY <1>4 DEF OpenFails, TypeInv
<1>5. ASSUME NEW r \in Rels, Uncached(r) PROVE TypeInv' BY <1>5 DEF Uncached, TypeInv
<1>w. ASSUME NEW r \in Rels, Writable(r), Written(r)
      PROVE  Top.id \in Nat /\ wrote' \in [Rels -> SUBSET Nat] /\ bare' \in [Rels -> SUBSET Nat]
  <2>1. stack # <<>> BY <1>w DEF Writable, StackInv
  <2>2. Top \in Level BY <2>1 DEF TypeInv, Top
  <2>3. Top.id \in Nat BY <2>2 DEF Level
  <2> QED BY <1>w, <2>3 DEF Written, TypeInv
<1>6. ASSUME NEW r \in Rels, Write(r) PROVE TypeInv'
  <2>1. /\ Current(r) \in SUBSET Nat /\ Top.id \in Nat
        /\ wrote' \in [Rels -> SUBSET Nat] /\ bare' \in [Rels -> SUBSET Nat]
    BY <1>6, <1>w, CurrentTyped DEF Write
  <2>2. work' \in [Rels -> SUBSET Nat] /\ in_txn' \in [Rels -> BOOLEAN]
    BY <1>6, <2>1 DEF Write, TypeInv
  <2> QED BY <1>6, <2>1, <2>2 DEF Write, TypeInv
<1>t. ASSUME NEW r \in Rels, WriteThrough(r) PROVE TypeInv'
  <2>1. /\ Top.id \in Nat
        /\ wrote' \in [Rels -> SUBSET Nat] /\ bare' \in [Rels -> SUBSET Nat]
    BY <1>t, <1>w DEF WriteThrough
  <2>2. file' \in [Rels -> SUBSET Nat] BY <1>t, <2>1 DEF WriteThrough, TypeInv
  <2> QED BY <1>t, <2>1, <2>2 DEF WriteThrough, TypeInv
<1>r. ASSUME NEW r \in Rels, RolledBack(r)
      PROVE  /\ work' \in [Rels -> SUBSET Nat] /\ savepoints' \in [Rels -> Seq(Savepoint)]
             /\ ruined' \in SUBSET Rels /\ adrift' \subseteq ruined'
  <2>1. <<>> \in Seq(Savepoint) OBVIOUS
  <2> QED BY <1>r, <2>1 DEF RolledBack, TypeInv
<1>f. ASSUME NEW r \in Rels, WriteRollsBack(r) PROVE TypeInv'
  <2>1. RolledBack(r) BY <1>f DEF WriteRollsBack
  <2> QED BY <1>f, <1>r, <2>1 DEF WriteRollsBack, TypeInv
<1>7. CASE on_sub_start
  <2>0. stack # <<>> BY <1>7 DEF on_sub_start, StackInv
  <2>1. stack' \in Seq(Level) BY <1>7, PushLevel
  <2>2. savepoints' \in [Rels -> Seq(Savepoint)]
    <3>1. \A r \in Rels : savepoints'[r] \in Seq(Savepoint) BY <1>7, <2>0, PushSavepoints
    <3>2. savepoints' = [r \in Rels |-> savepoints'[r]] BY <1>7 DEF on_sub_start
    <3> QED BY <3>1, <3>2
  <2>3. work' \in [Rels -> SUBSET Nat] BY <1>7, CurrentTyped DEF on_sub_start, TypeInv
  <2>4. in_txn' \in [Rels -> BOOLEAN] BY <1>7 DEF on_sub_start
  <2> QED BY <1>7, <2>1, <2>2, <2>3, <2>4 DEF on_sub_start, TypeInv
<1>8. CASE on_sub_commit
  <2>1. stack' \in Seq(Level) BY <1>8, MergeLevel
  <2>2. savepoints' \in [Rels -> Seq(Savepoint)]
    <3>1. \A r \in Rels : savepoints'[r] \in Seq(Savepoint) BY <1>8, PopSavepoints
    <3>2. savepoints' = [r \in Rels |-> savepoints'[r]] BY <1>8 DEF on_sub_commit
    <3> QED BY <3>1, <3>2
  <2>3. work' \in [Rels -> SUBSET Nat] /\ file' \in [Rels -> SUBSET Nat]
    BY <1>8 DEF on_sub_commit, TypeInv
  <2> QED BY <1>8, <2>1, <2>2, <2>3 DEF on_sub_commit, TypeInv
<1>9. CASE on_sub_abort
  <2>1. stack' \in Seq(Level) BY <1>9, PopLevel
  <2>2. savepoints' \in [Rels -> Seq(Savepoint)] /\ work' \in [Rels -> SUBSET Nat]
    <3>1. \A r \in Rels : savepoints'[r] \in Seq(Savepoint) /\ work'[r] \in SUBSET Nat
      BY <1>9, CutSavepoints
    <3>2. savepoints' = [r \in Rels |-> savepoints'[r]] BY <1>9 DEF on_sub_abort
    <3>3. work' = [r \in Rels |-> work'[r]] BY <1>9 DEF on_sub_abort
    <3> QED BY <3>1, <3>2, <3>3
  <2>3. undone' \in SUBSET Nat
    <3>1. Top \in Level BY <1>9 DEF on_sub_abort, TypeInv, Top
    <3> QED BY <1>9, <3>1 DEF on_sub_abort, TypeInv, Level
  <2> QED BY <1>9, <2>1, <2>2, <2>3 DEF on_sub_abort, TypeInv
<1>10. ASSUME NEW r \in Rels, drop_relation(r) PROVE TypeInv'
  <2>1. stack # <<>> BY <1>10 DEF drop_relation, StackInv
  <2>2. Top \in Level BY <2>1 DEF TypeInv, Top
  <2>3. Top.id \in Nat BY <2>2 DEF Level
  <2> QED BY <1>10, <2>3 DEF drop_relation, TypeInv
<1>11. CASE on_precommit BY <1>11 DEF on_precommit, TypeInv
<1>12. ASSUME NEW r \in Rels, CommitOne(r) PROVE TypeInv'
  <2>1. CASE r \in CONNS /\ in_txn[r]
    <3>1. [file EXCEPT ![r] = work[r]] \in [Rels -> SUBSET Nat] BY DEF TypeInv
    <3>2. EndSqlite({r}, [file EXCEPT ![r] = work[r]]) BY <1>12, <2>1 DEF CommitOne
    <3>3. /\ in_txn' \in [Rels -> BOOLEAN] /\ work' \in [Rels -> SUBSET Nat]
          /\ savepoints' \in [Rels -> Seq(Savepoint)] /\ file' \in [Rels -> SUBSET Nat]
          /\ stranded' \in SUBSET Rels
          /\ adrift' \subseteq ruined
      BY <3>1, <3>2, EndSqliteIs
    <3> QED BY <1>12, <3>3 DEF CommitOne, TypeInv
  <2>2. CASE ~(r \in CONNS /\ in_txn[r]) BY <1>12, <2>2 DEF CommitOne, TypeInv
  <2> QED BY <2>1, <2>2
<1>13. ASSUME NEW r \in Rels, CommitDies(r) PROVE TypeInv'
  <2>1. CASE UNCHANGED <<work, savepoints, adrift, ruined>> BY <1>13, <2>1 DEF CommitDies, TypeInv
  <2>2. CASE RolledBack(r)
    BY <1>13, <1>r, <2>2 DEF CommitDies, TypeInv
  <2> QED BY <1>13, <2>1, <2>2 DEF CommitDies
<1>a. All \in SUBSET Nat
  <2>1. \A i \in DOMAIN stack : stack[i] \in Level BY DEF TypeInv
  <2>2. \A i \in DOMAIN stack : stack[i].all \in SUBSET Nat BY <2>1 DEF Level
  <2> QED BY <2>2 DEF All
<1>14. CASE RecordCommit BY <1>14, <1>a DEF RecordCommit, TypeInv
<1>e. EndXact => stack' \in Seq(Level) BY DEF EndXact
<1>15. CASE unlink_storage
  <2>1. [r \in Rels |-> IF r \in unlinks THEN {} ELSE file[r]] \in [Rels -> SUBSET Nat]
    BY DEF TypeInv
  <2>2. EndSqlite(unlinks, [r \in Rels |-> IF r \in unlinks THEN {} ELSE file[r]])
        /\ EndXact
    BY <1>15 DEF unlink_storage
  <2>3. exists' \in [Rels -> BOOLEAN] BY <1>15 DEF unlink_storage, TypeInv
  <2>4. /\ in_txn' \in [Rels -> BOOLEAN] /\ work' \in [Rels -> SUBSET Nat]
        /\ savepoints' \in [Rels -> Seq(Savepoint)] /\ file' \in [Rels -> SUBSET Nat]
        /\ stranded' \in SUBSET Rels
        /\ adrift' \subseteq ruined
    BY <2>1, <2>2, EndSqliteIs
  <2> QED BY <1>15, <1>e, <2>2, <2>3, <2>4 DEF unlink_storage, EndXact, TypeInv
<1>16. CASE on_abort
  <2>1. file \in [Rels -> SUBSET Nat] BY DEF TypeInv
  <2>2. CASE registered
    BY <1>16, <1>a, <1>e, <2>1, <2>2, EndSqliteIs DEF on_abort, EndXact, TypeInv
  <2>3. CASE ~registered BY <1>16, <1>a, <1>e, <2>3 DEF on_abort, EndXact, TypeInv
  <2> QED BY <2>2, <2>3
<1>17. CASE Exit
  <2>1. file \in [Rels -> SUBSET Nat] BY DEF TypeInv
  <2> QED BY <1>17, <1>e, <2>1, EndSqliteIs DEF Exit, EndXact, TypeInv
<1> QED BY <1>1, <1>2, <1>3, <1>4, <1>5, <1>6, <1>t, <1>f, <1>7, <1>8, <1>9, <1>10, <1>11,
           <1>12, <1>13, <1>14, <1>15, <1>16, <1>17 DEF Next

-----------------------------------------------------------------------------
(* Numbers are given out once. *)

\* Levels and what belongs to them.
LEMMA LevelTyped ==
    ASSUME TypeInv
    PROVE  /\ Len(stack) \in Nat /\ DOMAIN stack = 1..Len(stack)
           /\ stack = <<>> <=> Len(stack) = 0
           /\ \A i \in DOMAIN stack : stack[i].id \in Nat /\ stack[i].all \in SUBSET Nat
           /\ \A x : x \in All <=> \E i \in DOMAIN stack : x \in stack[i].all
<1>1. \A i \in DOMAIN stack : stack[i] \in Level BY DEF TypeInv
<1>2. \A i \in DOMAIN stack : stack[i].id \in Nat /\ stack[i].all \in SUBSET Nat
  BY <1>1 DEF Level
<1>3. stack \in Seq(Level) BY DEF TypeInv
<1>4. stack = <<>> <=> Len(stack) = 0 BY <1>3, EmptySeq
<1> QED BY <1>2, <1>3, <1>4 DEF All

\* Steps that start and end nothing: the levels stay, and what is written is the
\* top level's.
LEMMA StackSame ==
    ASSUME TypeInv, StackInv, UNCHANGED <<stack, nextId, committed, undone>>,
           \A r \in Rels : \A x \in wrote'[r] : x \in wrote[r] \/ x \in All,
           \/ pg' = pg
           \/ pg \in {"open", "failed"} /\ pg' \in {"open", "failed"}
           \/ pg \in {"open", "precommit"} /\ pg' \in {"precommit", "late"} /\ Len(stack) = 1
    PROVE  StackInv'
<1>1. \A r \in Rels : \A x \in wrote'[r] : x < nextId'
  BY LevelTyped DEF StackInv
<1> QED BY <1>1 DEF StackInv, Live

\* No step gives a number to two levels.
LEMMA StackStep == TypeInv /\ StackInv /\ Next => StackInv'
<1> SUFFICES ASSUME TypeInv, StackInv, Next PROVE StackInv' OBVIOUS
<1> USE DEF postgres, sqlite, history
<1>t. /\ Len(stack) \in Nat /\ DOMAIN stack = 1..Len(stack) /\ nextId \in Nat
      /\ stack = <<>> <=> Len(stack) = 0
      /\ \A i \in DOMAIN stack : stack[i].id \in Nat /\ stack[i].all \in SUBSET Nat
  BY LevelTyped DEF TypeInv
<1>a. \A x : x \in All <=> \E i \in DOMAIN stack : x \in stack[i].all BY LevelTyped
<1>w. committed \cup undone \subseteq Nat /\ \A r \in Rels : wrote[r] \subseteq Nat BY DEF TypeInv
<1>1. CASE Begin
  <2>1. /\ pg' = "open" /\ nextId' = nextId + 1 /\ UNCHANGED <<committed, undone, wrote>>
        /\ DOMAIN stack' = 1..1 /\ Len(stack') = 1 /\ stack'[1].id = nextId
        /\ stack'[1].all = {nextId}
    BY <1>1 DEF Begin
  <2>2. \A x \in committed \cup undone : x < nextId BY DEF StackInv
  <2>3. \A i \in DOMAIN stack' :
           /\ stack'[i].id \in stack'[i].all
           /\ \A x \in stack'[i].all :
                  /\ stack'[i].id <= x /\ x < nextId'
                  /\ \A k \in DOMAIN stack' : i < k => x < stack'[k].id
                  /\ x \notin committed' /\ x \notin undone'
    BY <1>t, <2>1, <2>2
  <2>4. \A x \in committed' \cup undone' : x < nextId' BY <1>t, <1>w, <2>1, <2>2
  <2>5. \A r \in Rels : \A x \in wrote'[r] : x < nextId' BY <1>t, <1>w, <2>1 DEF StackInv
  <2>6. stack' # <<>> BY <2>1
  <2> QED BY <2>1, <2>3, <2>4, <2>5, <2>6 DEF StackInv
<1>2. CASE StatementFails BY <1>2, StackSame DEF StatementFails
<1>3. ASSUME NEW r \in Rels, ensure_in_xact(r) PROVE StackInv'
  BY <1>3, StackSame DEF ensure_in_xact
<1>4. ASSUME NEW r \in Rels, OpenFails(r) PROVE StackInv' BY <1>4, StackSame DEF OpenFails
<1>5. ASSUME NEW r \in Rels, Uncached(r) PROVE StackInv' BY <1>5, StackSame DEF Uncached
<1>wr. ASSUME NEW r \in Rels, Writable(r), Written(r)
       PROVE  \A q \in Rels : \A x \in wrote'[q] : x \in wrote[q] \/ x \in All
  <2>1. stack # <<>> BY <1>wr DEF Writable, StackInv
  <2>2. Top.id \in All BY <1>t, <1>a, <2>1 DEF Top, StackInv
  <2> QED BY <1>wr, <2>2 DEF Written, TypeInv
<1>6. ASSUME NEW r \in Rels, Write(r) PROVE StackInv' BY <1>6, <1>wr, StackSame DEF Write
<1>th. ASSUME NEW r \in Rels, WriteThrough(r) PROVE StackInv'
  BY <1>th, <1>wr, StackSame DEF WriteThrough
<1>rb. ASSUME NEW r \in Rels, WriteRollsBack(r) PROVE StackInv'
  BY <1>rb, StackSame DEF WriteRollsBack, Writable
<1>7. CASE on_sub_start
  <2> DEFINE L == Len(stack)
  <2>1. /\ Len(stack') = L + 1 /\ DOMAIN stack' = 1..(L + 1)
        /\ \A i \in 1..L : stack'[i] = stack[i]
        /\ stack'[L + 1].id = nextId /\ stack'[L + 1].all = {nextId}
        /\ stack' # <<>>
    BY <1>7, <1>t, PushLevel
  <2>2. pg = "open" /\ pg' = "open" /\ nextId' = nextId + 1 /\ UNCHANGED <<committed, undone, wrote>>
    BY <1>7 DEF on_sub_start
  <2>3. \A i \in 1..L : /\ stack[i].id \in stack[i].all
           /\ \A x \in stack[i].all :
                  /\ stack[i].id <= x /\ x < nextId
                  /\ \A k \in 1..L : i < k => x < stack[k].id
                  /\ x \notin committed /\ x \notin undone
    BY <1>t, <2>2 DEF StackInv, Live
  <2>4. \A x \in committed \cup undone : x < nextId BY DEF StackInv
  <2>5. ASSUME NEW i \in 1..(L + 1)
        PROVE  /\ stack'[i].id \in stack'[i].all
               /\ \A x \in stack'[i].all :
                      /\ stack'[i].id <= x /\ x < nextId'
                      /\ \A k \in 1..(L + 1) : i < k => x < stack'[k].id
                      /\ x \notin committed' /\ x \notin undone'
    <3> HIDE DEF L
    <3>l. L \in Nat BY <1>t DEF L
    <3>1. CASE i = L + 1 BY <1>t, <3>l, <2>1, <2>2, <2>4, <3>1
    <3>2. CASE i \in 1..L
      <4>1. stack'[i] = stack[i] /\ stack[i].id \in Nat /\ stack[i].all \in SUBSET Nat
        BY <1>t, <2>1, <3>2 DEF L
      <4>2. \A k \in 1..(L + 1) : i < k =>
                \/ k \in 1..L /\ stack'[k] = stack[k]
                \/ k = L + 1 /\ stack'[k].id = nextId
        BY <3>l, <2>1
      <4>3. \A x \in stack[i].all : \A k \in 1..(L + 1) : i < k => x < stack'[k].id
        BY <2>3, <3>2, <4>2
      <4> QED BY <1>t, <2>2, <2>3, <3>2, <4>1, <4>3
    <3> QED BY <3>l, <3>1, <3>2
  <2>6. \A x \in committed' \cup undone' : x < nextId' BY <1>t, <1>w, <2>2, <2>4
  <2>7. \A r \in Rels : \A x \in wrote'[r] : x < nextId' BY <1>t, <1>w, <2>2 DEF StackInv
  <2> QED BY <2>1, <2>2, <2>5, <2>6, <2>7 DEF StackInv
<1>8. CASE on_sub_commit
  <2> DEFINE L == Len(stack)
  <2>1. /\ Len(stack') = L - 1 /\ L > 1 /\ DOMAIN stack' = 1..(L - 1)
        /\ \A i \in 1..(L - 1) : stack'[i].id = stack[i].id
        /\ \A i \in 1..(L - 2) : stack'[i].all = stack[i].all
        /\ stack'[L - 1].all = stack[L - 1].all \cup stack[L].all
        /\ stack' # <<>>
    <3>1. stack' \in Seq(Level) /\ Len(stack') = L - 1 /\ L > 1 BY <1>8, MergeLevel
    <3>2. stack' # <<>> /\ DOMAIN stack' = 1..(L - 1) BY <1>t, <3>1
    <3> QED BY <1>8, <3>1, <3>2, MergeLevel
  <2>2. pg = "open" /\ pg' = "open" /\ UNCHANGED <<nextId, committed, undone, wrote>>
    BY <1>8 DEF on_sub_commit
  <2>3. \A i \in 1..L : /\ stack[i].id \in stack[i].all
           /\ \A x \in stack[i].all :
                  /\ stack[i].id <= x /\ x < nextId
                  /\ \A k \in 1..L : i < k => x < stack[k].id
                  /\ x \notin committed /\ x \notin undone
    BY <1>t, <2>2 DEF StackInv, Live
  <2>4. ASSUME NEW i \in 1..(L - 1)
        PROVE  /\ stack'[i].id \in stack'[i].all
               /\ \A x \in stack'[i].all :
                      /\ stack'[i].id <= x /\ x < nextId'
                      /\ \A k \in 1..(L - 1) : i < k => x < stack'[k].id
                      /\ x \notin committed' /\ x \notin undone'
    <3>l. L \in Nat BY <1>t
    <3>1. CASE i = L - 1
      <4>1. stack[L - 1].id \in stack[L - 1].all BY <3>l, <2>1, <2>3
      <4>2. stack[L - 1].id < stack[L].id BY <3>l, <2>1, <2>3, <4>1
      <4>3. \A x \in stack[L].all : stack[L - 1].id <= x
        BY <1>t, <3>l, <2>1, <2>3, <4>2
      <4>4. \A x \in stack'[L - 1].all : stack[L - 1].id <= x /\ x < nextId
                                         /\ x \notin committed /\ x \notin undone
        BY <3>l, <2>1, <2>3, <4>3
      <4> QED BY <3>l, <2>1, <2>2, <3>1, <4>1, <4>4
    <3>2. CASE i \in 1..(L - 2)
      <4>1. stack'[i].id = stack[i].id /\ stack'[i].all = stack[i].all BY <3>l, <2>1, <3>2
      <4>2. \A k \in 1..(L - 1) : stack'[k].id = stack[k].id /\ k \in 1..L BY <3>l, <2>1
      <4> QED BY <3>l, <2>2, <2>3, <3>2, <4>1, <4>2
    <3> QED BY <3>l, <3>1, <3>2
  <2> QED BY <2>1, <2>2, <2>4 DEF StackInv
<1>9. CASE on_sub_abort
  <2> DEFINE L == Len(stack)
  <2>1. /\ Len(stack') = L - 1 /\ L > 1 /\ DOMAIN stack' = 1..(L - 1)
        /\ \A i \in 1..(L - 1) : stack'[i] = stack[i]
        /\ stack' # <<>>
    <3>1. stack' \in Seq(Level) /\ Len(stack') = L - 1 /\ L > 1 BY <1>9, PopLevel
    <3>2. stack' # <<>> /\ DOMAIN stack' = 1..(L - 1) BY <1>t, <3>1
    <3> QED BY <1>9, <3>1, <3>2, PopLevel
  <2>2. /\ Live /\ pg' = "open" /\ UNCHANGED <<nextId, committed, wrote>>
        /\ undone' = undone \cup stack[L].all
    BY <1>9 DEF on_sub_abort, Live, Top
  <2>3. \A i \in 1..L : /\ stack[i].id \in stack[i].all
           /\ \A x \in stack[i].all :
                  /\ stack[i].id <= x /\ x < nextId
                  /\ \A k \in 1..L : i < k => x < stack[k].id
                  /\ x \notin committed /\ x \notin undone
    BY <1>t, <2>2 DEF StackInv, Live
  <2>4. ASSUME NEW i \in 1..(L - 1)
        PROVE  /\ stack'[i].id \in stack'[i].all
               /\ \A x \in stack'[i].all :
                      /\ stack'[i].id <= x /\ x < nextId'
                      /\ \A k \in 1..(L - 1) : i < k => x < stack'[k].id
                      /\ x \notin committed' /\ x \notin undone'
    <3>l. L \in Nat /\ i \in 1..L /\ L \in 1..L /\ i < L BY <1>t, <2>1
    <3>1. \A x \in stack[i].all : x \notin stack[L].all
      <4>1. \A x \in stack[i].all : x < stack[L].id BY <3>l, <2>3
      <4>2. \A x \in stack[L].all : stack[L].id <= x BY <3>l, <2>3
      <4>3. stack[L].id \in Nat /\ stack[L].all \subseteq Nat BY <1>t, <3>l
      <4> QED BY <4>1, <4>2, <4>3
    <3>2. \A k \in 1..(L - 1) : stack'[k] = stack[k] /\ k \in 1..L BY <3>l, <2>1
    <3> QED BY <3>l, <2>2, <2>3, <3>1, <3>2
  <2>5. \A x \in committed' \cup undone' : x < nextId'
    <3>1. L \in 1..L BY <1>t, <2>1
    <3> QED BY <3>1, <2>2, <2>3 DEF StackInv
  <2> QED BY <2>1, <2>2, <2>4, <2>5 DEF StackInv
<1>10. ASSUME NEW r \in Rels, drop_relation(r) PROVE StackInv' BY <1>10, StackSame DEF drop_relation
<1>11. CASE on_precommit BY <1>11, StackSame DEF on_precommit
<1>12. ASSUME NEW r \in Rels, CommitOne(r) PROVE StackInv' BY <1>12, StackSame DEF CommitOne
<1>13. ASSUME NEW r \in Rels, CommitDies(r) PROVE StackInv'
  <2>1. Len(stack) = 1 BY <1>13 DEF CommitDies, StackInv
  <2> QED BY <1>13, <2>1, StackSame DEF CommitDies
<1>14. CASE RecordCommit
  <2>1. /\ pg = "precommit" /\ pg' = "committed" /\ committed' = committed \cup All
        /\ UNCHANGED <<stack, nextId, undone, wrote>>
    BY <1>14 DEF RecordCommit
  <2>2. \A x \in committed' : x < nextId' BY <1>a, <2>1 DEF StackInv
  <2> QED BY <1>a, <2>1, <2>2 DEF StackInv, Live
<1>15. CASE unlink_storage \/ Exit
  <2>1. pg' = "idle" /\ stack' = <<>> /\ UNCHANGED <<nextId, committed, undone, wrote>>
    BY <1>15 DEF unlink_storage, Exit, EndXact
  <2> QED BY <2>1 DEF StackInv
<1>16. CASE on_abort
  <2>1. pg' = "idle" /\ stack' = <<>> /\ UNCHANGED <<nextId, committed, wrote>>
        /\ undone' \subseteq undone \cup All
    BY <1>16 DEF on_abort, EndXact
  <2>2. \A x \in undone' : x < nextId' BY <1>a, <2>1 DEF StackInv
  <2> QED BY <2>1, <2>2 DEF StackInv
<1> QED BY <1>1, <1>2, <1>3, <1>4, <1>5, <1>6, <1>th, <1>rb, <1>7, <1>8, <1>9, <1>10, <1>11,
           <1>12, <1>13, <1>14, <1>15, <1>16 DEF Next

-----------------------------------------------------------------------------
(* The callbacks reach every open SQLite transaction. *)

\* If opening a transaction's first relation does not fail, TX_RELS is never
\* filled without the callbacks.
LEMMA CallStep == ~FirstOpenFails /\ TypeInv /\ StackInv /\ CallInv /\ Next => CallInv'
<1> SUFFICES ASSUME ~FirstOpenFails, TypeInv, StackInv, CallInv, Next PROVE CallInv' OBVIOUS
<1> USE DEF postgres, sqlite, history, Live
<1>t. in_txn \in [Rels -> BOOLEAN] /\ registered \in BOOLEAN BY DEF TypeInv
<1>1. CASE Begin BY <1>1 DEF Begin, CallInv
<1>2. CASE StatementFails BY <1>2 DEF StatementFails, CallInv
<1>3. ASSUME NEW r \in Rels, ensure_in_xact(r) PROVE CallInv' BY <1>3 DEF ensure_in_xact, CallInv
<1>4. ASSUME NEW r \in Rels, OpenFails(r) PROVE CallInv' BY <1>4 DEF OpenFails, CallInv
<1>5. ASSUME NEW r \in Rels, Uncached(r) PROVE CallInv' BY <1>5 DEF Uncached, CallInv
<1>6. ASSUME NEW r \in Rels, Write(r) PROVE CallInv' BY <1>t, <1>6 DEF Write, Writable, CallInv
<1>th. ASSUME NEW r \in Rels, WriteThrough(r) PROVE CallInv' BY <1>th DEF WriteThrough, CallInv
<1>rb. ASSUME NEW r \in Rels, WriteRollsBack(r) PROVE CallInv'
  BY <1>t, <1>rb DEF WriteRollsBack, Writable, CallInv
<1>7. CASE on_sub_start
  <2>1. \A r \in Rels : in_txn'[r] => in_txn[r] \/ r \in TX_RELS \cap CONNS
    BY <1>7 DEF on_sub_start, Callable
  <2> QED BY <1>7, <2>1 DEF on_sub_start, CallInv
<1>8. CASE on_sub_commit BY <1>8 DEF on_sub_commit, CallInv
<1>9. CASE on_sub_abort BY <1>9 DEF on_sub_abort, CallInv
<1>10. ASSUME NEW r \in Rels, drop_relation(r) PROVE CallInv' BY <1>10 DEF drop_relation, CallInv
<1>11. CASE on_precommit
  <2>1. registered \/ TX_RELS = {} BY <1>11 DEF on_precommit, CallInv
  <2>2. taken' = TX_RELS /\ TX_RELS' = {} BY <1>11, <2>1 DEF on_precommit, CallInv
  <2> QED BY <1>11, <2>2 DEF on_precommit, CallInv
<1>12. ASSUME NEW r \in Rels, CommitOne(r) PROVE CallInv'
  <2>1. pg' = pg /\ TX_RELS' = TX_RELS /\ CONNS' = CONNS /\ taken' = taken \ {r} /\ pg = "precommit"
    BY <1>12 DEF CommitOne
  <2>2. CASE r \in CONNS /\ in_txn[r]
    <3>1. /\ \A q \in Rels : in_txn'[q] <=> in_txn[q] /\ q # r
          /\ stranded' = stranded \ {r}
      BY <1>12, <2>2 DEF CommitOne, EndSqlite
    <3> QED BY <2>1, <3>1 DEF CallInv
  <2>3. CASE ~(r \in CONNS /\ in_txn[r])
    <3>1. UNCHANGED <<in_txn, stranded>> BY <1>12, <2>3 DEF CommitOne
    <3>2. ~in_txn[r] BY <2>3 DEF CallInv
    <3> QED BY <2>1, <3>1, <3>2 DEF CallInv
  <2> QED BY <2>2, <2>3
<1>13. ASSUME NEW r \in Rels, CommitDies(r) PROVE CallInv' BY <1>13 DEF CommitDies, CallInv
<1>14. CASE RecordCommit BY <1>14 DEF RecordCommit, CallInv
<1>15. CASE unlink_storage
  <2>1. /\ pg' = "idle" /\ CONNS' = CONNS \ unlinks /\ TX_RELS' = TX_RELS \ unlinks
        /\ taken' = taken /\ stranded' = stranded \ unlinks /\ pg = "committed"
        /\ \A r \in Rels : in_txn'[r] <=> in_txn[r] /\ r \notin unlinks
    BY <1>15 DEF unlink_storage, EndSqlite, EndXact
  <2> QED BY <2>1 DEF CallInv
<1>16. CASE on_abort
  <2>1. /\ pg' = "idle" /\ UNCHANGED <<CONNS, taken>> /\ taken = {}
        /\ pg \in {"open", "failed", "precommit", "late"}
    BY <1>16 DEF on_abort, EndXact
  <2>2. CASE registered
    <3>1. /\ TX_RELS' = {} /\ stranded' = stranded \ (TX_RELS \cap CONNS)
          /\ \A r \in Rels : in_txn'[r] <=> in_txn[r] /\ r \notin TX_RELS \cap CONNS
      BY <1>16, <2>2 DEF on_abort, EndSqlite
    <3> QED BY <2>1, <3>1 DEF CallInv
  <2>3. CASE ~registered
    <3>1. UNCHANGED <<TX_RELS, in_txn, stranded>> BY <1>16, <2>3 DEF on_abort
    <3>2. TX_RELS = {} BY <2>1, <2>3 DEF CallInv
    <3> QED BY <2>1, <3>1, <3>2 DEF CallInv
  <2> QED BY <2>2, <2>3
<1>17. CASE Exit BY <1>17 DEF Exit, EndSqlite, EndXact, CallInv
<1> QED BY <1>1, <1>2, <1>3, <1>4, <1>5, <1>6, <1>th, <1>rb, <1>7, <1>8, <1>9, <1>10, <1>11,
           <1>12, <1>13, <1>14, <1>15, <1>16, <1>17 DEF Next

\* If no DROP TABLE runs in a subtransaction, a pending unlink is the top
\* transaction's, and fires only with its commit.
LEMMA DropStep == ~SubxactDrop /\ TypeInv /\ StackInv /\ DropInv /\ Next => DropInv'
<1> SUFFICES ASSUME ~SubxactDrop, TypeInv, StackInv, DropInv, Next PROVE DropInv' OBVIOUS
<1> USE DEF postgres, sqlite, history
<1>t. /\ exists \in [Rels -> BOOLEAN] /\ dropper \in [Rels -> Nat] /\ unlinks \in SUBSET Rels
  BY DEF TypeInv
<1>l. /\ Len(stack) \in Nat /\ DOMAIN stack = 1..Len(stack)
      /\ stack = <<>> <=> Len(stack) = 0
      /\ \A x : x \in All <=> \E i \in DOMAIN stack : x \in stack[i].all
  BY LevelTyped
<1>1. CASE Begin
  <2>1. unlinks = {} BY <1>1 DEF Begin, StackInv, DropInv
  <2> QED BY <1>1, <2>1 DEF Begin, DropInv
<1>2. CASE StatementFails BY <1>2 DEF StatementFails, DropInv
<1>3. ASSUME NEW r \in Rels, ensure_in_xact(r) PROVE DropInv'
  BY <1>t, <1>3 DEF ensure_in_xact, DropInv
<1>4. ASSUME NEW r \in Rels, OpenFails(r) PROVE DropInv' BY <1>4 DEF OpenFails, DropInv
<1>5. ASSUME NEW r \in Rels, Uncached(r) PROVE DropInv' BY <1>5 DEF Uncached, DropInv
<1>6. ASSUME NEW r \in Rels, Write(r) PROVE DropInv' BY <1>6 DEF Write, DropInv
<1>th. ASSUME NEW r \in Rels, WriteThrough(r) PROVE DropInv' BY <1>th DEF WriteThrough, DropInv
<1>rb. ASSUME NEW r \in Rels, WriteRollsBack(r) PROVE DropInv'
  BY <1>rb DEF WriteRollsBack, DropInv
<1>7. CASE on_sub_start
  <2>1. stack # <<>> BY <1>7 DEF on_sub_start, StackInv
  <2>2. stack'[1] = stack[1] /\ stack' # <<>> BY <1>7, <1>l, <2>1, PushLevel
  <2> QED BY <1>7, <2>2 DEF on_sub_start, DropInv
<1>8. CASE on_sub_commit
  <2>1. stack' \in Seq(Level) /\ Len(stack') = Len(stack) - 1 /\ Len(stack) > 1 BY <1>8, MergeLevel
  <2>2. stack' # <<>> BY <1>l, <2>1
  <2>3. stack[1].all \subseteq stack'[1].all BY <1>8, <1>l, <2>1, MergeLevel
  <2> QED BY <1>8, <2>2, <2>3 DEF on_sub_commit, DropInv
<1>9. CASE on_sub_abort
  <2>1. stack' \in Seq(Level) /\ Len(stack') = Len(stack) - 1 /\ Len(stack) > 1 BY <1>9, PopLevel
  <2>2. stack' # <<>> BY <1>l, <2>1
  <2>3. stack'[1] = stack[1] BY <1>9, <1>l, <2>1, PopLevel
  <2> QED BY <1>9, <2>2, <2>3 DEF on_sub_abort, DropInv
<1>10. ASSUME NEW r \in Rels, drop_relation(r) PROVE DropInv'
  <2>1. Len(stack) = 1 BY <1>10 DEF drop_relation
  <2>2. Top.id \in stack[1].all /\ stack # <<>> BY <1>l, <2>1 DEF Top, StackInv
  <2>3. dropper[r] \notin committed BY <1>10 DEF drop_relation, InCatalog
  <2> QED BY <1>t, <1>10, <2>2, <2>3 DEF drop_relation, DropInv
<1>11. CASE on_precommit BY <1>11 DEF on_precommit, DropInv
<1>12. ASSUME NEW r \in Rels, CommitOne(r) PROVE DropInv' BY <1>12 DEF CommitOne, DropInv
<1>13. ASSUME NEW r \in Rels, CommitDies(r) PROVE DropInv' BY <1>13 DEF CommitDies, DropInv
<1>14. CASE RecordCommit BY <1>14 DEF RecordCommit, DropInv
<1>15. CASE unlink_storage
  <2>1. /\ unlinks' = {} /\ UNCHANGED <<dropper, committed>> /\ pg = "committed"
        /\ \A r \in Rels : exists'[r] <=> exists[r] /\ r \notin unlinks
    BY <1>15 DEF unlink_storage, EndXact
  <2>2. \A r \in unlinks : dropper[r] \in committed
    <3>1. Len(stack) = 1 BY <2>1 DEF StackInv
    <3>2. \A x \in stack[1].all : x \in committed BY <1>l, <2>1, <3>1 DEF StackInv
    <3> QED BY <3>2 DEF DropInv
  <2> QED BY <2>1, <2>2 DEF DropInv
<1>16. CASE on_abort BY <1>16 DEF on_abort, EndXact, DropInv
<1>17. CASE Exit BY <1>17 DEF Exit, EndXact, DropInv
<1> QED BY <1>1, <1>2, <1>3, <1>4, <1>5, <1>6, <1>th, <1>rb, <1>7, <1>8, <1>9, <1>10, <1>11,
           <1>12, <1>13, <1>14, <1>15, <1>16, <1>17 DEF Next

-----------------------------------------------------------------------------
(* What is rolled back leaves no trace. *)

\* The premises of the lemmas of this section.
Known == TypeInv /\ StackInv /\ CallInv /\ CleanInv

\* On such a relation in_txn is what SQLite says, and RELEASE commits nothing.
LEMMA NotLost ==
    ASSUME TypeInv, NEW r \in Rels, r \notin ruined
    PROVE  /\ ~Lost(r)
           /\ on_sub_commit => work'[r] = work[r] /\ file'[r] = file[r]
<1>1. r \notin adrift BY DEF TypeInv
<1>2. on_sub_commit => work'[r] = work[r] /\ file'[r] = file[r]
  BY <1>1 DEF Outermost, on_sub_commit
<1> QED BY <1>1, <1>2 DEF Lost

\* It is one for good.
LEMMA RuinedGrows == ASSUME Next PROVE ruined \subseteq ruined'
<1> USE DEF postgres, sqlite, history, RolledBack
<1>1. ASSUME NEW q \in Rels, WriteRollsBack(q) \/ CommitDies(q) PROVE ruined \subseteq ruined'
  BY <1>1 DEF WriteRollsBack, CommitDies
<1>2. ASSUME NEW q \in Rels,
             \/ ensure_in_xact(q) \/ OpenFails(q) \/ Uncached(q) \/ Write(q)
             \/ WriteThrough(q) \/ drop_relation(q) \/ CommitOne(q)
      PROVE  ruined \subseteq ruined'
  BY <1>2 DEF ensure_in_xact, OpenFails, Uncached, Write, WriteThrough, drop_relation, CommitOne
<1>3. ASSUME \/ Begin \/ StatementFails \/ on_sub_start \/ on_sub_commit \/ on_sub_abort
             \/ on_precommit \/ RecordCommit \/ unlink_storage \/ on_abort \/ Exit
      PROVE  ruined \subseteq ruined'
  BY <1>3 DEF Begin, StatementFails, on_sub_start, on_sub_commit, on_sub_abort, on_precommit,
              RecordCommit, unlink_storage, on_abort, Exit
<1> QED BY <1>1, <1>2, <1>3 DEF Next

\* A step of SQLite's own on q leaves the other relations alone.
LEMMA OthersKept ==
    ASSUME TypeInv, NEW q \in Rels, WriteThrough(q) \/ WriteRollsBack(q) \/ CommitDies(q),
           NEW r \in Rels, r \notin ruined'
    PROVE  /\ work'[r] = work[r] /\ savepoints'[r] = savepoints[r] /\ in_txn'[r] = in_txn[r]
           /\ file'[r] = file[r] /\ wrote'[r] = wrote[r] /\ bare'[r] = bare[r]
<1>1. CASE WriteThrough(q)
  <2>1. q \in ruined /\ ruined' = ruined BY <1>1 DEF WriteThrough, Lost, TypeInv
  <2> QED BY <1>1, <2>1 DEF WriteThrough, Written, TypeInv
<1>2. CASE WriteRollsBack(q)
  <2>1. RolledBack(q) BY <1>2 DEF WriteRollsBack
  <2>2. q # r BY <2>1 DEF RolledBack
  <2> QED BY <1>2, <2>1, <2>2 DEF WriteRollsBack, RolledBack, TypeInv
<1>3. CASE CommitDies(q)
  <2>1. CASE RolledBack(q)
    <3>1. q # r BY <2>1 DEF RolledBack
    <3> QED BY <1>3, <2>1, <3>1 DEF CommitDies, RolledBack, TypeInv
  <2>2. CASE UNCHANGED <<work, savepoints, adrift, ruined>> BY <1>3, <2>2 DEF CommitDies
  <2> QED BY <1>3, <2>1, <2>2 DEF CommitDies
<1> QED BY <1>1, <1>2, <1>3

\* The possible contents, one by one.
LEMMA ContentsAre ==
    ASSUME NEW r \in Rels
    PROVE  \A s : s \in Contents(r) <=>
               \/ s = file[r]
               \/ in_txn[r] /\ s = work[r]
               \/ \E j \in DOMAIN savepoints[r] : s = savepoints[r][j].saved
BY DEF Contents

\* The same, after a step.
LEMMA ContentsArePrime ==
    ASSUME NEW r \in Rels
    PROVE  \A s : s \in Contents(r)' <=>
               \/ s = file'[r]
               \/ in_txn'[r] /\ s = work'[r]
               \/ \E j \in DOMAIN savepoints'[r] : s = savepoints'[r][j].saved
BY DEF Contents

\* r's savepoints, and the types of their fields.
LEMMA SavepointTyped ==
    ASSUME TypeInv, NEW r \in Rels
    PROVE  /\ Len(savepoints[r]) \in Nat /\ DOMAIN savepoints[r] = 1..Len(savepoints[r])
           /\ \A j \in DOMAIN savepoints[r] :
                  /\ savepoints[r][j].id \in Nat /\ savepoints[r][j].name \in Int
                  /\ savepoints[r][j].saved \in SUBSET Nat
<1>1. savepoints[r] \in Seq(Savepoint) BY DEF TypeInv
<1>2. \A j \in DOMAIN savepoints[r] : savepoints[r][j] \in Savepoint BY <1>1
<1> QED BY <1>1, <1>2 DEF Savepoint

\* The savepoint found by name is the top level's own, if it has one; else it
\* is one that an earlier transaction left.
LEMMA PlaceCases ==
    ASSUME Known, Live, Len(stack) > 1, NEW r \in Rels, r \notin ruined
    PROVE  /\ Real(r, Len(stack)) =>
                  Place(r) # {} /\ savepoints[r][At(r)].id = stack[Len(stack)].id
           /\ ~Real(r, Len(stack)) =>
                  Place(r) = {} \/ savepoints[r][At(r)].id < stack[1].id
<1> DEFINE L == Len(stack)
           sp == savepoints[r]
<1>t. TypeInv /\ StackInv /\ OrderOf(r) /\ LevelsOf(r) BY DEF Known, CleanInv
<1>1. /\ L \in Nat /\ DOMAIN stack = 1..L /\ L \in 2..L /\ 1 \in DOMAIN stack /\ L \in DOMAIN stack
      /\ stack[1].id \in Nat /\ stack[L].id \in Nat
  BY <1>t, LevelTyped
<1>2. stack[1].id < stack[L].id BY <1>1, <1>t DEF StackInv
<1>3. stack # <<>> BY <1>t, <1>1, LevelTyped
<1>4. /\ DOMAIN sp = 1..Len(sp) /\ Len(sp) \in Nat
      /\ \A j \in DOMAIN sp : sp[j].id \in Nat
  BY <1>t, SavepointTyped
<1>5. \A j \in DOMAIN sp : sp[j].id > stack[1].id => sp[j].name = sp[j].id - stack[1].id
  BY <1>t, <1>3 DEF OrderOf, SubId
<1>6. SubId(Top.id) = stack[L].id - stack[1].id BY DEF SubId, Top
<1>7. \A j, k \in DOMAIN sp : j < k => sp[j].id < sp[k].id BY <1>t DEF OrderOf
<1>8. ASSUME Real(r, L) PROVE Place(r) # {} /\ sp[At(r)].id = stack[L].id
  <2>1. PICK j \in DOMAIN sp : sp[j].id = stack[L].id BY <1>8 DEF Real
  <2>2. r \in Callable BY <1>t, <1>1, <1>8 DEF LevelsOf, Callable
  <2>3. in_txn[r] BY <1>t, <2>1 DEF OrderOf
  <2>4. sp[j].name = SubId(Top.id) BY <1>1, <1>2, <1>5, <1>6, <2>1
  <2>5. \A k \in DOMAIN sp : sp[k].name = SubId(Top.id) => k <= j
    <3> SUFFICES ASSUME NEW k \in DOMAIN sp, sp[k].name = SubId(Top.id), j < k PROVE FALSE
      BY <1>4
    <3>1. sp[j].id < sp[k].id BY <1>7
    <3>2. sp[k].name = sp[k].id - stack[1].id BY <1>1, <1>2, <1>4, <1>5, <2>1, <3>1
    <3> QED BY <1>1, <1>4, <1>6, <2>1, <3>1, <3>2
  <2>6. j \in Place(r) BY <2>2, <2>3, <2>4, <2>5 DEF Place
  <2>7. At(r) = j
    <3>1. At(r) \in DOMAIN sp /\ sp[At(r)].name = SubId(Top.id) /\ j <= At(r)
      BY <2>4, <2>6, PlaceIs
    <3> QED BY <1>4, <2>5, <3>1
  <2> QED BY <2>1, <2>6, <2>7
<1>9. ASSUME ~Real(r, L), Place(r) # {} PROVE sp[At(r)].id < stack[1].id
  <2>1. At(r) \in DOMAIN sp /\ sp[At(r)].name = SubId(Top.id) BY <1>9, PlaceIs
  <2>2. sp[At(r)].id # stack[L].id BY <1>9, <2>1 DEF Real
  <2>3. sp[At(r)].id # stack[1].id BY <1>t, <1>3, <2>1 DEF OrderOf
  <2> QED BY <1>1, <1>4, <1>5, <1>6, <2>1, <2>2, <2>3
<1> QED BY <1>8, <1>9

\* RELEASE and ROLLBACK TO take savepoints from the top of r's stack, none of a
\* level that stays.
LEMMA SubEnd ==
    ASSUME Known, on_sub_commit \/ on_sub_abort, NEW r \in Rels, r \notin ruined
    PROVE  /\ \A j \in DOMAIN savepoints'[r] :
                  j \in DOMAIN savepoints[r] /\ savepoints'[r][j] = savepoints[r][j]
           /\ \A i \in 2..(Len(stack) - 1) : Real(r, i)' <=> Real(r, i)
           /\ \/ work'[r] = work[r]
              \/ \E j \in DOMAIN savepoints[r] :
                     /\ work'[r] = savepoints[r][j].saved /\ in_txn[r]
                     /\ savepoints[r][j].id = stack[Len(stack)].id \/ ~Real(r, Len(stack))
           /\ on_sub_abort /\ Real(r, Len(stack)) =>
                  /\ \A j \in DOMAIN savepoints'[r] : savepoints[r][j].id <= stack[Len(stack)].id
                  /\ \E j \in DOMAIN savepoints'[r] : work'[r] = savepoints[r][j].saved
<1> DEFINE L == Len(stack)
           sp == savepoints[r]
           p == At(r)
<1>t. TypeInv /\ StackInv /\ OrderOf(r) /\ LevelsOf(r) BY DEF Known, CleanInv
<1>c. on_sub_commit => work'[r] = work[r] BY NotLost DEF Known
<1>l. Live /\ L > 1 BY DEF on_sub_commit, on_sub_abort, Live
<1>1. /\ L \in Nat /\ DOMAIN stack = 1..L /\ \A i \in DOMAIN stack : stack[i].id \in Nat
  BY <1>t, LevelTyped
<1>2. /\ DOMAIN sp = 1..Len(sp) /\ Len(sp) \in Nat /\ \A j \in DOMAIN sp : sp[j].id \in Nat
  BY <1>t, SavepointTyped
<1>3. \A i \in 2..(L - 1) : stack'[i].id = stack[i].id /\ stack[i].id < stack[L].id /\ i \in DOMAIN stack
  <2>1. \A i \in 1..(L - 1) : stack'[i].id = stack[i].id BY <1>t, <1>1, PopLevel, MergeLevel
  <2>2. \A i \in 1..(L - 1) : stack[i].id < stack[L].id BY <1>t, <1>l, <1>1 DEF StackInv
  <2> QED BY <1>1, <2>1, <2>2
<1>4. \A j, k \in DOMAIN sp : j < k => sp[j].id < sp[k].id BY <1>t DEF OrderOf
<1>5. CASE Place(r) = {}
  <2>1. savepoints'[r] = sp /\ work'[r] = work[r]
    BY <1>t, <1>c, <1>5, PopSavepoints, CutSavepoints
  <2>2. ~Real(r, L) BY <1>l, <1>5, PlaceCases
  <2> QED BY <1>3, <2>1, <2>2 DEF Real
<1>6. CASE Place(r) # {}
  <2>1. /\ p \in DOMAIN sp /\ in_txn[r]
        /\ DOMAIN savepoints'[r] = 1..(p - 1) \/ (on_sub_abort /\ DOMAIN savepoints'[r] = 1..p)
        /\ \A j \in DOMAIN savepoints'[r] : savepoints'[r][j] = sp[j]
        /\ on_sub_abort => work'[r] = sp[p].saved /\ DOMAIN savepoints'[r] = 1..p
        /\ ~on_sub_abort => work'[r] = work[r]
    <3>1. p \in DOMAIN sp /\ in_txn[r] BY <1>6, PlaceIs
    <3>2. CASE on_sub_abort
      <4>1. /\ savepoints'[r] \in Seq(Savepoint) /\ Len(savepoints'[r]) = p
            /\ \A j \in 1..p : savepoints'[r][j] = sp[j] /\ work'[r] = sp[p].saved
        BY <1>t, <1>6, <3>2, CutSavepoints
      <4>2. DOMAIN savepoints'[r] = 1..p BY <4>1
      <4>3. work'[r] = sp[p].saved BY <1>2, <3>1, <4>1
      <4> QED BY <3>1, <3>2, <4>1, <4>2, <4>3
    <3>3. CASE ~on_sub_abort
      <4>1. /\ savepoints'[r] \in Seq(Savepoint) /\ Len(savepoints'[r]) = p - 1
            /\ \A j \in 1..(p - 1) : savepoints'[r][j] = sp[j]
        BY <1>t, <1>6, <3>3, PopSavepoints
      <4>2. DOMAIN savepoints'[r] = 1..(p - 1) BY <4>1
      <4>3. work'[r] = work[r] BY <1>c, <3>3
      <4> QED BY <3>1, <3>3, <4>1, <4>2, <4>3
    <3> QED BY <3>2, <3>3
  <2>2. \A j \in DOMAIN savepoints'[r] : j \in DOMAIN sp /\ savepoints'[r][j] = sp[j] /\ j <= p
    BY <1>2, <2>1
  <2>3. Real(r, L) => sp[p].id = stack[L].id BY <1>l, PlaceCases
  <2>4. \A i \in 2..(L - 1) : Real(r, i)' <=> Real(r, i)
    <3>1. ASSUME NEW i \in 2..(L - 1), Real(r, i)' PROVE Real(r, i)
      BY <1>3, <2>2, <3>1 DEF Real
    <3>2. ASSUME NEW i \in 2..(L - 1), Real(r, i) PROVE Real(r, i)'
      <4>1. PICK j \in DOMAIN sp : sp[j].id = stack[i].id BY <3>2 DEF Real
      <4>2. Real(r, L) BY <1>t, <1>l, <1>1, <3>2 DEF LevelsOf
      <4>3. sp[j].id < sp[p].id BY <1>3, <2>3, <4>1, <4>2
      <4>4. j < p BY <1>2, <1>4, <2>1, <4>1, <4>3
      <4>5. j \in DOMAIN savepoints'[r] BY <1>2, <2>1, <4>4
      <4> QED BY <1>3, <2>2, <4>1, <4>5 DEF Real
    <3> QED BY <3>1, <3>2
  <2>5. \/ work'[r] = work[r]
        \/ \E j \in DOMAIN sp : /\ work'[r] = sp[j].saved /\ in_txn[r]
                                /\ sp[j].id = stack[L].id \/ ~Real(r, L)
    BY <2>1, <2>3
  <2>6. ASSUME on_sub_abort, Real(r, L)
        PROVE  /\ \A j \in DOMAIN savepoints'[r] : sp[j].id <= stack[L].id
               /\ \E j \in DOMAIN savepoints'[r] : work'[r] = sp[j].saved
    <3>1. \A j \in DOMAIN savepoints'[r] : sp[j].id <= sp[p].id BY <1>2, <1>4, <2>1, <2>2
    <3>2. p \in DOMAIN savepoints'[r] BY <1>2, <2>1, <2>6
    <3> QED BY <2>1, <2>3, <2>6, <3>1, <3>2
  <2> QED BY <2>2, <2>4, <2>5, <2>6
<1> QED BY <1>5, <1>6

\* Steps that leave the levels alone, and r.
LEMMA CleanSame ==
    ASSUME Known, NEW r \in Rels, r \notin ruined, UNCHANGED <<stack, nextId, undone>>,
           work'[r] = work[r], savepoints'[r] = savepoints[r], in_txn'[r] = in_txn[r],
           file'[r] = file[r], wrote'[r] = wrote[r], bare'[r] = bare[r],
           Live' => /\ Live /\ (registered => registered')
                    /\ TX_RELS \subseteq TX_RELS' /\ CONNS \subseteq CONNS'
    PROVE  OrderOf(r)' /\ LevelsOf(r)' /\ TraceOf(r)'
<1>t. OrderOf(r) /\ LevelsOf(r) /\ TraceOf(r) BY DEF Known, CleanInv
<1>1. \A i : Real(r, i)' <=> Real(r, i) BY DEF Real
<1>2. Contents(r)' = Contents(r) BY DEF Contents
<1>3. OrderOf(r)' BY <1>t DEF OrderOf, SubId
<1>4. LevelsOf(r)'
  <2> SUFFICES ASSUME Live' PROVE LevelsOf(r)' BY DEF LevelsOf
  <2> QED BY <1>t, <1>1 DEF LevelsOf
<1>5. TraceOf(r)' BY <1>t, <1>1, <1>2 DEF TraceOf
<1> QED BY <1>3, <1>4, <1>5

\* A new transaction: all savepoints and all contents are older.
LEMMA CleanBegin ==
    ASSUME Known, Begin, NEW r \in Rels, r \notin ruined
    PROVE  OrderOf(r)' /\ LevelsOf(r)' /\ TraceOf(r)'
<1>t. TypeInv /\ StackInv /\ OrderOf(r) /\ TraceOf(r) BY DEF Known, CleanInv
<1>1. /\ pg = "idle" /\ nextId' = nextId + 1 /\ nextId \in Nat
      /\ UNCHANGED <<undone, wrote, bare, work, savepoints, in_txn, file>>
      /\ DOMAIN stack' = {1} /\ Len(stack') = 1 /\ stack'[1].id = nextId
      /\ stack'[1].all = {nextId}
  BY <1>t DEF Begin, sqlite, history, TypeInv
<1>2. \A j \in DOMAIN savepoints[r] : savepoints[r][j].id \in Nat BY <1>t, SavepointTyped
<1>3. OrderOf(r)' BY <1>t, <1>1, <1>2 DEF OrderOf
<1>4. \A x \in wrote[r] : x \in Nat /\ x < nextId BY <1>t DEF StackInv, TypeInv
<1>5. LevelsOf(r)'
  <2>1. \A i \in DOMAIN stack' : wrote'[r] \cap stack'[i].all = {} BY <1>1, <1>4
  <2>2. 2..Len(stack') = {} BY <1>1
  <2> QED BY <2>1, <2>2 DEF LevelsOf
<1>6. Contents(r)' = Contents(r) BY <1>1 DEF Contents
<1>7. \A s \in Contents(r) : \A x \in s : x \in wrote[r] /\ (x \in undone => x \in bare[r])
  BY <1>t DEF TraceOf
<1>8. file[r] \in Contents(r) BY ContentsAre
<1>9. \A s \in Contents(r) : nextId \notin s BY <1>1, <1>4, <1>7
<1>10. \A i \in DOMAIN stack' : \A x \in stack'[i].all : x = nextId BY <1>1
<1> QED BY <1>1, <1>3, <1>5, <1>6, <1>7, <1>8, <1>9, <1>10 DEF TraceOf

\* What a connection sees is one of the possible contents.
LEMMA CurrentIsContent ==
    ASSUME NEW r \in Rels
    PROVE  Current(r) \in Contents(r)
BY ContentsAre DEF Current

\* A write is the top level's, and goes where the connection was.
LEMMA CleanWrite ==
    ASSUME Known, NEW r \in Rels, Write(r), NEW q \in Rels, q \notin ruined
    PROVE  OrderOf(q)' /\ LevelsOf(q)' /\ TraceOf(q)'
<1> DEFINE L == Len(stack)
           t == stack[L].id
<1>t. TypeInv /\ StackInv /\ CallInv /\ OrderOf(q) /\ LevelsOf(q) /\ TraceOf(q) BY DEF Known, CleanInv
<1>0. /\ pg = "open" /\ pg' = pg /\ Live /\ Live' /\ r \in TX_RELS \cap CONNS
      /\ UNCHANGED <<stack, nextId, undone, registered, TX_RELS, CONNS, savepoints, file>>
  BY DEF Write, Writable, postgres, Live
<1>1. /\ L \in Nat /\ DOMAIN stack = 1..L /\ L > 0
      /\ \A i \in DOMAIN stack : stack[i].id \in Nat /\ stack[i].all \in SUBSET Nat
  BY <1>t, <1>0, LevelTyped DEF StackInv
<1>2. \A i : Real(q, i)' <=> Real(q, i) BY <1>0 DEF Real
<1>3. CASE q # r
  <2>1. /\ in_txn'[q] = in_txn[q] /\ work'[q] = work[q] /\ wrote'[q] = wrote[q]
        /\ bare'[q] = bare[q]
    BY <1>3, <1>t DEF Write, Written, TypeInv
  <2>2. Contents(q)' = Contents(q) BY <1>0, <2>1 DEF Contents
  <2>3. OrderOf(q)' BY <1>t, <1>0, <2>1 DEF OrderOf, SubId
  <2>4. LevelsOf(q)' BY <1>t, <1>0, <1>2, <2>1 DEF LevelsOf
  <2>5. TraceOf(q)' BY <1>t, <1>0, <1>2, <2>1, <2>2 DEF TraceOf
  <2> QED BY <2>3, <2>4, <2>5
<1>4. CASE q = r
  <2>1. /\ in_txn'[r] = TRUE /\ work'[r] = Current(r) \cup {t} /\ wrote'[r] = wrote[r] \cup {t}
        /\ bare'[r] = IF Savepointed(r) THEN bare[r] ELSE bare[r] \cup {t}
    BY <1>t DEF Write, Written, TypeInv, Top
  <2>2. /\ t \in stack[L].all /\ t \notin undone
        /\ \A k \in DOMAIN stack : t \in stack[k].all => k = L
    <3>1. t \in stack[L].all /\ L \in DOMAIN stack BY <1>t, <1>1 DEF StackInv
    <3>2. t \notin undone BY <1>t, <1>0, <3>1 DEF StackInv
    <3>3. \A k \in DOMAIN stack : k < L => \A x \in stack[k].all : x < t
      BY <1>t, <3>1 DEF StackInv
    <3> QED BY <1>1, <3>1, <3>2, <3>3
  <2>3. registered BY <1>t, <1>0 DEF CallInv
  <2>4. OrderOf(r)' BY <1>t, <1>0, <1>4, <2>1 DEF OrderOf, SubId
  <2>5. LevelsOf(r)'
    <3>1. ASSUME NEW i \in DOMAIN stack, NEW x \in wrote'[r] \cap stack[i].all
          PROVE  /\ x \in work'[r]
                 /\ \A k \in (i + 1)..L :
                        /\ Real(r, k)
                        /\ \A j \in DOMAIN savepoints[r] :
                               savepoints[r][j].id = stack[k].id => x \in savepoints[r][j].saved
      <4>1. CASE x = t
        <5>1. i = L BY <2>2, <3>1, <4>1
        <5>2. (i + 1)..L = {} BY <1>1, <5>1
        <5> QED BY <2>1, <4>1, <5>2
      <4>2. CASE x # t
        <5>1. x \in wrote[r] \cap stack[i].all BY <2>1, <3>1, <4>2
        <5>2. in_txn[r] /\ x \in work[r] BY <1>t, <1>0, <1>4, <5>1 DEF LevelsOf
        <5>3. x \in work'[r] BY <1>4, <2>1, <5>2, NotLost DEF Known, Current
        <5> QED BY <1>t, <1>0, <1>4, <5>1, <5>3 DEF LevelsOf
      <4> QED BY <4>1, <4>2
    <3>2. \A i \in 2..L : Real(r, i) => \A k \in i..L : Real(r, k)
      BY <1>t, <1>0, <1>4 DEF LevelsOf
    <3> QED BY <1>0, <1>2, <1>4, <2>1, <2>3, <3>1, <3>2 DEF LevelsOf
  <2>6. TraceOf(r)'
    <3>1. \A s \in Contents(r)' : s \in Contents(r) \/ s = Current(r) \cup {t}
      BY <1>0, <2>1, ContentsAre, ContentsArePrime
    <3>2. ASSUME NEW s \in Contents(r)', NEW x \in s
          PROVE  /\ x \in wrote'[r]
                 /\ x \in undone' => x \in bare'[r]
                 /\ \A k \in DOMAIN stack : x \in stack[k].all =>
                          \A i \in 2..k : Real(r, i) \/ x \in bare'[r]
      <4>1. CASE x = t
        <5>1. ASSUME NEW i \in 2..L, ~Real(r, i) PROVE t \in bare'[r]
          <6>1. ~Savepointed(r) BY <5>1 DEF Savepointed, Real
          <6> QED BY <2>1, <6>1
        <5> QED BY <1>0, <2>1, <2>2, <4>1, <5>1
      <4>2. CASE x # t
        <5>1. \E c \in Contents(r) : x \in c BY <3>1, <3>2, <4>2, CurrentIsContent
        <5>2. bare[r] \subseteq bare'[r] /\ wrote[r] \subseteq wrote'[r] BY <2>1
        <5> QED BY <1>t, <1>0, <1>4, <5>1, <5>2 DEF TraceOf
      <4> QED BY <4>1, <4>2
    <3> QED BY <1>t, <1>0, <1>2, <1>4, <3>2 DEF TraceOf
  <2> QED BY <1>4, <2>4, <2>5, <2>6
<1> QED BY <1>3, <1>4

\* A savepoint remembers what the connection sees: nothing new.
LEMMA PushContents ==
    ASSUME TypeInv, StackInv, on_sub_start, NEW r \in Rels
    PROVE  Contents(r)' \subseteq Contents(r)
<1> DEFINE n == Len(savepoints[r])
<1>1. stack # <<>> /\ file' = file BY DEF on_sub_start, StackInv
<1>2. DOMAIN savepoints[r] = 1..n /\ n \in Nat BY SavepointTyped
<1>3. CASE r \in Callable
  <2>0. savepoints'[r] \in Seq(Savepoint) /\ Len(savepoints'[r]) = n + 1
    BY <1>1, <1>3, PushSavepoints
  <2>1. /\ DOMAIN savepoints'[r] = 1..(n + 1) /\ work'[r] = Current(r)
        /\ \A j \in 1..n : savepoints'[r][j] = savepoints[r][j]
        /\ savepoints'[r][n + 1].saved = Current(r)
    BY <1>1, <1>2, <1>3, <2>0, PushSavepoints
  <2>2. \A j \in 1..(n + 1) : j \in 1..n \/ j = n + 1 BY <1>2
  <2> SUFFICES ASSUME NEW s \in Contents(r)' PROVE s \in Contents(r) OBVIOUS
  <2>3. \/ s = file[r] \/ s = Current(r)
        \/ \E j \in 1..(n + 1) : s = savepoints'[r][j].saved
    BY <1>1, <2>1, ContentsArePrime
  <2>4. ASSUME NEW j \in 1..(n + 1), s = savepoints'[r][j].saved
        PROVE  s = Current(r) \/ \E i \in DOMAIN savepoints[r] : s = savepoints[r][i].saved
    BY <1>2, <2>1, <2>2, <2>4
  <2> QED BY <2>3, <2>4, ContentsAre, CurrentIsContent
<1>4. CASE r \notin Callable
  <2>1. savepoints'[r] = savepoints[r] /\ in_txn'[r] = in_txn[r] /\ work'[r] = work[r]
    BY <1>1, <1>4, PushSavepoints
  <2> QED BY <1>1, <2>1, ContentsAre, ContentsArePrime
<1> QED BY <1>3, <1>4

\* A new level: on the relations in reach, with a savepoint of what is there.
LEMMA CleanPush ==
    ASSUME Known, on_sub_start, NEW r \in Rels, r \notin ruined
    PROVE  OrderOf(r)' /\ LevelsOf(r)' /\ TraceOf(r)'
<1> DEFINE L == Len(stack)
           n == Len(savepoints[r])
<1>t. TypeInv /\ StackInv /\ OrderOf(r) /\ LevelsOf(r) /\ TraceOf(r) BY DEF Known, CleanInv
<1>0. /\ pg = "open" /\ pg' = pg /\ Live /\ Live' /\ nextId \in Nat /\ nextId' = nextId + 1
      /\ UNCHANGED <<undone, wrote, bare, registered, TX_RELS, CONNS, file>>
  BY <1>t DEF on_sub_start, history, Live, TypeInv
<1>e. stack # <<>> BY <1>t, <1>0 DEF StackInv
<1>1. /\ L \in Nat /\ DOMAIN stack = 1..L /\ L > 0
      /\ \A i \in DOMAIN stack : stack[i].id \in Nat /\ stack[i].id < nextId
  BY <1>t, <1>e, LevelTyped DEF StackInv
<1>2. /\ Len(stack') = L + 1 /\ DOMAIN stack' = 1..(L + 1) /\ stack' # <<>>
      /\ \A i \in 1..L : stack'[i] = stack[i]
      /\ stack'[L + 1].id = nextId /\ stack'[L + 1].all = {nextId}
  BY <1>t, <1>1, PushLevel
<1>3. /\ DOMAIN savepoints[r] = 1..n /\ n \in Nat
      /\ \A j \in 1..n : savepoints[r][j].id \in Nat /\ savepoints[r][j].id < nextId
  BY <1>t, SavepointTyped DEF OrderOf
<1>4. \A x \in wrote[r] : x \in Nat /\ x < nextId BY <1>t DEF StackInv, TypeInv
<1>5. \A s \in Contents(r) : \A x \in s : x \in wrote[r] BY <1>t DEF TraceOf
<1>s. stack'[1].id = stack[1].id BY <1>1, <1>2
\* The savepoints of the levels below are as they were.
<1>7. \A i \in 1..L : Real(r, i)' <=> Real(r, i)
  <2>1. CASE r \in Callable
    <3>1. /\ DOMAIN savepoints'[r] = 1..(n + 1)
          /\ \A j \in 1..n : savepoints'[r][j] = savepoints[r][j]
          /\ savepoints'[r][n + 1].id = nextId
      <4>1. savepoints'[r] \in Seq(Savepoint) /\ Len(savepoints'[r]) = n + 1
        BY <1>t, <1>e, <2>1, PushSavepoints
      <4> QED BY <1>t, <1>e, <1>3, <2>1, <4>1, PushSavepoints
    <3>2. \A i \in 1..L : stack'[i].id = stack[i].id /\ stack[i].id # nextId BY <1>0, <1>1, <1>2
    <3>3. \A j \in 1..(n + 1) : j \in 1..n \/ j = n + 1 BY <1>3
    <3>4. 1..n \subseteq 1..(n + 1) BY <1>3
    <3> HIDE DEF n
    <3> QED BY <1>3, <3>1, <3>2, <3>3, <3>4 DEF Real
  <2>2. CASE r \notin Callable
    <3>1. savepoints'[r] = savepoints[r] BY <1>t, <1>e, <2>2, PushSavepoints
    <3> QED BY <1>2, <3>1 DEF Real
  <2> QED BY <2>1, <2>2
<1>8. Contents(r)' \subseteq Contents(r) BY <1>t, PushContents
<1>9. TraceOf(r)'
  <2>1. \A i \in DOMAIN stack' : \A x \in stack'[i].all : x \notin file'[r]
    <3>1. nextId \notin file[r] BY <1>0, <1>4, <1>5, ContentsAre
    <3>2. \A i \in 1..(L + 1) : i \in 1..L \/ i = L + 1 BY <1>1
    <3> QED BY <1>t, <1>0, <1>1, <1>2, <3>1, <3>2 DEF TraceOf
  <2>2. ASSUME NEW s \in Contents(r)', NEW x \in s
        PROVE  /\ x \in wrote'[r]
               /\ x \in undone' => x \in bare'[r]
               /\ \A k \in DOMAIN stack' : x \in stack'[k].all =>
                        \A i \in 2..k : Real(r, i)' \/ x \in bare'[r]
    <3>1. s \in Contents(r) BY <1>8
    <3>2. x \in wrote[r] /\ x # nextId BY <1>0, <1>4, <1>5, <2>2, <3>1
    <3>3. ASSUME NEW k \in DOMAIN stack', x \in stack'[k].all, NEW i \in 2..k
          PROVE  Real(r, i)' \/ x \in bare'[r]
      <4>1. k \in 1..L /\ i \in 1..L BY <1>1, <1>2, <3>2, <3>3
      <4>2. x \in stack[k].all BY <1>2, <3>3, <4>1
      <4>3. Real(r, i) \/ x \in bare[r] BY <1>t, <1>0, <1>1, <2>2, <3>1, <3>3, <4>1, <4>2 DEF TraceOf
      <4> QED BY <1>0, <1>7, <4>1, <4>3
    <3> QED BY <1>t, <1>0, <2>2, <3>1, <3>2, <3>3 DEF TraceOf
  <2> QED BY <1>0, <2>1, <2>2 DEF TraceOf
<1>10. CASE r \in Callable
  <2>0. savepoints'[r] \in Seq(Savepoint) /\ Len(savepoints'[r]) = n + 1
    BY <1>t, <1>e, <1>10, PushSavepoints
  <2>1. /\ in_txn'[r] /\ work'[r] = Current(r) /\ DOMAIN savepoints'[r] = 1..(n + 1)
        /\ \A j \in 1..n : savepoints'[r][j] = savepoints[r][j]
        /\ savepoints'[r][n + 1].id = nextId
        /\ savepoints'[r][n + 1].name = SubId(nextId)
        /\ savepoints'[r][n + 1].saved = Current(r)
    BY <1>t, <1>e, <1>3, <1>10, <2>0, PushSavepoints
  <2>2. \A j \in 1..(n + 1) : j \in 1..n \/ j = n + 1 BY <1>3
  <2>c. registered /\ r \in TX_RELS \cap CONNS BY <1>10 DEF Callable
  <2>3. OrderOf(r)'
    <3>1. \A x \in Current(r) : x < nextId BY <1>4, <1>5, CurrentIsContent
    <3>2. ASSUME NEW j \in 1..n
          PROVE  /\ savepoints'[r][j].id < nextId'
                 /\ \A x \in savepoints'[r][j].saved : x < savepoints'[r][j].id
                 /\ \A k \in 1..(n + 1) : j < k => savepoints'[r][j].id < savepoints'[r][k].id
                 /\ savepoints'[r][j].id # stack[1].id
                 /\ savepoints'[r][j].id > stack[1].id =>
                        savepoints'[r][j].name = savepoints'[r][j].id - stack[1].id
      <4>1. savepoints'[r][j] = savepoints[r][j] BY <2>1
      <4>2. /\ \A x \in savepoints[r][j].saved : x < savepoints[r][j].id
            /\ \A k \in 1..n : j < k => savepoints[r][j].id < savepoints[r][k].id
            /\ savepoints[r][j].id # stack[1].id
            /\ savepoints[r][j].id > stack[1].id =>
                   savepoints[r][j].name = savepoints[r][j].id - stack[1].id
        BY <1>t, <1>e, <1>3 DEF OrderOf, SubId
      <4>3. \A k \in 1..(n + 1) : j < k => savepoints[r][j].id < savepoints'[r][k].id
        BY <1>3, <2>1, <2>2, <4>2
      <4> QED BY <1>0, <1>3, <4>1, <4>2, <4>3
    <3>3. /\ savepoints'[r][n + 1].id < nextId' /\ savepoints'[r][n + 1].id # stack[1].id
          /\ \A x \in savepoints'[r][n + 1].saved : x < savepoints'[r][n + 1].id
          /\ \A k \in 1..(n + 1) : ~(n + 1 < k)
          /\ savepoints'[r][n + 1].name = savepoints'[r][n + 1].id - stack[1].id
      BY <1>0, <1>1, <1>3, <2>1, <3>1 DEF SubId
    <3>4. SUFFICES ASSUME NEW j \in 1..(n + 1)
          PROVE  /\ savepoints'[r][j].id < nextId'
                 /\ \A x \in savepoints'[r][j].saved : x < savepoints'[r][j].id
                 /\ \A k \in 1..(n + 1) : j < k => savepoints'[r][j].id < savepoints'[r][k].id
                 /\ savepoints'[r][j].id # stack'[1].id
                 /\ savepoints'[r][j].id > stack'[1].id =>
                        savepoints'[r][j].name = savepoints'[r][j].id - stack'[1].id
      BY <2>1 DEF OrderOf, SubId
    <3> QED BY <1>s, <2>2, <3>2, <3>3
  <2>4. \A i : i = L + 1 => Real(r, i)' BY <1>2, <1>3, <2>1 DEF Real
  <2>5. \A i \in 2..(L + 1) : Real(r, i)' => \A k \in i..(L + 1) : Real(r, k)'
    <3> SUFFICES ASSUME NEW i \in 2..(L + 1), Real(r, i)', NEW k \in i..(L + 1), k # L + 1
                 PROVE  Real(r, k)'
      BY <2>4
    <3>1. i \in 2..L /\ k \in i..L /\ i \in 1..L /\ k \in 1..L BY <1>1
    <3> QED BY <1>t, <1>0, <1>7, <3>1 DEF LevelsOf
  <2>6. ASSUME NEW i \in 1..(L + 1), NEW x \in wrote[r] \cap stack'[i].all
        PROVE  /\ x \in work'[r]
               /\ \A k \in (i + 1)..(L + 1) :
                      /\ Real(r, k)'
                      /\ \A j \in 1..(n + 1) :
                             savepoints'[r][j].id = stack'[k].id => x \in savepoints'[r][j].saved
    <3>1. i \in 1..L /\ x \in stack[i].all BY <1>1, <1>2, <1>4, <2>6
    <3>2. in_txn[r] /\ x \in work[r] /\ x \in Current(r)
      BY <1>t, <1>0, <1>1, <2>6, <3>1, NotLost DEF Known, LevelsOf, Current
    <3>3. ASSUME NEW k \in (i + 1)..L
          PROVE  /\ Real(r, k)'
                 /\ \A j \in 1..(n + 1) :
                        savepoints'[r][j].id = stack'[k].id => x \in savepoints'[r][j].saved
      <4>1. k \in 1..L BY <1>1, <3>1
      <4>2. /\ Real(r, k)
            /\ \A j \in 1..n : savepoints[r][j].id = stack[k].id => x \in savepoints[r][j].saved
        BY <1>t, <1>0, <1>1, <1>3, <2>6, <3>1, <3>3 DEF LevelsOf
      <4>3. stack'[k].id = stack[k].id /\ stack[k].id # nextId BY <1>0, <1>1, <1>2, <4>1
      <4> QED BY <1>7, <2>1, <2>2, <4>1, <4>2, <4>3
    <3>4. \A j \in 1..(n + 1) :
              savepoints'[r][j].id = stack'[L + 1].id => x \in savepoints'[r][j].saved
      BY <1>2, <1>3, <2>1, <2>2, <3>2
    <3>5. \A k \in (i + 1)..(L + 1) : k \in (i + 1)..L \/ k = L + 1 BY <1>1, <3>1
    <3> QED BY <2>1, <2>4, <3>2, <3>3, <3>4, <3>5
  <2>7. LevelsOf(r)' BY <1>0, <1>2, <2>1, <2>c, <2>5, <2>6 DEF LevelsOf
  <2> QED BY <1>9, <2>3, <2>7
<1>11. CASE r \notin Callable
  <2>1. savepoints'[r] = savepoints[r] /\ in_txn'[r] = in_txn[r] /\ work'[r] = work[r]
    BY <1>t, <1>e, <1>11, PushSavepoints
  <2>2. OrderOf(r)'
    <3>1. \A j \in DOMAIN savepoints[r] : savepoints[r][j].id < nextId' BY <1>0, <1>3
    <3>2. ~in_txn[r] => savepoints[r] = <<>> BY <1>t DEF OrderOf
    <3>3. \A j \in DOMAIN savepoints[r] :
             /\ \A x \in savepoints[r][j].saved : x < savepoints[r][j].id
             /\ \A k \in DOMAIN savepoints[r] : j < k => savepoints[r][j].id < savepoints[r][k].id
             /\ savepoints[r][j].id # stack[1].id
             /\ savepoints[r][j].id > stack[1].id =>
                    savepoints[r][j].name = savepoints[r][j].id - stack[1].id
      BY <1>t, <1>e DEF OrderOf, SubId
    <3> QED BY <1>s, <2>1, <3>1, <3>2, <3>3 DEF OrderOf, SubId
  <2>3. \A i \in 2..(L + 1) : ~Real(r, i)'
    <3>1. \A i : i = L + 1 => ~Real(r, i)' BY <1>0, <1>2, <1>3, <2>1 DEF Real
    <3>2. \A i \in 2..L : ~Real(r, i) BY <1>t, <1>0, <1>11 DEF LevelsOf, Callable
    <3>3. \A i \in 2..(L + 1) : (i \in 1..L /\ i \in 2..L) \/ i = L + 1 BY <1>1
    <3> QED BY <1>7, <3>1, <3>2, <3>3
  <2>4. \A i \in 1..(L + 1) : wrote[r] \cap stack'[i].all = {}
    <3>1. \A i \in 1..L : wrote[r] \cap stack[i].all = {}
      BY <1>t, <1>0, <1>1, <1>11 DEF LevelsOf, Callable
    <3>2. nextId \notin wrote[r] BY <1>0, <1>4
    <3>3. \A i \in 1..(L + 1) : i \in 1..L \/ i = L + 1 BY <1>1
    <3> QED BY <1>2, <3>1, <3>2, <3>3
  <2>5. LevelsOf(r)' BY <1>0, <1>2, <2>3, <2>4 DEF LevelsOf
  <2> QED BY <1>9, <2>2, <2>5
<1> QED BY <1>10, <1>11

\* RELEASE and ROLLBACK TO bring back what a savepoint remembers: nothing new.
LEMMA PopContents ==
    ASSUME Known, on_sub_commit \/ on_sub_abort, NEW r \in Rels, r \notin ruined
    PROVE  Contents(r)' \subseteq Contents(r)
<1>1. file'[r] = file[r] /\ in_txn' = in_txn BY NotLost DEF Known, on_sub_commit, on_sub_abort
<1> QED BY <1>1, SubEnd, ContentsAre, ContentsArePrime

\* The levels that stay when the last of n ends.
LEMMA LevelsBelow ==
    ASSUME NEW n \in Nat, n > 1
    PROVE  /\ \A i \in 1..(n - 1) : i \in 1..n /\ (i \in 1..(n - 2) \/ i = n - 1)
           /\ n - 1 \in 1..(n - 1) /\ n - 1 \in 1..n /\ n \in 1..n /\ n \in 2..n
           /\ \A i \in 1..(n - 2) : i \in 1..n /\ i < n - 1
           /\ \A i \in 1..(n - 1) : \A k \in (i + 1)..(n - 1) :
                  /\ k \in (i + 1)..n /\ k \in 2..(n - 1) /\ k \in 1..(n - 1) /\ i < n - 1
OBVIOUS

\* The end of a level: what stays was there before it, or is its parent's now.
LEMMA CleanPop ==
    ASSUME Known, on_sub_commit \/ on_sub_abort, NEW r \in Rels, r \notin ruined
    PROVE  OrderOf(r)' /\ LevelsOf(r)' /\ TraceOf(r)'
<1> DEFINE L == Len(stack)
           sp == savepoints[r]
<1>t. TypeInv /\ StackInv /\ OrderOf(r) /\ LevelsOf(r) /\ TraceOf(r) BY DEF Known, CleanInv
<1>0. /\ Live /\ Live' /\ L > 1
      /\ UNCHANGED <<nextId, wrote, bare, registered, TX_RELS, CONNS, in_txn>>
      /\ file'[r] = file[r]
      /\ undone' = undone \/ (on_sub_abort /\ undone' = undone \cup stack[L].all)
  BY NotLost DEF Known, on_sub_commit, on_sub_abort, history, Live, Top
<1>1. /\ L \in Nat /\ DOMAIN stack = 1..L
      /\ \A i \in DOMAIN stack : stack[i].id \in Nat /\ stack[i].all \in SUBSET Nat
  BY <1>t, LevelTyped
<1>n. /\ \A i \in 1..(L - 1) : i \in 1..L /\ (i \in 1..(L - 2) \/ i = L - 1)
      /\ L - 1 \in 1..(L - 1) /\ L - 1 \in 1..L /\ L \in 1..L /\ L \in 2..L
      /\ \A i \in 1..(L - 2) : i \in 1..L /\ i < L - 1
      /\ \A i \in 1..(L - 1) : \A k \in (i + 1)..(L - 1) :
             /\ k \in (i + 1)..L /\ k \in 2..(L - 1) /\ k \in 1..(L - 1) /\ i < L - 1
  <2> HIDE DEF L
  <2> QED BY <1>0, <1>1, LevelsBelow
<1>2. /\ Len(stack') = L - 1 /\ DOMAIN stack' = 1..(L - 1) /\ stack' # <<>>
      /\ \A i \in 1..(L - 1) : stack'[i].id = stack[i].id
      /\ \A i \in 1..(L - 2) : stack'[i].all = stack[i].all
      /\ stack'[L - 1].all \subseteq stack[L - 1].all \cup stack[L].all
      /\ on_sub_abort => stack'[L - 1].all = stack[L - 1].all
  <2>1. stack' \in Seq(Level) /\ Len(stack') = L - 1 BY <1>t, PopLevel, MergeLevel
  <2>2. stack' # <<>> /\ DOMAIN stack' = 1..(L - 1) BY <1>0, <1>1, <2>1
  <2>3. CASE on_sub_abort
    <3>1. \A i \in 1..(L - 1) : stack'[i] = stack[i] BY <1>t, <2>3, PopLevel
    <3>2. 1..(L - 2) \subseteq 1..(L - 1) /\ L - 1 \in 1..(L - 1) BY <1>0, <1>1
    <3> QED BY <2>1, <2>2, <3>1, <3>2
  <2>4. CASE ~on_sub_abort BY <1>t, <2>1, <2>2, <2>4, MergeLevel
  <2> QED BY <2>3, <2>4
<1>3. /\ \A j \in DOMAIN savepoints'[r] : j \in DOMAIN sp /\ savepoints'[r][j] = sp[j]
      /\ \A i \in 2..(L - 1) : Real(r, i)' <=> Real(r, i)
      /\ \/ work'[r] = work[r]
         \/ \E j \in DOMAIN sp : /\ work'[r] = sp[j].saved /\ in_txn[r]
                                 /\ sp[j].id = stack[L].id \/ ~Real(r, L)
      /\ on_sub_abort /\ Real(r, L) =>
             /\ \A j \in DOMAIN savepoints'[r] : sp[j].id <= stack[L].id
             /\ \E j \in DOMAIN savepoints'[r] : work'[r] = sp[j].saved
  BY SubEnd
<1>4. Contents(r)' \subseteq Contents(r) BY PopContents
<1>5. OrderOf(r)'
  <2>1. ~in_txn[r] => DOMAIN savepoints'[r] = {}
    <3>1. ~in_txn[r] => DOMAIN sp = {} BY <1>t DEF OrderOf
    <3> QED BY <1>3, <3>1
  <2>2. ~in_txn'[r] => savepoints'[r] = <<>>
    <3>1. savepoints'[r] \in Seq(Savepoint) BY <1>t, PopSavepoints, CutSavepoints
    <3>2. DOMAIN savepoints'[r] = {} => Len(savepoints'[r]) = 0
      <4>1. Len(savepoints'[r]) \in Nat /\ DOMAIN savepoints'[r] = 1..Len(savepoints'[r]) BY <3>1
      <4>2. Len(savepoints'[r]) # 0 => 1 \in 1..Len(savepoints'[r]) BY <4>1
      <4> QED BY <4>1, <4>2
    <3>3. Len(savepoints'[r]) = 0 => savepoints'[r] = <<>> BY <3>1, EmptySeq
    <3> QED BY <1>0, <2>1, <3>2, <3>3
  <2>3. stack # <<>> /\ stack'[1].id = stack[1].id BY <1>0, <1>1, <1>2, <1>t, LevelTyped
  <2>4. \A j \in DOMAIN sp :
           /\ sp[j].id < nextId
           /\ \A x \in sp[j].saved : x < sp[j].id
           /\ \A k \in DOMAIN sp : j < k => sp[j].id < sp[k].id
           /\ sp[j].id # stack[1].id
           /\ sp[j].id > stack[1].id => sp[j].name = sp[j].id - stack[1].id
    BY <1>t, <2>3 DEF OrderOf, SubId
  <2> QED BY <1>0, <1>3, <2>2, <2>3, <2>4 DEF OrderOf, SubId
<1>6. LevelsOf(r)'
  <2>1. \A i \in 2..(L - 1) : Real(r, i)' =>
            registered /\ r \in TX_RELS \cap CONNS /\ \A k \in i..(L - 1) : Real(r, k)'
    <3> SUFFICES ASSUME NEW i \in 2..(L - 1), Real(r, i)'
                 PROVE  registered /\ r \in TX_RELS \cap CONNS /\ \A k \in i..(L - 1) : Real(r, k)'
      OBVIOUS
    <3>1. Real(r, i) /\ i \in 2..L BY <1>1, <1>3
    <3>2. registered /\ r \in TX_RELS \cap CONNS /\ \A k \in i..L : Real(r, k)
      BY <1>t, <1>0, <3>1 DEF LevelsOf
    <3>3. \A k \in i..(L - 1) : k \in 2..(L - 1) /\ k \in i..L BY <1>1
    <3> QED BY <1>3, <3>2, <3>3
  <2>2. ASSUME NEW i \in 1..(L - 1), NEW x \in wrote[r] \cap stack'[i].all
        PROVE  /\ registered /\ r \in TX_RELS \cap CONNS /\ in_txn[r] /\ x \in work'[r]
               /\ \A k \in (i + 1)..(L - 1) :
                      /\ Real(r, k)'
                      /\ \A j \in DOMAIN savepoints'[r] :
                             savepoints'[r][j].id = stack'[k].id => x \in savepoints'[r][j].saved
    <3>1. \E m \in 1..L : x \in wrote[r] \cap stack[m].all
                          /\ (on_sub_abort \/ i < L - 1 => m = i) /\ m \in {i, L}
      <4> HIDE DEF L
      <4>1. CASE i \in 1..(L - 2)
        <5>1. x \in wrote[r] \cap stack[i].all /\ i \in 1..L BY <1>n, <1>2, <2>2, <4>1
        <5> QED BY <5>1
      <4>2. CASE i = L - 1 /\ x \in stack[L - 1].all
        <5>1. x \in wrote[r] \cap stack[i].all /\ i \in 1..L BY <1>n, <2>2, <4>2
        <5> QED BY <5>1
      <4>3. CASE i = L - 1 /\ x \notin stack[L - 1].all
        <5>1. x \in wrote[r] \cap stack[L].all /\ L \in 1..L /\ ~on_sub_abort
          BY <1>n, <1>2, <2>2, <4>3
        <5>2. ~(i < L - 1) BY <1>1, <4>3
        <5> QED BY <5>1, <5>2
      <4> QED BY <1>n, <4>1, <4>2, <4>3
    <3>2. PICK m \in 1..L : x \in wrote[r] \cap stack[m].all
                          /\ (on_sub_abort \/ i < L - 1 => m = i) /\ m \in {i, L}
      BY <3>1
    <3>3. /\ registered /\ r \in TX_RELS \cap CONNS /\ in_txn[r] /\ x \in work[r]
          /\ \A k \in (m + 1)..L :
                 /\ Real(r, k)
                 /\ \A j \in DOMAIN sp : sp[j].id = stack[k].id => x \in sp[j].saved
      BY <1>t, <1>0, <1>1, <3>2 DEF LevelsOf
    <3>4. x \in work'[r]
      <4>1. CASE on_sub_abort
        <5>1. m = i /\ L \in (m + 1)..L BY <1>0, <1>1, <3>2, <4>1
        <5> QED BY <1>3, <3>3, <5>1
      <4>2. CASE ~on_sub_abort
        <5>1. work'[r] = work[r] BY <4>2, NotLost DEF Known
        <5> QED BY <3>3, <5>1
      <4> QED BY <4>1, <4>2
    <3>5. ASSUME NEW k \in (i + 1)..(L - 1)
          PROVE  /\ Real(r, k)'
                 /\ \A j \in DOMAIN savepoints'[r] :
                        savepoints'[r][j].id = stack'[k].id => x \in savepoints'[r][j].saved
      <4>1. m = i /\ k \in (m + 1)..L /\ k \in 2..(L - 1) /\ k \in 1..(L - 1)
        <5> HIDE DEF L
        <5> QED BY <1>n, <3>2
      <4> QED BY <1>2, <1>3, <3>3, <4>1
    <3> QED BY <3>3, <3>4, <3>5
  <2> QED BY <1>0, <1>2, <2>1, <2>2 DEF LevelsOf
<1>7. TraceOf(r)'
  <2>1. \A i \in DOMAIN stack' : \A x \in stack'[i].all : x \notin file'[r]
    <3>1. \A i \in 1..L : \A x \in stack[i].all : x \notin file[r] BY <1>t, <1>0, <1>1 DEF TraceOf
    <3> HIDE DEF L
    <3> QED BY <1>0, <1>n, <1>2, <3>1
  <2>2. ASSUME NEW s \in Contents(r)', NEW x \in s
        PROVE  /\ x \in wrote'[r]
               /\ x \in undone' => x \in bare'[r]
               /\ \A k \in DOMAIN stack' : x \in stack'[k].all =>
                        \A i \in 2..k : Real(r, i)' \/ x \in bare'[r]
    <3>1. /\ x \in wrote[r] /\ (x \in undone => x \in bare[r])
          /\ \A k \in 1..L : x \in stack[k].all => \A i \in 2..k : Real(r, i) \/ x \in bare[r]
      BY <1>t, <1>0, <1>1, <1>4, <2>2 DEF TraceOf
    \* A number of the level that is rolled back: no content after its savepoint
    \* is left, and without one the write was bare.
    <3>2. ASSUME on_sub_abort, x \in stack[L].all PROVE x \in bare[r]
      <4>1. CASE ~Real(r, L)
        <5>1. L \in 1..L /\ L \in 2..L BY <1>0, <1>1
        <5> QED BY <3>1, <3>2, <4>1, <5>1
      <4>2. CASE Real(r, L)
        <5>1. L \in DOMAIN stack BY <1>0, <1>1
        <5>2. stack[L].id <= x /\ x \in Nat /\ stack[L].id \in Nat BY <1>t, <1>1, <3>2, <5>1 DEF StackInv
        <5>3. x \notin file[r] BY <1>t, <1>0, <3>2, <5>1 DEF TraceOf
        <5>4. PICK j \in DOMAIN savepoints'[r] : s = sp[j].saved
          BY <1>0, <1>3, <2>2, <3>2, <4>2, <5>3, ContentsArePrime
        <5>5. x < sp[j].id /\ sp[j].id <= stack[L].id /\ sp[j].id \in Nat
          BY <1>t, <1>3, <2>2, <3>2, <4>2, <5>4, SavepointTyped DEF OrderOf
        <5> QED BY <5>2, <5>5
      <4> QED BY <4>1, <4>2
    <3>3. ASSUME NEW k \in 1..(L - 1), x \in stack'[k].all, NEW i \in 2..k
          PROVE  Real(r, i)' \/ x \in bare[r]
      <4>1. PICK m \in 1..L : x \in stack[m].all /\ k <= m
        <5> HIDE DEF L
        <5>1. CASE k \in 1..(L - 2)
          <6>1. x \in stack[k].all /\ k \in 1..L /\ k <= k BY <1>n, <1>2, <3>3, <5>1
          <6> QED BY <6>1
        <5>2. CASE k = L - 1
          <6>1. x \in stack[k].all \/ x \in stack[L].all BY <1>2, <3>3, <5>2
          <6>2. k \in 1..L /\ L \in 1..L /\ k <= k /\ k <= L BY <1>1, <1>n, <5>2
          <6> QED BY <6>1, <6>2
        <5> QED BY <1>n, <5>1, <5>2
      <4>2. i \in 2..m /\ i \in 2..(L - 1) BY <1>1, <4>1
      <4> QED BY <1>3, <3>1, <4>1, <4>2
    <3> QED BY <1>0, <1>2, <3>1, <3>2, <3>3
  <2> QED BY <1>0, <2>1, <2>2 DEF TraceOf
<1> QED BY <1>5, <1>6, <1>7

\* A COMMIT of q's connection: the open view becomes the file.
LEMMA CommitIs ==
    ASSUME TypeInv, NEW q \in Rels, CommitOne(q), q \in CONNS /\ in_txn[q], NEW r \in Rels
    PROVE  /\ r = q => ~in_txn'[r] /\ savepoints'[r] = <<>> /\ file'[r] = work[r]
           /\ r # q => in_txn'[r] = in_txn[r] /\ work'[r] = work[r]
                       /\ savepoints'[r] = savepoints[r] /\ file'[r] = file[r]
<1>1. [file EXCEPT ![q] = work[q]] \in [Rels -> SUBSET Nat] BY DEF TypeInv
<1>2. EndSqlite({q}, [file EXCEPT ![q] = work[q]]) BY DEF CommitOne
<1>3. file' = [file EXCEPT ![q] = work[q]] BY <1>2 DEF EndSqlite
<1>4. file'[r] = IF r = q THEN work[r] ELSE file[r] BY <1>3 DEF TypeInv
<1>5. /\ r \in {q} => ~in_txn'[r] /\ savepoints'[r] = <<>>
      /\ r \notin {q} => in_txn'[r] = in_txn[r] /\ work'[r] = work[r]
                         /\ savepoints'[r] = savepoints[r]
  BY <1>1, <1>2, EndSqliteIs
<1> QED BY <1>4, <1>5

\* It is nothing new.
LEMMA CommitContents ==
    ASSUME TypeInv, NEW q \in Rels, CommitOne(q), q \in CONNS /\ in_txn[q], NEW r \in Rels
    PROVE  Contents(r)' \subseteq Contents(r)
<1>1. CASE r = q
  <2>1. DOMAIN savepoints'[r] = {} BY <1>1, CommitIs
  <2> QED BY <1>1, <2>1, CommitIs, ContentsAre, ContentsArePrime
<1>2. CASE r # q BY <1>2, CommitIs, ContentsAre, ContentsArePrime
<1> QED BY <1>1, <1>2

\* COMMIT leaves no trace of what was rolled back.
LEMMA CleanCommit ==
    ASSUME Known, NEW q \in Rels, CommitOne(q), NEW r \in Rels, r \notin ruined
    PROVE  OrderOf(r)' /\ LevelsOf(r)' /\ TraceOf(r)'
<1>t. TypeInv /\ OrderOf(r) /\ TraceOf(r) BY DEF Known, CleanInv
<1>0. ~Live /\ ~Live' /\ UNCHANGED <<stack, nextId, undone, wrote, bare>>
  BY DEF CommitOne, postgres, Live
<1>1. CASE ~(q \in CONNS /\ in_txn[q])
  <2>1. UNCHANGED <<stack, nextId, undone, wrote, bare, work, savepoints, in_txn, file>>
    BY <1>0, <1>1 DEF CommitOne
  <2> QED BY <1>0, <2>1, CleanSame
<1>2. CASE q \in CONNS /\ in_txn[q]
  <2>1. /\ r = q => ~in_txn'[r] /\ savepoints'[r] = <<>> /\ file'[r] = work[r]
        /\ r # q => in_txn'[r] = in_txn[r] /\ work'[r] = work[r]
                    /\ savepoints'[r] = savepoints[r] /\ file'[r] = file[r]
    BY <1>t, <1>2, CommitIs
  <2>2. Contents(r)' \subseteq Contents(r) BY <1>t, <1>2, CommitContents
  <2>3. OrderOf(r)'
    <3>1. CASE r = q
      <4>1. DOMAIN savepoints'[r] = {} BY <2>1, <3>1
      <4> QED BY <2>1, <3>1, <4>1 DEF OrderOf
    <3>2. CASE r # q BY <1>t, <1>0, <2>1, <3>2 DEF OrderOf, SubId
    <3> QED BY <3>1, <3>2
  <2> QED BY <1>t, <1>0, <2>2, <2>3 DEF TraceOf, LevelsOf
<1> QED BY <1>1, <1>2

\* The end of a transaction: nothing that was rolled back stays in view.
LEMMA CleanEnd ==
    ASSUME Known, unlink_storage \/ on_abort \/ Exit, NEW r \in Rels, r \notin ruined
    PROVE  OrderOf(r)' /\ LevelsOf(r)' /\ TraceOf(r)'
<1>t. TypeInv /\ OrderOf(r) /\ LevelsOf(r) /\ TraceOf(r) BY DEF Known, CleanInv
<1>0. /\ ~Live' /\ stack' = <<>> /\ UNCHANGED <<nextId, wrote, bare>>
  BY DEF unlink_storage, on_abort, Exit, EndXact, Live
\* r's SQLite transaction is over, or goes on as it was.
<1>1. /\ \/ ~in_txn'[r] /\ savepoints'[r] = <<>>
         \/ in_txn'[r] = in_txn[r] /\ work'[r] = work[r] /\ savepoints'[r] = savepoints[r]
      /\ file'[r] \in {file[r], {}}
      /\ on_abort /\ registered /\ r \in TX_RELS \cap CONNS =>
             ~in_txn'[r] /\ savepoints'[r] = <<>> /\ file'[r] = file[r]
  <2>f. file \in [Rels -> SUBSET Nat] BY <1>t DEF TypeInv
  <2>1. CASE unlink_storage
    <3>0. [q \in Rels |-> IF q \in unlinks THEN {} ELSE file[q]] \in [Rels -> SUBSET Nat]
      BY <1>t DEF TypeInv
    <3>1. EndSqlite(unlinks, [q \in Rels |-> IF q \in unlinks THEN {} ELSE file[q]])
      BY <2>1 DEF unlink_storage
    <3>2. file'[r] \in {file[r], {}} BY <3>1 DEF EndSqlite
    <3>3. \/ ~in_txn'[r] /\ savepoints'[r] = <<>>
          \/ in_txn'[r] = in_txn[r] /\ work'[r] = work[r] /\ savepoints'[r] = savepoints[r]
      BY <1>t, <3>0, <3>1, EndSqliteIs
    <3>4. ~on_abort BY <2>1 DEF unlink_storage, on_abort
    <3> QED BY <3>2, <3>3, <3>4
  <2>2. CASE on_abort /\ registered
    <3>1. EndSqlite(TX_RELS \cap CONNS, file) BY <2>2 DEF on_abort
    <3> QED BY <1>t, <2>f, <3>1, EndSqliteIs
  <2>3. CASE on_abort /\ ~registered BY <2>3 DEF on_abort
  <2>4. CASE Exit
    <3>1. EndSqlite(Rels, file) BY <2>4 DEF Exit
    <3> QED BY <1>t, <2>f, <3>1, EndSqliteIs
  <2> QED BY <2>1, <2>2, <2>3, <2>4
<1>2. OrderOf(r)'
  <2>1. CASE savepoints'[r] = <<>>
    <3>1. DOMAIN savepoints'[r] = {} BY <2>1
    <3> QED BY <2>1, <3>1 DEF OrderOf
  <2>2. CASE savepoints'[r] # <<>> BY <1>t, <1>0, <1>1, <2>2 DEF OrderOf
  <2> QED BY <2>1, <2>2
<1>3. \A s \in Contents(r)' : s \in Contents(r) \/ s = {}
  <2>1. CASE savepoints'[r] = <<>> /\ ~in_txn'[r]
    <3>1. DOMAIN savepoints'[r] = {} BY <2>1
    <3> QED BY <1>1, <2>1, <3>1, ContentsAre, ContentsArePrime
  <2>2. CASE ~(savepoints'[r] = <<>> /\ ~in_txn'[r])
    BY <1>1, <2>2, ContentsAre, ContentsArePrime
  <2> QED BY <2>1, <2>2
<1>4. ASSUME NEW s \in Contents(r)', NEW x \in s, x \in undone' PROVE x \in bare[r]
  <2>1. s \in Contents(r) BY <1>3, <1>4
  <2>2. x \in wrote[r] /\ (x \in undone => x \in bare[r]) BY <1>t, <1>4, <2>1 DEF TraceOf
  <2>3. CASE x \in undone BY <2>2, <2>3
  <2>4. CASE x \notin undone
    <3>1. on_abort /\ Live /\ x \in All
      BY <1>4, <2>4 DEF unlink_storage, on_abort, Exit, Live
    <3>2. PICK i \in DOMAIN stack : x \in stack[i].all BY <1>t, <3>1, LevelTyped
    <3>3. registered /\ r \in TX_RELS \cap CONNS BY <1>t, <2>2, <3>1, <3>2 DEF LevelsOf
    <3>4. ~in_txn'[r] /\ savepoints'[r] = <<>> /\ file'[r] = file[r] BY <1>1, <3>1, <3>3
    <3>5. DOMAIN savepoints'[r] = {} BY <3>4
    <3>6. s = file[r] BY <1>4, <3>4, <3>5, ContentsArePrime
    <3> QED BY <1>t, <1>4, <3>1, <3>2, <3>6 DEF TraceOf
  <2> QED BY <2>3, <2>4
<1>5. \A s \in Contents(r)' : \A x \in s : x \in wrote[r] BY <1>t, <1>3 DEF TraceOf
<1> QED BY <1>0, <1>2, <1>4, <1>5 DEF TraceOf, LevelsOf

\* No step leaves a trace of what is rolled back.
LEMMA CleanStep == Known /\ Next => CleanInv'
<1> SUFFICES ASSUME Known, Next, NEW r \in Rels, r \notin ruined'
             PROVE  OrderOf(r)' /\ LevelsOf(r)' /\ TraceOf(r)'
  BY DEF CleanInv
<1>n. r \notin ruined BY RuinedGrows
<1> USE DEF postgres, sqlite, history
<1>1. CASE Begin BY <1>1, <1>n, CleanBegin
<1>2. CASE StatementFails BY <1>2, <1>n, CleanSame DEF StatementFails, Live
<1>3. ASSUME NEW q \in Rels, ensure_in_xact(q) \/ OpenFails(q) \/ Uncached(q)
      PROVE  OrderOf(r)' /\ LevelsOf(r)' /\ TraceOf(r)'
  <2>1. /\ UNCHANGED <<stack, nextId, undone, wrote, bare, work, savepoints, in_txn, file>>
        /\ Live /\ (registered => registered')
        /\ TX_RELS \subseteq TX_RELS' /\ CONNS \subseteq CONNS'
    <3>1. registered \in BOOLEAN BY DEF Known, TypeInv
    <3>2. CASE ensure_in_xact(q) BY <3>1, <3>2 DEF ensure_in_xact, Live
    <3>3. CASE OpenFails(q) BY <3>3 DEF OpenFails, Live
    <3>4. CASE Uncached(q) BY <3>4 DEF Uncached, Live
    <3> QED BY <1>3, <3>2, <3>3, <3>4
  <2> QED BY <2>1, <1>n, CleanSame
<1>4. ASSUME NEW q \in Rels, Write(q) PROVE OrderOf(r)' /\ LevelsOf(r)' /\ TraceOf(r)'
  BY <1>4, <1>n, CleanWrite
<1>o. ASSUME NEW q \in Rels, WriteThrough(q) \/ WriteRollsBack(q) \/ CommitDies(q)
      PROVE  OrderOf(r)' /\ LevelsOf(r)' /\ TraceOf(r)'
  <2>1. /\ work'[r] = work[r] /\ savepoints'[r] = savepoints[r] /\ in_txn'[r] = in_txn[r]
        /\ file'[r] = file[r] /\ wrote'[r] = wrote[r] /\ bare'[r] = bare[r]
    BY <1>o, OthersKept DEF Known
  <2>2. /\ UNCHANGED <<stack, nextId, undone, registered, TX_RELS, CONNS>>
        /\ Live' => Live
    BY <1>o DEF WriteThrough, WriteRollsBack, CommitDies, Writable, Live
  <2> QED BY <1>n, <2>1, <2>2, CleanSame
<1>5. CASE on_sub_start BY <1>5, <1>n, CleanPush
<1>6. CASE on_sub_commit \/ on_sub_abort BY <1>6, <1>n, CleanPop
<1>7. ASSUME NEW q \in Rels, drop_relation(q)
      PROVE  OrderOf(r)' /\ LevelsOf(r)' /\ TraceOf(r)'
  BY <1>7, <1>n, CleanSame DEF drop_relation, Live
<1>8. CASE on_precommit BY <1>8, <1>n, CleanSame DEF on_precommit, Live
<1>9. ASSUME NEW q \in Rels, CommitOne(q) PROVE OrderOf(r)' /\ LevelsOf(r)' /\ TraceOf(r)'
  BY <1>9, <1>n, CleanCommit
<1>11. CASE RecordCommit BY <1>11, <1>n, CleanSame DEF RecordCommit, Live
<1>12. CASE unlink_storage \/ on_abort \/ Exit BY <1>12, <1>n, CleanEnd
<1> QED BY <1>1, <1>2, <1>3, <1>4, <1>o, <1>5, <1>6, <1>7, <1>8, <1>9, <1>11, <1>12 DEF Next

-----------------------------------------------------------------------------
(* What is committed is stored. *)

\* The premises of the lemmas of this section.
Stored == Known /\ DropInv /\ StoreInv

\* Steps after which no content is new, and nothing more is committed.
LEMMA StoreSame ==
    ASSUME Stored, NEW r \in Rels, r \notin ruined, pg' # "precommit",
           \A s \in Contents(r)' : \E c \in Contents(r) : c \subseteq s,
           wrote'[r] \cap committed' \subseteq wrote[r] \cap committed,
           dropper[r] \in committed => dropper'[r] \in committed'
    PROVE  StoreOf(r)'
<1>1. StoreOf(r) BY DEF Stored, StoreInv
<1> QED BY <1>1 DEF StoreOf

\* A write is not committed yet.
LEMMA StoreWrite ==
    ASSUME Stored, NEW q \in Rels, Write(q), NEW r \in Rels, r \notin ruined
    PROVE  StoreOf(r)'
<1>t. TypeInv /\ StackInv BY DEF Stored, Known
<1>0. /\ pg = "open" /\ pg' = pg /\ UNCHANGED <<dropper, committed, savepoints, file>>
  BY DEF Write, Writable, postgres
<1>1. Top.id \notin committed
  <2>1. Len(stack) \in DOMAIN stack BY <1>t, <1>0, LevelTyped DEF StackInv
  <2> QED BY <1>t, <1>0, <2>1 DEF StackInv, Top
<1>2. wrote'[r] \subseteq wrote[r] \cup {Top.id} BY <1>t DEF Write, Written, TypeInv
<1>3. \A s \in Contents(r)' : \E c \in Contents(r) : c \subseteq s
  <2>1. CASE r = q
    <3>1. work'[r] = Current(r) \cup {Top.id} BY <1>t, <2>1 DEF Write, TypeInv
    <3>2. \A s \in Contents(r)' : s \in Contents(r) \/ s = Current(r) \cup {Top.id}
      BY <1>0, <3>1, ContentsAre, ContentsArePrime
    <3> QED BY <3>2, CurrentIsContent
  <2>2. CASE r # q
    <3>1. work'[r] = work[r] /\ in_txn'[r] = in_txn[r] BY <1>t, <2>2 DEF Write, TypeInv
    <3>2. Contents(r)' = Contents(r) BY <1>0, <3>1 DEF Contents
    <3> QED BY <3>2
  <2> QED BY <2>1, <2>2
<1> QED BY <1>0, <1>1, <1>2, <1>3, StoreSame

\* PreCommit finds every relation with writes of the transaction in TX_RELS.
LEMMA StorePrecommit ==
    ASSUME Stored, on_precommit, NEW r \in Rels, r \notin ruined
    PROVE  StoreOf(r)'
<1>t. StoreOf(r) /\ LevelsOf(r) BY DEF Stored, Known, StoreInv, CleanInv
<1>0. /\ Live /\ pg' = "precommit" /\ (registered => taken' = TX_RELS)
      /\ UNCHANGED <<stack, committed, dropper, CONNS, wrote, in_txn, work, savepoints, file>>
  BY DEF on_precommit, sqlite, history, Live
<1>1. Contents(r)' = Contents(r) BY <1>0 DEF Contents
<1>2. \A i \in DOMAIN stack : \A x \in wrote[r] \cap stack[i].all :
          r \in taken' \cap CONNS /\ in_txn[r] /\ x \in work[r]
  BY <1>t, <1>0 DEF LevelsOf
<1> QED BY <1>t, <1>0, <1>1, <1>2 DEF StoreOf

\* The COMMIT of a relation puts what the transaction wrote into its file.
LEMMA StoreCommit ==
    ASSUME Stored, NEW q \in Rels, CommitOne(q), NEW r \in Rels, r \notin ruined
    PROVE  StoreOf(r)'
<1>t. TypeInv /\ StoreOf(r) BY DEF Stored, Known, StoreInv
<1>0. /\ pg = "precommit" /\ pg' = pg /\ q \in taken /\ taken' = taken \ {q}
      /\ UNCHANGED <<stack, committed, dropper, CONNS, wrote>>
  BY DEF CommitOne, postgres
<1>1. CASE ~(q \in CONNS /\ in_txn[q])
  <2>1. UNCHANGED <<in_txn, work, savepoints, file>> BY <1>1 DEF CommitOne
  <2>2. Contents(r)' = Contents(r) BY <2>1 DEF Contents
  <2> QED BY <1>t, <1>0, <1>1, <2>1, <2>2 DEF StoreOf
<1>2. CASE q \in CONNS /\ in_txn[q]
  <2>1. Contents(r)' \subseteq Contents(r) BY <1>t, <1>2, CommitContents
  <2>2. /\ r = q => ~in_txn'[r] /\ file'[r] = work[r]
        /\ r # q => in_txn'[r] = in_txn[r] /\ work'[r] = work[r] /\ file'[r] = file[r]
    BY <1>t, <1>2, CommitIs
  <2>3. dropper'[r] \notin committed' =>
            \A x \in wrote'[r] \cap committed' : \A s \in Contents(r)' : x \in s
    BY <1>t, <1>0, <2>1 DEF StoreOf
  <2>4. \A i \in DOMAIN stack : \A x \in wrote[r] \cap stack[i].all :
           \/ r \in taken' \cap CONNS /\ in_txn'[r] /\ x \in work'[r]
           \/ r \notin taken' /\ ~in_txn'[r] /\ x \in file'[r]
    BY <1>t, <1>0, <1>2, <2>2 DEF StoreOf
  <2> QED BY <1>0, <2>3, <2>4 DEF StoreOf
<1> QED BY <1>1, <1>2

\* The commit record is written when every file has what the transaction wrote.
LEMMA StoreRecord ==
    ASSUME Stored, RecordCommit, NEW r \in Rels, r \notin ruined
    PROVE  StoreOf(r)'
<1>t. TypeInv /\ StoreOf(r) /\ OrderOf(r) BY DEF Stored, Known, StoreInv, CleanInv
<1>0. /\ pg = "precommit" /\ taken = {} /\ pg' = "committed" /\ committed' = committed \cup All
      /\ UNCHANGED <<dropper, wrote, in_txn, work, savepoints, file>>
  BY DEF RecordCommit, sqlite, history
<1>1. Contents(r)' = Contents(r) BY <1>0 DEF Contents
<1>2. ASSUME NEW x \in wrote[r], x \in All, NEW s \in Contents(r) PROVE x \in s
  <2>1. PICK i \in DOMAIN stack : x \in stack[i].all BY <1>t, <1>2, LevelTyped
  <2>2. ~in_txn[r] /\ x \in file[r] BY <1>t, <1>0, <2>1 DEF StoreOf
  <2>3. savepoints[r] = <<>> BY <1>t, <2>2 DEF OrderOf
  <2>4. DOMAIN savepoints[r] = {} BY <2>3
  <2> QED BY <2>2, <2>4, ContentsAre
<1> QED BY <1>t, <1>0, <1>1, <1>2 DEF StoreOf

\* The end of a transaction takes content from dropped relations only.
LEMMA StoreEnd ==
    ASSUME Stored, unlink_storage \/ on_abort \/ Exit, NEW r \in Rels, r \notin ruined
    PROVE  StoreOf(r)'
<1>t. TypeInv /\ StackInv /\ StoreOf(r) /\ DropInv BY DEF Stored, Known, StoreInv
<1>0. pg' = "idle" /\ UNCHANGED <<committed, dropper, wrote>>
  BY DEF unlink_storage, on_abort, Exit, EndXact
<1>f. file \in [Rels -> SUBSET Nat] BY <1>t DEF TypeInv
<1>e. ASSUME NEW R, EndSqlite(R, file) PROVE Contents(r)' \subseteq Contents(r)
  <2>1. file' = file BY <1>e DEF EndSqlite
  <2>2. CASE r \in R
    <3>1. ~in_txn'[r] /\ savepoints'[r] = <<>> BY <1>t, <1>f, <1>e, <2>2, EndSqliteIs
    <3>2. DOMAIN savepoints'[r] = {} BY <3>1
    <3> QED BY <2>1, <3>1, <3>2, ContentsAre, ContentsArePrime
  <2>3. CASE r \notin R
    <3>1. in_txn'[r] = in_txn[r] /\ work'[r] = work[r] /\ savepoints'[r] = savepoints[r]
      BY <1>t, <1>f, <1>e, <2>3, EndSqliteIs
    <3> QED BY <2>1, <3>1, ContentsAre, ContentsArePrime
  <2> QED BY <2>2, <2>3
<1>1. CASE unlink_storage
  <2> DEFINE f == [q \in Rels |-> IF q \in unlinks THEN {} ELSE file[q]]
  <2>1. f \in [Rels -> SUBSET Nat] BY <1>f
  <2>2. EndSqlite(unlinks, f) BY <1>1 DEF unlink_storage
  <2>3. CASE r \in unlinks
    <3>1. Len(stack) = 1 /\ pg = "committed" BY <1>1, <1>t DEF unlink_storage, StackInv
    <3>2. 1 \in DOMAIN stack BY <1>t, <3>1, LevelTyped
    <3>3. dropper[r] \in committed BY <1>t, <2>3, <3>1, <3>2 DEF DropInv, StackInv
    <3> QED BY <1>0, <3>3 DEF StoreOf
  <2>4. CASE r \notin unlinks
    <3>1. file' = f BY <2>2 DEF EndSqlite
    <3>2. file'[r] = file[r] BY <2>4, <3>1
    <3>3. in_txn'[r] = in_txn[r] /\ work'[r] = work[r] /\ savepoints'[r] = savepoints[r]
      <4> HIDE DEF f
      <4> QED BY <1>t, <2>1, <2>2, <2>4, EndSqliteIs
    <3>4. Contents(r)' = Contents(r) BY <3>2, <3>3 DEF Contents
    <3> QED BY <1>0, <3>4, StoreSame
  <2> QED BY <2>3, <2>4
<1>2. CASE on_abort /\ registered
  <2>1. EndSqlite(TX_RELS \cap CONNS, file) BY <1>2 DEF on_abort
  <2> QED BY <1>0, <1>e, <2>1, StoreSame
<1>3. CASE on_abort /\ ~registered
  <2>1. UNCHANGED <<in_txn, work, savepoints, file>> BY <1>3 DEF on_abort
  <2>2. Contents(r)' = Contents(r) BY <2>1 DEF Contents
  <2> QED BY <1>0, <2>2, StoreSame
<1>4. CASE Exit
  <2>1. EndSqlite(Rels, file) BY <1>4 DEF Exit
  <2> QED BY <1>0, <1>e, <2>1, StoreSame
<1> QED BY <1>1, <1>2, <1>3, <1>4

\* No step loses a committed write.
LEMMA StoreStep == Stored /\ Next => StoreInv'
<1> SUFFICES ASSUME Stored, Next, NEW r \in Rels, r \notin ruined' PROVE StoreOf(r)'
  BY DEF StoreInv
<1>n. r \notin ruined BY RuinedGrows
<1> USE DEF postgres, sqlite, history
<1>s. UNCHANGED <<in_txn, work, savepoints, file>> => Contents(r)' = Contents(r) BY DEF Contents
<1>1. CASE Begin BY <1>1, <1>s, <1>n, StoreSame DEF Begin
<1>2. CASE StatementFails BY <1>2, <1>s, <1>n, StoreSame DEF StatementFails
<1>3. ASSUME NEW q \in Rels, ensure_in_xact(q) \/ OpenFails(q) \/ Uncached(q) PROVE StoreOf(r)'
  BY <1>3, <1>s, <1>n, StoreSame DEF ensure_in_xact, OpenFails, Uncached
<1>4. ASSUME NEW q \in Rels, Write(q) PROVE StoreOf(r)' BY <1>4, <1>n, StoreWrite
<1>o. ASSUME NEW q \in Rels, WriteThrough(q) \/ WriteRollsBack(q) \/ CommitDies(q)
      PROVE  StoreOf(r)'
  <2>1. /\ work'[r] = work[r] /\ savepoints'[r] = savepoints[r] /\ in_txn'[r] = in_txn[r]
        /\ file'[r] = file[r] /\ wrote'[r] = wrote[r]
    BY <1>o, OthersKept DEF Stored, Known
  <2>2. Contents(r)' = Contents(r) BY <2>1 DEF Contents
  <2>3. UNCHANGED <<committed, dropper>> /\ pg' # "precommit"
    BY <1>o DEF WriteThrough, WriteRollsBack, CommitDies, Writable
  <2> QED BY <2>1, <2>2, <2>3, <1>n, StoreSame
<1>5. CASE on_sub_start
  <2>1. Contents(r)' \subseteq Contents(r) BY <1>5, <1>n, PushContents DEF Stored, Known
  <2> QED BY <1>5, <2>1, <1>n, StoreSame DEF on_sub_start
<1>6. CASE on_sub_commit \/ on_sub_abort
  <2>1. Contents(r)' \subseteq Contents(r) BY <1>6, <1>n, PopContents DEF Stored
  <2> QED BY <1>6, <2>1, <1>n, StoreSame DEF on_sub_commit, on_sub_abort
<1>7. ASSUME NEW q \in Rels, drop_relation(q) PROVE StoreOf(r)'
  <2>1. dropper[r] \in committed => dropper'[r] = dropper[r]
    <3>1. dropper' = [dropper EXCEPT ![q] = Top.id] /\ dropper[q] \notin committed
      BY <1>7 DEF drop_relation, InCatalog
    <3> QED BY <3>1 DEF Stored, Known, TypeInv
  <2> QED BY <1>7, <1>s, <2>1, <1>n, StoreSame DEF drop_relation
<1>8. CASE on_precommit BY <1>8, <1>n, StorePrecommit
<1>9. ASSUME NEW q \in Rels, CommitOne(q) PROVE StoreOf(r)' BY <1>9, <1>n, StoreCommit
<1>11. CASE RecordCommit BY <1>11, <1>n, StoreRecord
<1>12. CASE unlink_storage \/ on_abort \/ Exit BY <1>12, <1>n, StoreEnd
<1> QED BY <1>1, <1>2, <1>3, <1>4, <1>o, <1>5, <1>6, <1>7, <1>8, <1>9, <1>11, <1>12 DEF Next

-----------------------------------------------------------------------------
(* The theorems. *)

\* A step that changes nothing keeps everything.
LEMMA Stutter ==
    ASSUME UNCHANGED vars
    PROVE  /\ TypeInv => TypeInv'
           /\ StackInv => StackInv'
           /\ CallInv => CallInv'
           /\ DropInv => DropInv'
           /\ CleanInv => CleanInv'
           /\ StoreInv => StoreInv'
<1>1. /\ UNCHANGED <<pg, stack, nextId, committed, registered, unlinks, dropper>>
      /\ UNCHANGED <<TX_RELS, CONNS, taken, in_txn, work, savepoints, adrift, file, exists>>
      /\ UNCHANGED <<undone, wrote, bare, stranded, ruined>>
  BY DEF vars, postgres, sqlite, history
<1>2. /\ TypeInv => TypeInv'
      /\ StackInv => StackInv'
      /\ CallInv => CallInv'
      /\ DropInv => DropInv'
  BY <1>1 DEF TypeInv, StackInv, CallInv, DropInv, Live
<1>3. \A r \in Rels : Contents(r)' = Contents(r) /\ \A i : Real(r, i)' <=> Real(r, i)
  BY <1>1 DEF Contents, Real
<1>4. StoreInv => StoreInv' BY <1>1, <1>3 DEF StoreInv, StoreOf
<1>5. CleanInv => CleanInv'
  <2>1. ASSUME NEW r \in Rels, OrderOf(r) PROVE OrderOf(r)' BY <1>1, <2>1 DEF OrderOf, SubId
  <2>2. ASSUME NEW r \in Rels, LevelsOf(r) PROVE LevelsOf(r)'
    BY <1>1, <1>3, <2>2 DEF LevelsOf, Live
  <2>3. ASSUME NEW r \in Rels, TraceOf(r) PROVE TraceOf(r)'
    BY <1>1, <1>3, <2>3 DEF TraceOf, Live
  <2> QED BY <1>1, <2>1, <2>2, <2>3 DEF CleanInv
<1> QED BY <1>2, <1>4, <1>5

\* No SQLite transaction outlives its Postgres transaction, unless its COMMIT
\* failed: with open_conn safe on a transaction's first relation, TX_RELS and
\* the callbacks reach every connection that is in a transaction, whether or not
\* SQLite has rolled it back by itself.
THEOREM NoTransactionLeft == ~FirstOpenFails => (Spec => []NoneLeftOpen)
<1> SUFFICES ASSUME ~FirstOpenFails PROVE Spec => []NoneLeftOpen OBVIOUS
<1> DEFINE I == TypeInv /\ StackInv /\ CallInv
<1>1. Init => I BY TypeInit
<1>2. I /\ [Next]_vars => I' BY TypeStep, StackStep, CallStep, Stutter
<1>3. I => NoneLeftOpen BY DEF CallInv, NoneLeftOpen, Live
<1> QED BY <1>1, <1>2, <1>3, PTL DEF Spec

\* A file is removed only after the DROP of its relation committed, if DROP
\* TABLE runs at the top level: drop_relation's Commit callback is then the
\* dropping transaction's own, and Postgres forgets it when that aborts.
THEOREM UnlinksFollowDrops == ~SubxactDrop => (Spec => []UnlinksOnlyDropped)
<1> SUFFICES ASSUME ~SubxactDrop PROVE Spec => []UnlinksOnlyDropped OBVIOUS
<1> DEFINE I == TypeInv /\ StackInv /\ DropInv
<1>1. Init => I BY TypeInit
<1>2. I /\ [Next]_vars => I' BY TypeStep, StackStep, DropStep, Stutter
<1>3. I => UnlinksOnlyDropped BY DEF DropInv, UnlinksOnlyDropped
<1> QED BY <1>1, <1>2, <1>3, PTL DEF Spec

\* Rolled back (sub)transactions leave nothing in a file, in an open SQLite
\* transaction or, by the invariant, in what a savepoint would bring back, at
\* any depth of subtransactions, with COMMITs that fail, and with SQLite rolling
\* back the transactions of other relations by itself.
THEOREM RollbacksLeaveNoTrace == ~FirstOpenFails => (Spec => []UndoneLeavesNoTrace)
<1> SUFFICES ASSUME ~FirstOpenFails PROVE Spec => []UndoneLeavesNoTrace OBVIOUS
<1>1. Init => Known BY TypeInit DEF Known
<1>2. Known /\ [Next]_vars => Known'
  BY TypeStep, StackStep, CallStep, CleanStep, Stutter DEF Known
<1>3. Known => UndoneLeavesNoTrace
  <2> SUFFICES ASSUME Known, NEW r \in Rels \ ruined, NEW x \in Current(r) \cup file[r],
                      x \in undone
               PROVE  x \in bare[r]
    BY DEF UndoneLeavesNoTrace
  <2>1. \E s \in Contents(r) : x \in s BY CurrentIsContent, ContentsAre
  <2> QED BY <2>1 DEF Known, CleanInv, TraceOf
<1> QED BY <1>1, <1>2, <1>3, PTL DEF Spec

\* Once the commit record is written, what the transaction and its committed
\* subtransactions wrote is in every file, and stays there: no later ROLLBACK
\* TO, COMMIT, abort or unlink takes it away while the relation exists, unless
\* SQLite has rolled back a transaction of that relation by itself.
THEOREM CommitsAreStored ==
    ~FirstOpenFails /\ ~SubxactDrop => (Spec => []CommittedAreStored)
<1> SUFFICES ASSUME ~FirstOpenFails, ~SubxactDrop PROVE Spec => []CommittedAreStored OBVIOUS
<1>1. Init => Stored BY TypeInit DEF Known, Stored
<1>2. Stored /\ [Next]_vars => Stored'
  BY TypeStep, StackStep, CallStep, CleanStep, DropStep, StoreStep, Stutter DEF Known, Stored
<1>3. Stored => CommittedAreStored
  <2> SUFFICES ASSUME Stored, NEW r \in Rels \ ruined, InCatalog(r),
                      NEW x \in wrote[r] \cap committed
               PROVE  x \in file[r]
    BY DEF CommittedAreStored
  <2>1. file[r] \in Contents(r) /\ dropper[r] \notin committed BY ContentsAre DEF InCatalog
  <2> QED BY <2>1 DEF Stored, StoreInv, StoreOf
<1> QED BY <1>1, <1>2, <1>3, PTL DEF Spec
=============================================================================
