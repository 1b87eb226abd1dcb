-------------------------- MODULE TransactionalTable --------------------------
(***************************************************************************)
(* What the storage manager promises Postgres, with no xids, no files and  *)
(* no SQLite: a table is a set of row versions that changes only when a    *)
(* transaction commits, and then by exactly what that transaction's own    *)
(* statements were told they had done.  Once Postgres has decided to       *)
(* commit a transaction nothing can lose it, and nothing else can change   *)
(* the table: a failure undoes what was not decided.                       *)
(***************************************************************************)
CONSTANTS Backends,   \* the Postgres backends
          Id          \* identities of row versions

VARIABLES table,      \* the committed row versions
          work,       \* work[b]: what b's open transaction has done so far
          decided     \* decided[b]: Postgres has recorded that it commits

Work   == [ins: SUBSET Id, del: SUBSET Id, clear: BOOLEAN]
NoWork == [ins |-> {}, del |-> {}, clear |-> FALSE]

Init == /\ table = {}
        /\ work = [b \in Backends |-> NoWork]
        /\ decided = [b \in Backends |-> FALSE]

\* The table after the transactions of the backends in C.
Apply(C) ==
    (IF \E b \in C : work[b].clear
     THEN {} ELSE table \ UNION {work[b].del : b \in C})
    \cup UNION {work[b].ins : b \in C}

\* A statement of b's transaction succeeds.
Do(b) == /\ ~decided[b]
         /\ work'[b] \in Work
         /\ work' = [work EXCEPT ![b] = work'[b]]
         /\ UNCHANGED <<table, decided>>

\* The commit record of b's transaction is durable ...
Decide(b) == /\ ~decided[b]
             /\ decided' = [decided EXCEPT ![b] = TRUE]
             /\ UNCHANGED <<table, work>>

\* ... and from here on others see its work.
Commit(b) == /\ decided[b]
             /\ table' = Apply({b})
             /\ work' = [work EXCEPT ![b] = NoWork]
             /\ decided' = [decided EXCEPT ![b] = FALSE]

Fail(b) == /\ ~decided[b]
           /\ work' = [work EXCEPT ![b] = NoWork]
           /\ UNCHANGED <<table, decided>>

\* A crash ends every transaction: the decided ones have committed.
Crash == /\ table' = Apply({b \in Backends : decided[b]})
         /\ work' = [b \in Backends |-> NoWork]
         /\ decided' = [b \in Backends |-> FALSE]

Next == Crash \/ \E b \in Backends : Do(b) \/ Decide(b) \/ Commit(b) \/ Fail(b)

Spec == Init /\ [][Next]_<<table, work, decided>>
=============================================================================
