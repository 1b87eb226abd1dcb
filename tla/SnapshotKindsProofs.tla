------------------------- MODULE SnapshotKindsProofs -------------------------
(***************************************************************************)
(* Proofs about SnapshotKinds, for any set of backends and any number of   *)
(* xids and rows.                                                          *)
(***************************************************************************)
EXTENDS SnapshotKinds, WellFoundedInduction, TLAPS

USE KindsAssumption DEF Xid

\* Xids are issued once, and each belongs to one transaction: running (top,
\* subs), rolled back (undone) or over.
IssuedInv ==
    /\ \A p \in Procs : /\ top[p] < nextXid
                        /\ \A x \in subs[p] \cup undone[p] : x < nextXid
    /\ \A x \in clog : x < nextXid
    /\ latest < nextXid
    /\ \A r \in rows : r.xmin < nextXid /\ r.xmax < nextXid

\* No xid is that of two transactions, nor running and rolled back.
OwnerInv ==
    /\ \A p, q \in Procs : \A x \in Xids(p) :
           /\ x \in Xids(q) => p = q
           /\ x \notin undone[q]
    /\ \A p \in Procs : top[p] \notin subs[p]

\* The commit log has a running transaction's xids from its commit record on,
\* never an xid that was rolled back, and nothing above latestCompletedXid that
\* has ended.
ClogInv ==
    /\ \A p \in Procs : /\ phase[p] = "idle" => top[p] = 0 /\ subs[p] = {}
                        /\ \A x \in Xids(p) : x \in clog <=> phase[p] = "recorded"
                        /\ \A x \in undone[p] : x \notin clog
    /\ \A x \in clog : x \notin InProgress => x <= latest

\* Me's snapshot accounts for every xid below its end that has committed or
\* may still commit: it had ended in commit, or it is listed.  No xid is listed
\* both as a transaction and as a subtransaction.
SnapInv ==
    snap # NoSnap =>
        /\ snap.xmin <= snap.xmax /\ snap.xmax <= nextXid
        /\ \A x \in snap.xip : snap.xmin <= x
        /\ \A x \in snap.subxip : x < snap.xmax /\ x \notin snap.xip
        /\ \A x \in seen : x \in clog /\ x < snap.xmax /\ x \notin snap.xip \cup Current
        /\ \A x \in (clog \cup InProgress) \ Current :
               x < snap.xmax => x \in seen \cup snap.xip \cup snap.subxip

\* What a dirty check knows of x: once "running" was denied, x stays as it is,
\* and the later "committed" was the truth.
Knows(x, ran, fate) ==
    /\ step > ran => x \in run \/ x \notin InProgress
    /\ step > fate => x \in run \/ x \notin clog \/ x \in done

\* A running check is of an issued row, knows what it was told, and keeps its
\* transaction open.
CheckInv ==
    /\ check = NoRow => step = 1
    /\ step = 1 => run = {} /\ done = {}
    /\ check # NoRow => /\ check \in Row /\ phase[Me] # "idle"
                        /\ check.xmin < nextXid /\ check.xmax < nextXid
                        /\ Knows(check.xmin, 1, 2) /\ Knows(check.xmax, 3, 4)
    /\ done \subseteq clog

\* The inductive invariant.
KindsInv == TypeOK /\ IssuedInv /\ OwnerInv /\ ClogInv /\ SnapInv /\ CheckInv

-----------------------------------------------------------------------------
(* Snapshots. *)

\* A set of xids has a least one (GetSnapshotData's xmin).
LEMMA LeastExists ==
    ASSUME NEW S \in SUBSET Nat, S # {}
    PROVE  \E m \in S : IsLeast(m, S)
<1>1. PICK m \in S : \A n \in S : ~(<<n, m>> \in OpToRel(<, Nat))
  BY NatLessThanWellFounded, WFMin
<1>2. \A n \in S : ~(n < m)
  BY <1>1 DEF OpToRel
<1> QED BY <1>2 DEF IsLeast

\* TransactionIdIsInProgress answers true for the xids of the proc array.
LEMMA InProgressIs ==
    /\ \A x : x \in InProgress <=> \E p \in Procs : x \in Xids(p)
    /\ \A x \in Current : x \in InProgress
BY DEF InProgress, Current

\* The same, after a step.
LEMMA InProgressIsPrime ==
    /\ \A x : x \in InProgress' <=> \E p \in Procs : x \in Xids(p)'
    /\ \A x \in Current' : x \in InProgress'
BY DEF InProgress, Current

\* A snapshot taken now: its window ends after the last transaction that is
\* over, begins at or before every running one, and lists those between.
LEMMA FreshIs ==
    ASSUME TypeOK, OwnerInv
    PROVE  /\ Fresh \in Snap
           /\ Fresh.xmax = latest + 1
           /\ Fresh.xmin <= Fresh.xmax
           /\ \A x \in Fresh.xip : Fresh.xmin <= x /\ x \in InProgress \ Current
           /\ \A x \in Fresh.subxip : x <= latest /\ x \notin Fresh.xip
           /\ \A x \in InProgress \ Current :
                  x <= latest => x \in Fresh.xip \cup Fresh.subxip
<1> DEFINE tops == {top[p] : p \in Procs} \ {0}
           ends == tops \cup {latest + 1}
           least == CHOOSE m \in ends : IsLeast(m, ends)
<1>t. tops \subseteq Xid /\ latest \in 0..MaxXid BY DEF TypeOK
<1>1. ends \in SUBSET Nat /\ ends # {} BY <1>t
<1>2. \E m \in ends : IsLeast(m, ends) BY <1>1, LeastExists
<1>3. least \in ends /\ IsLeast(least, ends) BY <1>2
<1>4. /\ Fresh.xmin = least /\ Fresh.xmax = latest + 1
      /\ Fresh.xip = {x \in tops \ {top[Me]} : x <= latest}
      /\ Fresh.subxip = {x \in UNION {subs[p] : p \in Procs \ {Me}} : x <= latest}
  BY DEF Fresh
<1> HIDE DEF least
<1>5. least \in Xid \cup {MaxXid + 1} BY <1>t, <1>3
<1>6. Fresh.xip \in SUBSET Xid BY <1>t, <1>4
<1>7. Fresh.subxip \in SUBSET Xid BY <1>4 DEF TypeOK
<1>8. Fresh \in Snap
  <2>1. Fresh = [xmin |-> Fresh.xmin, xmax |-> Fresh.xmax, xip |-> Fresh.xip, subxip |-> Fresh.subxip]
    BY DEF Fresh
  <2>2. Fresh.xmax \in Xid \cup {MaxXid + 1} BY <1>t, <1>4
  <2>3. Fresh.xmin \in Xid \cup {MaxXid + 1} BY <1>4, <1>5
  <2> HIDE DEF tops
  <2> QED BY <1>6, <1>7, <2>1, <2>2, <2>3 DEF Snap
<1>9. \A x \in ends : least <= x BY <1>3 DEF IsLeast
<1>10. ASSUME NEW x \in Fresh.xip PROVE Fresh.xmin <= x /\ x \in InProgress \ Current
  <2>1. x \in tops /\ x # top[Me] BY <1>4, <1>10
  <2>2. PICK p \in Procs : x = top[p] /\ x # 0 BY <2>1
  <2>3. x \in Xids(p) /\ p # Me BY <2>1, <2>2 DEF Xids
  <2>4. x \notin Current BY <2>3 DEF OwnerInv, Current
  <2> QED BY <1>4, <1>9, <2>1, <2>3, <2>4, InProgressIs
<1>11. ASSUME NEW x \in InProgress \ Current, x <= latest
       PROVE  x \in Fresh.xip \cup Fresh.subxip
  <2>1. PICK p \in Procs : x \in Xids(p) BY InProgressIs
  <2>2. p # Me /\ (x \in subs[p] \/ (x = top[p] /\ x # 0)) BY <2>1 DEF Current, Xids
  <2>3. x # top[Me] \/ x = 0 BY DEF Current, Xids
  <2> QED BY <1>4, <1>11, <2>2, <2>3
<1>12. ASSUME NEW x \in Fresh.subxip PROVE x <= latest /\ x \notin Fresh.xip
  <2>1. x <= latest /\ \E p \in Procs : x \in subs[p] BY <1>4, <1>12
  <2>2. PICK p \in Procs : x \in subs[p] BY <2>1
  <2>3. ASSUME x \in Fresh.xip PROVE FALSE
    <3>1. PICK q \in Procs : x = top[q] /\ x # 0 BY <1>4, <2>3
    <3>2. x \in Xids(p) /\ x \in Xids(q) BY <2>2, <3>1 DEF Xids
    <3>3. p = q BY <3>2 DEF OwnerInv
    <3> QED BY <2>2, <3>1, <3>3 DEF OwnerInv
  <2> QED BY <2>1, <2>3
<1> QED BY <1>t, <1>3, <1>4, <1>8, <1>9, <1>10, <1>11, <1>12

-----------------------------------------------------------------------------
(* The invariant implies the properties. *)

\* xid_view of an xid that is not Me's own.
LEMMA ViewIs ==
    ASSUME NEW x \in Nat \ {0}, x \notin Current, NEW s
    PROVE  xid_view(x, Current, clog, s) = "CommittedAndVisible"
             <=> x \in clog /\ (x < s.xmin \/ (x < s.xmax /\ x \notin s.xip))
BY DEF xid_view, did_commit

\* SnapInv leaves no xid out.
LEMMA ExactFollows == KindsInv => SnapshotExact
<1> SUFFICES ASSUME KindsInv, snap # NoSnap, NEW x \in (1..(nextXid - 1)) \ Current
             PROVE  xid_view(x, Current, clog, snap) = "CommittedAndVisible"
                        <=> x \in seen \cup (snap.subxip \cap clog)
  BY DEF SnapshotExact
<1>1. x \in Nat \ {0} /\ x \notin Current BY DEF KindsInv, TypeOK
<1>2. snap \in Snap BY DEF KindsInv, TypeOK
<1>3. snap.xmin \in Nat /\ snap.xmax \in Nat BY <1>2 DEF Snap
<1>4. SnapInv BY DEF KindsInv
<1>5. CASE x \in seen BY <1>1, <1>3, <1>4, <1>5, ViewIs DEF SnapInv
<1>6. CASE x \notin seen /\ x \notin snap.subxip
  <2> SUFFICES ASSUME x \in clog, x < snap.xmin \/ (x < snap.xmax /\ x \notin snap.xip)
               PROVE  FALSE
    BY <1>1, <1>6, ViewIs
  <2>1. x < snap.xmax BY <1>1, <1>3, <1>4 DEF SnapInv
  <2>2. x \in snap.xip BY <1>1, <1>4, <1>6, <2>1 DEF SnapInv
  <2>3. snap.xmin <= x BY <1>4, <2>2 DEF SnapInv
  <2> QED BY <1>1, <1>3, <2>2, <2>3
<1>7. CASE x \notin seen /\ x \in snap.subxip
  <2>1. x < snap.xmax /\ x \notin snap.xip BY <1>4, <1>7 DEF SnapInv
  <2> QED BY <1>1, <1>7, <2>1, ViewIs
<1> QED BY <1>5, <1>6, <1>7

\* What the check knows decides its verdict.
LEMMA DirtyFollows == KindsInv => DirtySound
<1> SUFFICES ASSUME KindsInv, step = 5
             PROVE  LET v == visible_dirty(check, Current, run, done)
                    IN  /\ ~v.visible => Dead(check)
                        /\ v.visible /\ v.xmin = 0 /\ v.xmax = 0 => Alive(check)
  BY DEF DirtySound
<1> DEFINE x == check.xmin
           y == check.xmax
           v == visible_dirty(check, Current, run, done)
<1>1. check # NoRow /\ check \in Row BY DEF KindsInv, CheckInv
<1>2. x # 0 BY <1>1 DEF Row
<1>3. /\ x \in run \/ x \notin InProgress
      /\ x \in run \/ x \notin clog \/ x \in done
      /\ y \in run \/ y \notin InProgress
      /\ y \in run \/ y \notin clog \/ y \in done
      /\ done \subseteq clog
  BY <1>1 DEF KindsInv, CheckInv, Knows
<1>4. v.visible <=> /\ x \in Current \/ x \in run \/ x \in done
                    /\ \/ y = 0
                       \/ /\ y \notin Current
                          /\ y \in run \/ y \notin done
  BY <1>2 DEF visible_dirty, did_commit
<1>5. v.xmin = 0 <=> x \in Current \/ x \notin run
  BY <1>2 DEF visible_dirty
<1>6. v.xmax = 0 <=> ~(x \in Current \/ x \in run \/ x \in done) \/ y = 0 \/ y \in Current \/ y \notin run
  BY <1>2 DEF visible_dirty, did_commit
<1> HIDE DEF v, x, y
<1>7. ~v.visible => Dead(check) BY <1>3, <1>4 DEF Dead, Stands, x, y
<1>8. v.visible /\ v.xmin = 0 /\ v.xmax = 0 => Alive(check)
  BY <1>3, <1>4, <1>5, <1>6 DEF Alive, Stands, x, y
<1> QED BY <1>7, <1>8 DEF v

\* For a settled row, running means Me's own, and a commit is not above the
\* fresh snapshot's window.
LEMMA AgreeFollows == KindsInv => KindsAgree
<1> SUFFICES ASSUME KindsInv, NEW r \in rows, Settled(r)
             PROVE  /\ visible_self(r, Current, clog) <=> Alive(r)
                    /\ visible_mvcc(r, Current, clog, Fresh, 1) <=> Alive(r)
                    /\ visible_dirty(r, Current, InProgress, clog).visible <=> Alive(r)
                    /\ Stands(r.xmin) /\ r.xmax \notin Current =>
                           (visible_non_vacuumable(r, clog) <=> Alive(r))
  BY DEF KindsAgree
<1>1. /\ r.xmin \in Nat /\ r.xmin # 0 /\ r.xmax \in Nat /\ r.cmin = 0 /\ r.cmax = 0
      /\ latest \in Nat
  BY DEF KindsInv, TypeOK, Row
<1>2. 0 \notin clog BY DEF KindsInv, TypeOK
<1>3. \A x \in {r.xmin, r.xmax} : x \in InProgress <=> x \in Current
  BY InProgressIs DEF Settled
<1>4. visible_self(r, Current, clog) <=> Alive(r)
  BY <1>1, <1>2 DEF visible_self, did_commit, Alive, Stands
<1>5. visible_mvcc(r, Current, clog, Fresh, 1) <=> Alive(r)
  <2>1. ASSUME NEW x \in {r.xmin, r.xmax}, x # 0
        PROVE  /\ xid_view(x, Current, clog, Fresh) = "OurOwnXact" <=> x \in Current
               /\ xid_view(x, Current, clog, Fresh) = "CommittedAndVisible"
                     <=> x \notin Current /\ x \in clog
               /\ xid_view(x, Current, clog, Fresh) = "NotVisible" <=> ~Stands(x)
    <3>1. CASE x \in Current BY <3>1 DEF xid_view, Stands
    <3>2. CASE x \notin Current /\ x \notin clog BY <3>2 DEF xid_view, Stands, did_commit
    <3>3. CASE x \notin Current /\ x \in clog
      <4>1. x <= latest BY <1>3, <2>1, <3>3 DEF KindsInv, ClogInv
      <4>2. x < Fresh.xmax /\ x \notin Fresh.xip
        BY <1>1, <1>3, <2>1, <3>3, <4>1, FreshIs DEF KindsInv
      <4> QED BY <2>1, <3>3, <4>2 DEF xid_view, Stands, did_commit
    <3> QED BY <3>1, <3>2, <3>3
  <2> QED BY <1>1, <2>1 DEF visible_mvcc, Alive, Stands
<1>6. visible_dirty(r, Current, InProgress, clog).visible <=> Alive(r)
  BY <1>1, <1>2, <1>3 DEF visible_dirty, did_commit, Alive, Stands
<1>7. Stands(r.xmin) /\ r.xmax \notin Current => (visible_non_vacuumable(r, clog) <=> Alive(r))
  BY <1>1, <1>2 DEF visible_non_vacuumable, did_commit, Alive, Stands
<1> QED BY <1>4, <1>5, <1>6, <1>7

-----------------------------------------------------------------------------
(* Every step preserves it. *)

\* Nothing has happened yet.
LEMMA KindsInit == Init => KindsInv
<1> SUFFICES ASSUME Init PROVE KindsInv OBVIOUS
<1>1. TypeOK
  <2>1. snap = NoSnap /\ check = NoRow BY DEF Init
  <2> QED BY <2>1 DEF Init, TypeOK
<1>2. \A p \in Procs : Xids(p) = {} BY DEF Init, Xids
<1>3. IssuedInv /\ OwnerInv BY <1>2 DEF Init, IssuedInv, OwnerInv
<1>4. ClogInv /\ SnapInv /\ CheckInv BY <1>2 DEF Init, ClogInv, SnapInv, CheckInv
<1> QED BY <1>1, <1>3, <1>4 DEF KindsInv

\* Steps that hand out no xid and end no transaction.
Quiet ==
    /\ UNCHANGED <<nextXid, clog, latest, top, subs, undone>>
    /\ \A p \in Procs : /\ phase'[p] = "idle" <=> phase[p] = "idle"
                        /\ phase'[p] = "recorded" <=> phase[p] = "recorded"

\* They leave the proc array alone.
LEMMA QuietXids ==
    ASSUME Quiet
    PROVE  /\ \A p \in Procs : Xids(p)' = Xids(p)
           /\ Current' = Current
           /\ InProgress' = InProgress
<1>1. \A p \in Procs : Xids(p)' = Xids(p) BY DEF Quiet, Xids
<1>2. Current' = Current BY DEF Quiet, Xids, Current
<1>3. InProgress' = InProgress BY DEF Quiet, Xids, InProgress
<1> QED BY <1>1, <1>2, <1>3

\* A new xid, of the transaction or of a subtransaction.
NewXid(p) ==
    /\ nextXid \in Xid /\ nextXid' = nextXid + 1
    /\ Xids(p)' = Xids(p) \cup {nextXid}
    /\ \A q \in Procs : q # p => Xids(q)' = Xids(q)
    /\ UNCHANGED <<clog, latest, undone, rows, snap, checkVars, seen>>

\* AssignXid and AssignSubXid hand out nextXid.
LEMMA NewXidSteps ==
    ASSUME KindsInv, NEW p \in Procs, AssignXid(p) \/ AssignSubXid(p)
    PROVE  NewXid(p)
<1>t. TypeOK BY DEF KindsInv
<1>1. nextXid \in Xid /\ nextXid' = nextXid + 1
  BY <1>t DEF TypeOK, AssignXid, AssignSubXid
<1>2. CASE AssignXid(p)
  <2>1. top[p] = 0 BY <1>2 DEF AssignXid, KindsInv, ClogInv
  <2>2. /\ top'[p] = nextXid /\ subs' = subs
        /\ \A q \in Procs : q # p => top'[q] = top[q]
    BY <1>t, <1>2 DEF AssignXid, TypeOK
  <2>3. Xids(p)' = Xids(p) \cup {nextXid} BY <1>1, <2>1, <2>2 DEF Xids
  <2>4. \A q \in Procs : q # p => Xids(q)' = Xids(q) BY <2>2 DEF Xids
  <2> QED BY <1>1, <1>2, <2>3, <2>4 DEF AssignXid, NewXid
<1>3. CASE AssignSubXid(p)
  <2>2. /\ subs'[p] = subs[p] \cup {nextXid} /\ top' = top
        /\ \A q \in Procs : q # p => subs'[q] = subs[q]
    BY <1>t, <1>3 DEF AssignSubXid, TypeOK
  <2>3. Xids(p)' = Xids(p) \cup {nextXid} BY <2>2 DEF Xids
  <2>4. \A q \in Procs : q # p => Xids(q)' = Xids(q) BY <2>2 DEF Xids
  <2> QED BY <1>1, <1>3, <2>3, <2>4 DEF AssignSubXid, NewXid
<1> QED BY <1>2, <1>3

\* p gives up xids, which stay uncommitted or are in the commit log already.
Ends(p) ==
    /\ \A q \in Procs : q # p => Xids(q)' = Xids(q)
    /\ Xids(p)' \subseteq Xids(p)
    /\ \A x \in Xids(p) \ Xids(p)' : x <= latest'
    /\ latest <= latest' /\ latest' < nextXid
    /\ UNCHANGED <<nextXid, clog>>

\* The rollback of a subtransaction and the end of a transaction.
LEMMA EndsSteps ==
    ASSUME KindsInv, NEW p \in Procs
    PROVE  /\ \A x \in Xid : AbortSub(p, x) => Ends(p) /\ Xids(p)' = Xids(p) \ {x}
           /\ EndXact(p) => Ends(p) /\ Xids(p)' = {}
<1>t. TypeOK BY DEF KindsInv
<1>1. ASSUME NEW x \in Xid, AbortSub(p, x) PROVE Ends(p) /\ Xids(p)' = Xids(p) \ {x}
  <2>1. /\ x \in subs[p] /\ subs'[p] = subs[p] \ {x} /\ top' = top
        /\ \A q \in Procs : q # p => subs'[q] = subs[q]
    BY <1>t, <1>1 DEF AbortSub, TypeOK
  <2>2. x # top[p] BY <2>1 DEF KindsInv, OwnerInv
  <2>3. Xids(p)' = Xids(p) \ {x} BY <2>1, <2>2 DEF Xids
  <2>4. \A q \in Procs : q # p => Xids(q)' = Xids(q) BY <2>1 DEF Xids
  <2>5. x <= latest' /\ latest <= latest' /\ latest' < nextXid
    BY <1>t, <1>1, <2>1 DEF AbortSub, TypeOK, KindsInv, IssuedInv
  <2>6. UNCHANGED <<nextXid, clog>> BY <1>1 DEF AbortSub
  <2> QED BY <2>3, <2>4, <2>5, <2>6 DEF Ends
<1>2. ASSUME EndXact(p) PROVE Ends(p) /\ Xids(p)' = {}
  <2>1. /\ subs'[p] = {} /\ top'[p] = 0
        /\ \A q \in Procs : q # p => subs'[q] = subs[q] /\ top'[q] = top[q]
    BY <1>t, <1>2 DEF EndXact, TypeOK
  <2>2. Xids(p)' = {} BY <2>1 DEF Xids
  <2>3. \A q \in Procs : q # p => Xids(q)' = Xids(q) BY <2>1 DEF Xids
  <2>4. IsLargest(latest', {latest} \cup Xids(p)) BY <1>2 DEF EndXact
  <2>5. \A x \in {latest} \cup Xids(p) : x < nextXid
    BY DEF KindsInv, IssuedInv, Xids
  <2>6. (\A x \in Xids(p) : x <= latest') /\ latest <= latest' /\ latest' < nextXid
    BY <2>4, <2>5 DEF IsLargest
  <2>7. UNCHANGED <<nextXid, clog>> BY <1>2 DEF EndXact
  <2> QED BY <2>2, <2>3, <2>6, <2>7 DEF Ends
<1> QED BY <1>1, <1>2

\* Xids a transaction runs under or has rolled back are xids.
LEMMA XidsTyped ==
    ASSUME TypeOK, NEW p \in Procs
    PROVE  Xids(p) \subseteq Xid /\ undone[p] \subseteq Xid
BY DEF TypeOK, Xids

\* Rows after a write: insertions and deletions under an issued xid.
LEMMA WriteRows ==
    ASSUME TypeOK, IssuedInv, NEW x \in Xid, x < nextXid,
           \/ rows' = rows \cup {Inserted(x)}
           \/ \E r \in rows : rows' = Deleted(r, x)
    PROVE  /\ rows' \in SUBSET Row
           /\ \A r \in rows' : r.xmin < nextXid /\ r.xmax < nextXid
<1>t. rows \in SUBSET Row /\ nextXid \in Nat BY DEF TypeOK
<1>1. CASE rows' = rows \cup {Inserted(x)}
  <2>1. Inserted(x) \in Row /\ Inserted(x).xmin = x /\ Inserted(x).xmax = 0
    BY DEF Inserted, Row
  <2> QED BY <1>t, <1>1, <2>1 DEF IssuedInv
<1>2. ASSUME NEW r \in rows, rows' = Deleted(r, x)
      PROVE  /\ rows' \in SUBSET Row
             /\ \A q \in rows' : q.xmin < nextXid /\ q.xmax < nextXid
  <2>1. r \in Row BY <1>t
  <2>2. [r EXCEPT !.xmax = x] \in Row BY <2>1 DEF Row
  <2>3. [r EXCEPT !.xmax = x].xmin = r.xmin /\ [r EXCEPT !.xmax = x].xmax = x
    BY <2>1 DEF Row
  <2> QED BY <1>t, <1>2, <2>2, <2>3 DEF Deleted, IssuedInv
<1> QED BY <1>1, <1>2

\* The rows of the file keep issued xids.
LEMMA RowsStep ==
    ASSUME KindsInv, Next
    PROVE  /\ rows' \in SUBSET Row
           /\ \A r \in rows' : r.xmin < nextXid /\ r.xmax < nextXid
<1>t. TypeOK /\ IssuedInv BY DEF KindsInv
<1>x. \A p \in Procs : \A x \in Xids(p) \cup undone[p] : x \in Xid /\ x < nextXid
  BY <1>t, XidsTyped DEF IssuedInv, Xids
<1>1. CASE rows' = rows BY <1>t, <1>1 DEF TypeOK, IssuedInv
<1>2. CASE Write
  <2>1. PICK x \in Current : \/ rows' = rows \cup {Inserted(x)}
                             \/ \E r \in rows : rows' = Deleted(r, x)
    BY <1>2 DEF Write
  <2>2. x \in Xid /\ x < nextXid BY <1>x, <2>1 DEF Current
  <2> QED BY <1>t, <2>1, <2>2, WriteRows
<1>3. ASSUME NEW p \in Procs, PreCommit(p), rows' # rows
      PROVE  /\ rows' \in SUBSET Row
             /\ \A r \in rows' : r.xmin < nextXid /\ r.xmax < nextXid
  <2>1. PICK x \in Xids(p) \cup undone[p] : \/ rows' = rows \cup {Inserted(x)}
                                            \/ \E r \in rows : rows' = Deleted(r, x)
    BY <1>3 DEF PreCommit
  <2>2. x \in Xid /\ x < nextXid BY <1>x, <2>1
  <2> QED BY <1>t, <2>1, <2>2, WriteRows
<1>4. ASSUME NEW p \in Procs, EndXact(p), rows' # rows
      PROVE  /\ rows' \in SUBSET Row
             /\ \A r \in rows' : r.xmin < nextXid /\ r.xmax < nextXid
  <2> DEFINE mine == Xids(Me) \cup undone[Me]
  <2>1. rows' = {[r EXCEPT !.xmax = IF @ \in mine THEN 0 ELSE @] :
                    r \in {q \in rows : q.xmin \notin mine}}
    BY <1>4 DEF EndXact
  <2> SUFFICES ASSUME NEW r \in rows'
               PROVE  r \in Row /\ r.xmin < nextXid /\ r.xmax < nextXid
    OBVIOUS
  <2>2. PICK q \in rows : r = [q EXCEPT !.xmax = IF q.xmax \in mine THEN 0 ELSE q.xmax]
    BY <2>1
  <2>3. q \in Row /\ q.xmin < nextXid /\ q.xmax < nextXid /\ nextXid \in Nat \ {0}
    BY <1>t DEF TypeOK, IssuedInv
  <2>4. /\ r.xmin = q.xmin /\ r.xmax \in {0, q.xmax} /\ r \in Row
    BY <2>2, <2>3 DEF Row
  <2> QED BY <2>3, <2>4
<1>5. \/ rows' = rows \/ Write
      \/ \E p \in Procs : PreCommit(p) \/ EndXact(p)
  BY DEF Next, TakeSnapshot, ReleaseSnapshot, Ask, EndCheck, StartCheck, AssignXid,
         AssignSubXid, RecordCommit, AbortSub
<1> QED BY <1>1, <1>2, <1>3, <1>4, <1>5

\* No step leaves the types.
LEMMA TypeStep == KindsInv /\ Next => TypeOK'
<1> SUFFICES ASSUME KindsInv, Next PROVE TypeOK' OBVIOUS
<1>t. TypeOK BY DEF KindsInv
<1>r. rows' \in SUBSET Row BY RowsStep
<1>0. CASE TakeSnapshot
  <2>1. Fresh \in Snap BY FreshIs DEF KindsInv
  <2> QED BY <1>0, <1>t, <2>1 DEF TakeSnapshot, TypeOK, checkVars
<1>1. CASE ReleaseSnapshot BY <1>1, <1>t DEF ReleaseSnapshot, TypeOK, checkVars
<1>2. CASE Write BY <1>2, <1>t, <1>r DEF Write, TypeOK, checkVars
<1>3. CASE Ask
  <2>1. /\ run' \subseteq run \cup InProgress /\ done' \subseteq done \cup clog
        /\ step' \in 1..5
    BY <1>3, <1>t DEF Ask, TypeOK
  <2>2. InProgress \subseteq Xid BY <1>t, InProgressIs, XidsTyped
  <2> QED BY <1>3, <1>t, <2>1, <2>2 DEF Ask, TypeOK
<1>4. CASE EndCheck BY <1>4, <1>t DEF EndCheck, TypeOK
<1>5. ASSUME NEW r \in rows, StartCheck(r) PROVE TypeOK' BY <1>5, <1>t DEF StartCheck, TypeOK
<1>6. ASSUME NEW p \in Procs, AssignXid(p) PROVE TypeOK'
  BY <1>6, <1>t DEF AssignXid, TypeOK, checkVars
<1>7. ASSUME NEW p \in Procs, AssignSubXid(p) PROVE TypeOK'
  <2>1. nextXid \in Xid BY <1>7, <1>t DEF AssignSubXid, TypeOK
  <2>2. subs' \in [Procs -> SUBSET Xid] BY <1>7, <1>t, <2>1 DEF AssignSubXid, TypeOK
  <2> QED BY <1>7, <1>t, <2>1, <2>2 DEF AssignSubXid, TypeOK, checkVars
<1>8. ASSUME NEW p \in Procs, PreCommit(p) PROVE TypeOK'
  BY <1>8, <1>t, <1>r DEF PreCommit, TypeOK, checkVars
<1>9. ASSUME NEW p \in Procs, RecordCommit(p) PROVE TypeOK'
  BY <1>9, <1>t, XidsTyped DEF RecordCommit, TypeOK, checkVars
<1>10. ASSUME NEW p \in Procs, EndXact(p) PROVE TypeOK'
  <2>1. /\ latest' \in 0..MaxXid /\ snap' \in Snap \cup {NoSnap} /\ seen' \in SUBSET Xid
    BY <1>10, <1>t DEF EndXact, TypeOK
  <2> QED BY <1>10, <1>t, <1>r, <2>1 DEF EndXact, TypeOK, checkVars
<1>11. ASSUME NEW p \in Procs, NEW x \in Xid, AbortSub(p, x) PROVE TypeOK'
  BY <1>11, <1>t DEF AbortSub, TypeOK, checkVars
<1> QED BY <1>0, <1>1, <1>2, <1>3, <1>4, <1>5, <1>6, <1>7, <1>8, <1>9, <1>10, <1>11 DEF Next

\* Every step is one of four kinds, as far as the proc array goes.
LEMMA Kinds ==
    ASSUME KindsInv, Next
    PROVE  \/ Quiet
           \/ \E p \in Procs : AssignXid(p) \/ AssignSubXid(p)
           \/ \E p \in Procs : RecordCommit(p)
           \/ \E p \in Procs : EndXact(p) \/ \E x \in Xid : AbortSub(p, x)
<1>1. TakeSnapshot \/ ReleaseSnapshot \/ Write \/ Ask \/ EndCheck => Quiet
  BY DEF Quiet, TakeSnapshot, ReleaseSnapshot, Write, Ask, EndCheck
<1>2. ASSUME NEW r \in rows, StartCheck(r) PROVE Quiet BY <1>2 DEF Quiet, StartCheck
<1>3. ASSUME NEW p \in Procs, PreCommit(p) PROVE Quiet
  BY <1>3 DEF Quiet, PreCommit, KindsInv, TypeOK
<1> QED BY <1>1, <1>2, <1>3 DEF Next

\* No step brings in an xid that was not issued.
LEMMA IssuedStep == KindsInv /\ Next => IssuedInv'
<1> SUFFICES ASSUME KindsInv, Next PROVE IssuedInv' OBVIOUS
<1>t. TypeOK /\ IssuedInv BY DEF KindsInv
<1>n. nextXid \in Nat /\ nextXid' \in {nextXid, nextXid + 1}
  <2>1. nextXid \in Nat BY <1>t DEF TypeOK
  <2>2. nextXid' \in {nextXid, nextXid + 1}
    BY Kinds DEF Quiet, AssignXid, AssignSubXid, RecordCommit, EndXact, AbortSub
  <2> QED BY <2>1, <2>2
<1>r. \A r \in rows' : r.xmin < nextXid' /\ r.xmax < nextXid'
  <2>1. \A r \in rows' : r \in Row /\ r.xmin < nextXid /\ r.xmax < nextXid BY RowsStep
  <2>2. \A r \in rows' : r.xmin \in Nat /\ r.xmax \in Nat BY <2>1 DEF Row
  <2> QED BY <1>n, <2>1, <2>2
<1>x. \A p \in Procs : Xids(p) \subseteq Xid /\ undone[p] \subseteq Xid BY <1>t, XidsTyped
<1>1. CASE Quiet BY <1>1, <1>t, <1>r DEF Quiet, IssuedInv
<1>2. ASSUME NEW p \in Procs, AssignXid(p) \/ AssignSubXid(p) PROVE IssuedInv'
  <2>1. nextXid' = nextXid + 1 /\ UNCHANGED <<clog, latest, undone>>
    BY <1>2 DEF AssignXid, AssignSubXid
  <2>2. \A q \in Procs : /\ top'[q] \in {top[q], nextXid}
                         /\ subs'[q] \subseteq subs[q] \cup {nextXid}
    BY <1>2, <1>t DEF AssignXid, AssignSubXid, TypeOK
  <2>3. \A q \in Procs : /\ top[q] \in Nat /\ subs[q] \subseteq Nat /\ undone[q] \subseteq Nat
                         /\ clog \subseteq Nat /\ latest \in Nat
    BY <1>t DEF TypeOK
  <2>4. \A q \in Procs : top'[q] < nextXid' BY <1>t, <1>n, <2>1, <2>2, <2>3 DEF IssuedInv
  <2>5. \A q \in Procs : \A x \in subs'[q] \cup undone'[q] : x < nextXid'
    BY <1>t, <1>n, <2>1, <2>2, <2>3 DEF IssuedInv
  <2>6. (\A x \in clog' : x < nextXid') /\ latest' < nextXid'
    BY <1>t, <1>n, <2>1, <2>3 DEF IssuedInv
  <2> QED BY <1>r, <2>4, <2>5, <2>6 DEF IssuedInv
<1>3. ASSUME NEW p \in Procs, RecordCommit(p) PROVE IssuedInv'
  BY <1>3, <1>t, <1>r DEF RecordCommit, IssuedInv, Xids
<1>4. ASSUME NEW p \in Procs, EndXact(p) \/ \E x \in Xid : AbortSub(p, x) PROVE IssuedInv'
  <2>1. latest' < nextXid' /\ UNCHANGED <<nextXid, clog>> BY <1>4, EndsSteps DEF Ends
  <2>2. \A q \in Procs : /\ top'[q] \in {top[q], 0}
                         /\ subs'[q] \cup undone'[q] \subseteq subs[q] \cup undone[q]
    BY <1>4, <1>t DEF EndXact, AbortSub, TypeOK
  <2>3. nextXid > 0 BY <1>t DEF TypeOK
  <2> QED BY <1>t, <1>r, <2>1, <2>2, <2>3 DEF IssuedInv
<1> QED BY <1>1, <1>2, <1>3, <1>4, Kinds

\* No step gives an xid to a second transaction.
LEMMA OwnerStep == KindsInv /\ Next => OwnerInv'
<1> SUFFICES ASSUME KindsInv, Next PROVE OwnerInv' OBVIOUS
<1>t. TypeOK /\ IssuedInv /\ OwnerInv BY DEF KindsInv
<1>f. \A p \in Procs : /\ nextXid \notin Xids(p) /\ nextXid \notin undone[p]
                       /\ nextXid \notin subs[p] /\ top[p] # nextXid
  BY <1>t DEF IssuedInv, TypeOK, Xids
<1>1. CASE Quiet BY <1>1, <1>t, QuietXids DEF Quiet, OwnerInv
<1>2. ASSUME NEW p \in Procs, AssignXid(p) \/ AssignSubXid(p) PROVE OwnerInv'
  <2>1. NewXid(p) BY <1>2, NewXidSteps
  <2>2. \A q \in Procs : top'[q] \notin subs'[q]
    <3>1. CASE AssignXid(p)
      <4>1. subs[p] = {} BY <3>1 DEF AssignXid, KindsInv, ClogInv
      <4> QED BY <3>1, <4>1, <1>t DEF AssignXid, OwnerInv, TypeOK
    <3>2. CASE AssignSubXid(p) BY <3>2, <1>t, <1>f DEF AssignSubXid, OwnerInv, TypeOK
    <3> QED BY <1>2, <3>1, <3>2
  <2> QED BY <1>t, <1>f, <2>1, <2>2 DEF NewXid, OwnerInv
<1>3. ASSUME NEW p \in Procs, RecordCommit(p) PROVE OwnerInv'
  BY <1>3, <1>t DEF RecordCommit, OwnerInv, Xids
<1>4. ASSUME NEW p \in Procs, EndXact(p) PROVE OwnerInv'
  <2>1. Ends(p) /\ Xids(p)' = {} BY <1>4, EndsSteps
  <2>2. \A q \in Procs : /\ undone'[q] \subseteq undone[q]
                         /\ top'[q] \notin subs'[q]
    BY <1>4, <1>t DEF EndXact, TypeOK, OwnerInv
  <2> QED BY <1>t, <2>1, <2>2 DEF Ends, OwnerInv
<1>5. ASSUME NEW p \in Procs, NEW x \in Xid, AbortSub(p, x) PROVE OwnerInv'
  <2>1. Ends(p) /\ Xids(p)' = Xids(p) \ {x} BY <1>5, EndsSteps
  <2>2. x \in Xids(p) BY <1>5 DEF AbortSub, Xids
  <2>3. \A q \in Procs : /\ undone'[q] \subseteq undone[q] \cup {x}
                         /\ top'[q] \notin subs'[q]
    BY <1>5, <1>t DEF AbortSub, TypeOK, OwnerInv
  <2> QED BY <1>t, <2>1, <2>2, <2>3 DEF Ends, OwnerInv
<1> QED BY <1>1, <1>2, <1>3, <1>4, <1>5, Kinds

\* Commit records come from RecordCommit alone, and latestCompletedXid follows.
LEMMA ClogStep == KindsInv /\ Next => ClogInv'
<1> SUFFICES ASSUME KindsInv, Next PROVE ClogInv' OBVIOUS
<1>t. TypeOK /\ IssuedInv /\ OwnerInv /\ ClogInv BY DEF KindsInv
<1>f. nextXid \notin clog BY <1>t DEF IssuedInv, TypeOK
<1>p. \A x : x \in InProgress' <=> \E p \in Procs : x \in Xids(p)' BY InProgressIsPrime
<1>q. \A x : x \in InProgress <=> \E p \in Procs : x \in Xids(p) BY InProgressIs
<1>1. CASE Quiet
  BY <1>1, <1>t, QuietXids DEF Quiet, ClogInv
<1>2. ASSUME NEW p \in Procs, AssignXid(p) \/ AssignSubXid(p) PROVE ClogInv'
  <2>1. NewXid(p) BY <1>2, NewXidSteps
  <2>2. /\ phase'[p] = "open" /\ phase[p] # "recorded"
        /\ \A q \in Procs : q # p => /\ phase'[q] = phase[q]
                                     /\ top'[q] = top[q] /\ subs'[q] = subs[q]
    BY <1>2, <1>t DEF AssignXid, AssignSubXid, TypeOK
  <2>3. \A x \in clog' : x \notin InProgress' => x <= latest'
    BY <1>t, <1>p, <1>q, <2>1 DEF NewXid, ClogInv
  <2> QED BY <1>t, <1>f, <2>1, <2>2, <2>3 DEF NewXid, ClogInv
<1>3. ASSUME NEW p \in Procs, RecordCommit(p) PROVE ClogInv'
  <2>1. /\ clog' = clog \cup Xids(p) /\ phase'[p] = "recorded" /\ phase[p] = "precommit"
        /\ \A q \in Procs : q # p => phase'[q] = phase[q]
        /\ UNCHANGED <<top, subs, undone, latest>>
    BY <1>3, <1>t DEF RecordCommit, TypeOK
  <2>2. \A q \in Procs : Xids(q)' = Xids(q) BY <2>1 DEF Xids
  <2>3. \A x \in clog' : x \notin InProgress' => x <= latest'
    BY <1>t, <1>p, <1>q, <2>1, <2>2 DEF ClogInv
  <2>4. \A q \in Procs : \A x \in Xids(q)' : x \in clog' <=> phase'[q] = "recorded"
    BY <1>t, <2>1, <2>2 DEF ClogInv, OwnerInv
  <2>5. \A q \in Procs : \A x \in undone'[q] : x \notin clog'
    BY <1>t, <2>1 DEF ClogInv, OwnerInv
  <2>6. \A q \in Procs : phase'[q] = "idle" => top'[q] = 0 /\ subs'[q] = {}
    BY <1>t, <2>1 DEF ClogInv
  <2> QED BY <2>3, <2>4, <2>5, <2>6 DEF ClogInv
<1>4. ASSUME NEW p \in Procs, EndXact(p) PROVE ClogInv'
  <2>1. Ends(p) /\ Xids(p)' = {} BY <1>4, EndsSteps
  <2>2. /\ phase'[p] = "idle" /\ top'[p] = 0 /\ subs'[p] = {} /\ undone'[p] = {}
        /\ \A q \in Procs : q # p => /\ phase'[q] = phase[q] /\ top'[q] = top[q]
                                     /\ subs'[q] = subs[q] /\ undone'[q] = undone[q]
    BY <1>4, <1>t DEF EndXact, TypeOK
  <2>t. latest \in Nat /\ latest' \in Nat /\ clog \subseteq Nat
    BY <1>t, TypeStep DEF KindsInv, TypeOK
  <2>3. ASSUME NEW x \in clog', x \notin InProgress' PROVE x <= latest'
    <3>1. CASE x \in Xids(p) BY <2>1, <3>1 DEF Ends
    <3>2. CASE x \notin Xids(p)
      <4>1. x \in clog /\ x \notin InProgress BY <1>p, <1>q, <2>1, <2>3, <3>2 DEF Ends
      <4> QED BY <1>t, <2>t, <2>1, <4>1 DEF Ends, ClogInv
    <3> QED BY <3>1, <3>2
  <2> QED BY <1>t, <2>1, <2>2, <2>3 DEF Ends, ClogInv
<1>5. ASSUME NEW p \in Procs, NEW x \in Xid, AbortSub(p, x) PROVE ClogInv'
  <2>1. Ends(p) /\ Xids(p)' = Xids(p) \ {x} BY <1>5, EndsSteps
  <2>2. /\ x \in Xids(p) /\ phase[p] = "open" /\ phase' = phase
        /\ undone'[p] = undone[p] \cup {x} /\ top' = top
        /\ \A q \in Procs : /\ q # p => subs'[q] = subs[q] /\ undone'[q] = undone[q]
                            /\ subs'[q] \subseteq subs[q]
    BY <1>5, <1>t DEF AbortSub, TypeOK, Xids
  <2>t. latest \in Nat /\ latest' \in Nat /\ clog \subseteq Nat
    BY <1>t, TypeStep DEF KindsInv, TypeOK
  <2>3. \A y \in clog' : y \notin InProgress' => y <= latest'
    BY <1>t, <1>p, <1>q, <2>t, <2>1 DEF Ends, ClogInv
  <2>4. x \notin clog BY <1>t, <2>2 DEF ClogInv
  <2> QED BY <1>t, <2>1, <2>2, <2>3, <2>4 DEF Ends, ClogInv
<1> QED BY <1>1, <1>2, <1>3, <1>4, <1>5, Kinds

\* A new snapshot accounts for all xids; later steps add none below its end.
LEMMA SnapStep == KindsInv /\ Next => SnapInv'
<1> SUFFICES ASSUME KindsInv, Next, snap' # NoSnap PROVE SnapInv' BY DEF SnapInv
<1>t. TypeOK /\ IssuedInv /\ OwnerInv /\ ClogInv /\ SnapInv BY DEF KindsInv
<1>p. \A x : x \in InProgress' <=> \E p \in Procs : x \in Xids(p)' BY InProgressIsPrime
<1>q. \A x : x \in InProgress <=> \E p \in Procs : x \in Xids(p) BY InProgressIs
<1>1. CASE TakeSnapshot
  <2>1. snap' = Fresh /\ seen' = clog \ InProgress /\ Quiet
    BY <1>1 DEF TakeSnapshot, Quiet
  <2>2. Current' = Current /\ InProgress' = InProgress /\ clog' = clog /\ nextXid' = nextXid
    BY <2>1, QuietXids DEF Quiet
  <2>3. latest \in Nat /\ nextXid \in Nat /\ clog \subseteq Nat /\ latest < nextXid
        /\ InProgress \subseteq Nat
    BY <1>t, <1>q, XidsTyped DEF TypeOK, IssuedInv
  <2>4. \A x \in clog \ InProgress : x <= latest BY <1>t DEF ClogInv
  <2>5. \A x \in Current : x \in InProgress BY InProgressIs
  <2>6. /\ Fresh.xmin <= Fresh.xmax /\ Fresh.xmax = latest + 1
        /\ \A x \in Fresh.xip : Fresh.xmin <= x /\ x \in InProgress \ Current
        /\ \A x \in Fresh.subxip : x <= latest /\ x \notin Fresh.xip
        /\ \A x \in InProgress \ Current : x <= latest => x \in Fresh.xip \cup Fresh.subxip
    BY <1>t, FreshIs
  <2>7. \A x \in seen' : x \in clog' /\ x < snap'.xmax /\ x \notin snap'.xip \cup Current'
    BY <2>1, <2>2, <2>3, <2>4, <2>5, <2>6
  <2>8. \A x \in (clog' \cup InProgress') \ Current' :
            x < snap'.xmax => x \in seen' \cup snap'.xip \cup snap'.subxip
    BY <2>1, <2>2, <2>3, <2>6
  <2>9. /\ snap'.xmin <= snap'.xmax /\ snap'.xmax <= nextXid'
        /\ \A x \in snap'.xip : snap'.xmin <= x
    BY <2>1, <2>2, <2>3, <2>6
  <2>10. Fresh.subxip \subseteq Nat BY <1>t, FreshIs DEF Snap
  <2>11. \A x \in snap'.subxip : x < snap'.xmax /\ x \notin snap'.xip
    BY <2>1, <2>3, <2>6, <2>10
  <2> QED BY <2>7, <2>8, <2>9, <2>11 DEF SnapInv
<1>2. CASE ~TakeSnapshot
  <2>1. snap' = snap /\ seen' = seen
    BY <1>2 DEF Next, TakeSnapshot, ReleaseSnapshot, Write, Ask, EndCheck, StartCheck,
        AssignXid, AssignSubXid, PreCommit, RecordCommit, EndXact, AbortSub
  <2>2. snap \in Snap /\ snap # NoSnap BY <1>t, <2>1 DEF TypeOK
  <2>3. snap.xmax \in Nat /\ nextXid \in Nat BY <1>t, <2>2 DEF Snap, TypeOK
  <2>4. /\ snap.xmin <= snap.xmax /\ snap.xmax <= nextXid
        /\ \A x \in snap.xip : snap.xmin <= x
        /\ \A x \in snap.subxip : x < snap.xmax /\ x \notin snap.xip
        /\ \A x \in seen : x \in clog /\ x < snap.xmax /\ x \notin snap.xip \cup Current
        /\ \A x \in (clog \cup InProgress) \ Current :
               x < snap.xmax => x \in seen \cup snap.xip \cup snap.subxip
    BY <1>t, <2>2 DEF SnapInv
  \* What the other transactions may still commit does not grow below xmax.
  <2>5. SUFFICES /\ snap.xmax <= nextXid' /\ clog \subseteq clog'
                 /\ \A x \in clog : x \in Current' => x \in Current
                 /\ \A x \in (clog' \cup InProgress') \ Current' :
                        x < snap.xmax => x \in (clog \cup InProgress) \ Current
    BY <2>1, <2>4 DEF SnapInv
  <2>6. CASE Quiet BY <2>4, <2>6, QuietXids DEF Quiet
  <2>7. ASSUME NEW p \in Procs, AssignXid(p) \/ AssignSubXid(p)
        PROVE  /\ snap.xmax <= nextXid' /\ clog \subseteq clog'
               /\ \A x \in clog : x \in Current' => x \in Current
               /\ \A x \in (clog' \cup InProgress') \ Current' :
                      x < snap.xmax => x \in (clog \cup InProgress) \ Current
    <3>1. NewXid(p) BY <2>7, NewXidSteps
    <3>2. nextXid \notin clog BY <1>t DEF IssuedInv, TypeOK
    <3>3. Current \subseteq Current' /\ Current' \subseteq Current \cup {nextXid}
      BY <3>1 DEF NewXid, Current
    <3>4. InProgress' \subseteq InProgress \cup {nextXid} BY <1>p, <1>q, <3>1 DEF NewXid
    <3>5. ~(nextXid < snap.xmax) /\ snap.xmax <= nextXid' BY <2>3, <2>4, <3>1 DEF NewXid
    <3> QED BY <3>1, <3>2, <3>3, <3>4, <3>5 DEF NewXid
  <2>8. ASSUME NEW p \in Procs, RecordCommit(p)
        PROVE  /\ snap.xmax <= nextXid' /\ clog \subseteq clog'
               /\ \A x \in clog : x \in Current' => x \in Current
               /\ \A x \in (clog' \cup InProgress') \ Current' :
                      x < snap.xmax => x \in (clog \cup InProgress) \ Current
    <3>1. clog' = clog \cup Xids(p) /\ UNCHANGED <<top, subs, nextXid>> BY <2>8 DEF RecordCommit
    <3>2. Current' = Current /\ InProgress' = InProgress
      BY <3>1 DEF Current, InProgress, Xids
    <3> QED BY <1>q, <2>4, <3>1, <3>2
  <2>9. ASSUME NEW p \in Procs, EndXact(p) \/ \E x \in Xid : AbortSub(p, x)
        PROVE  /\ snap.xmax <= nextXid' /\ clog \subseteq clog'
               /\ \A x \in clog : x \in Current' => x \in Current
               /\ \A x \in (clog' \cup InProgress') \ Current' :
                      x < snap.xmax => x \in (clog \cup InProgress) \ Current
    <3>1. Ends(p) BY <2>9, EndsSteps
    <3>2. Current' \subseteq Current BY <3>1 DEF Ends, Current
    <3>3. \A x \in Current \ Current' : x \notin clog \cup InProgress'
      <4>1. CASE p # Me BY <3>1, <4>1 DEF Ends, Current
      <4>2. CASE p = Me
        <5>1. ~EndXact(Me) BY <2>1, <2>2, <4>2 DEF EndXact
        <5>2. phase[Me] = "open" BY <2>9, <4>2, <5>1 DEF AbortSub
        <5>3. \A x \in Current : x \notin clog BY <1>t, <5>2 DEF ClogInv, Current
        <5>4. \A x \in Current : \A q \in Procs : x \in Xids(q)' => q = Me /\ x \in Current'
          BY <1>t, <3>1, <4>2 DEF OwnerInv, Ends, Current
        <5> QED BY <1>p, <5>3, <5>4
      <4> QED BY <4>1, <4>2
    <3>4. InProgress' \subseteq InProgress BY <1>p, <1>q, <3>1 DEF Ends
    <3> QED BY <2>4, <3>1, <3>2, <3>3, <3>4 DEF Ends
  <2> QED BY <2>6, <2>7, <2>8, <2>9, Kinds
<1> QED BY <1>1, <1>2

\* An xid that is no longer running stays as it is.
LEMMA SettledStays ==
    ASSUME KindsInv, Next, NEW x \in Nat, x < nextXid, x \notin InProgress
    PROVE  x \notin InProgress' /\ (x \in clog' <=> x \in clog)
<1>t. TypeOK BY DEF KindsInv
<1>p. \A y : y \in InProgress' <=> \E p \in Procs : y \in Xids(p)' BY InProgressIsPrime
<1>q. \A y : y \in InProgress <=> \E p \in Procs : y \in Xids(p) BY InProgressIs
<1>1. CASE Quiet BY <1>1, QuietXids DEF Quiet
<1>2. ASSUME NEW p \in Procs, AssignXid(p) \/ AssignSubXid(p)
      PROVE  x \notin InProgress' /\ (x \in clog' <=> x \in clog)
  <2>1. NewXid(p) BY <1>2, NewXidSteps
  <2>2. x # nextXid BY <1>t DEF TypeOK
  <2> QED BY <1>p, <1>q, <2>1, <2>2 DEF NewXid
<1>3. ASSUME NEW p \in Procs, RecordCommit(p)
      PROVE  x \notin InProgress' /\ (x \in clog' <=> x \in clog)
  <2>1. clog' = clog \cup Xids(p) /\ UNCHANGED <<top, subs>> BY <1>3 DEF RecordCommit
  <2>2. InProgress' = InProgress BY <2>1 DEF InProgress, Xids
  <2> QED BY <1>q, <2>1, <2>2
<1>4. ASSUME NEW p \in Procs, EndXact(p) \/ \E y \in Xid : AbortSub(p, y)
      PROVE  x \notin InProgress' /\ (x \in clog' <=> x \in clog)
  <2>1. Ends(p) BY <1>4, EndsSteps
  <2> QED BY <1>p, <1>q, <2>1 DEF Ends
<1> QED BY <1>1, <1>2, <1>3, <1>4, Kinds

\* Commit records stay.
LEMMA ClogGrows == KindsInv /\ Next => clog \subseteq clog' /\ nextXid <= nextXid'
<1> SUFFICES ASSUME KindsInv, Next PROVE clog \subseteq clog' /\ nextXid <= nextXid' OBVIOUS
<1>1. nextXid \in Nat BY DEF KindsInv, TypeOK
<1>2. clog \subseteq clog' /\ nextXid' \in {nextXid, nextXid + 1}
  BY Kinds DEF Quiet, AssignXid, AssignSubXid, RecordCommit, EndXact, AbortSub
<1> QED BY <1>1, <1>2

\* Each question is answered by the truth of its moment, which lasts.
LEMMA CheckStep == KindsInv /\ Next => CheckInv'
<1> SUFFICES ASSUME KindsInv, Next PROVE CheckInv' OBVIOUS
<1>t. TypeOK /\ IssuedInv /\ CheckInv BY DEF KindsInv
<1>g. clog \subseteq clog' /\ nextXid <= nextXid' BY ClogGrows
<1>n. nextXid \in Nat /\ nextXid' \in Nat BY <1>t, TypeStep DEF KindsInv, TypeOK
<1>1. CASE EndCheck
  BY <1>1, <1>t DEF EndCheck, CheckInv
<1>2. ASSUME NEW r \in rows, StartCheck(r) PROVE CheckInv'
  <2>1. r \in Row /\ r.xmin < nextXid /\ r.xmax < nextXid BY <1>t DEF TypeOK, IssuedInv
  <2> QED BY <1>2, <2>1, <1>g, <1>t DEF StartCheck, CheckInv, Knows
<1>3. CASE Ask
  <2> DEFINE x == check.xmin
             y == check.xmax
  <2>1. /\ check # NoRow /\ step \in 1..4 /\ step' = step + 1
        /\ UNCHANGED <<nextXid, clog, phase, check>> /\ Quiet
    BY <1>3, <1>t DEF Ask, TypeOK, Quiet
  <2>2. InProgress' = InProgress BY <2>1, QuietXids
  <2>3. /\ step = 1 => run' = run \cup ({x} \cap InProgress) /\ done' = done
        /\ step = 2 => run' = run /\ done' = done \cup ({x} \cap clog)
        /\ step = 3 => run' = run \cup ({y} \cap InProgress) /\ done' = done
        /\ step = 4 => run' = run /\ done' = done \cup ({y} \cap clog)
    BY <1>3 DEF Ask, Questions
  <2>4. Knows(x, 1, 2)' /\ Knows(y, 3, 4)'
    BY <1>t, <2>1, <2>2, <2>3 DEF CheckInv, Knows
  <2>5. done' \subseteq clog' BY <1>t, <2>1, <2>3 DEF CheckInv
  <2> QED BY <1>t, <2>1, <2>4, <2>5 DEF CheckInv
<1>4. CASE UNCHANGED checkVars
  <2>1. UNCHANGED <<check, step, run, done>> BY <1>4 DEF checkVars
  <2>2. done' \subseteq clog' BY <1>t, <1>g, <2>1 DEF CheckInv
  <2>3. ASSUME check # NoRow
        PROVE  /\ check \in Row /\ phase'[Me] # "idle"
               /\ check.xmin < nextXid' /\ check.xmax < nextXid'
               /\ Knows(check.xmin, 1, 2)' /\ Knows(check.xmax, 3, 4)'
    <3>1. /\ check \in Row /\ phase[Me] # "idle" /\ check.xmin < nextXid /\ check.xmax < nextXid
          /\ Knows(check.xmin, 1, 2) /\ Knows(check.xmax, 3, 4)
      BY <1>t, <2>3 DEF CheckInv
    <3>2. check.xmin \in Nat /\ check.xmax \in Nat BY <3>1 DEF Row
    <3>3. phase'[Me] # "idle"
      BY <1>t, <2>1, <2>3, <3>1, Kinds
         DEF Quiet, AssignXid, AssignSubXid, RecordCommit, EndXact, AbortSub, TypeOK
    <3>4. \A x \in {check.xmin, check.xmax} :
              x \notin InProgress => x \notin InProgress' /\ (x \in clog' <=> x \in clog)
      BY <3>1, <3>2, SettledStays
    <3>5. Knows(check.xmin, 1, 2)' BY <1>t, <2>1, <3>1, <3>4 DEF Knows, TypeOK
    <3>6. Knows(check.xmax, 3, 4)' BY <1>t, <2>1, <3>1, <3>4 DEF Knows, TypeOK
    <3> QED BY <1>n, <1>g, <3>1, <3>2, <3>3, <3>5, <3>6
  <2> QED BY <1>t, <2>1, <2>2, <2>3 DEF CheckInv
<1> QED BY <1>1, <1>2, <1>3, <1>4
    DEF Next, TakeSnapshot, ReleaseSnapshot, Write, AssignXid, AssignSubXid, PreCommit,
        RecordCommit, EndXact, AbortSub

-----------------------------------------------------------------------------
(* The theorems. *)

\* KindsInv holds in every reachable state.
LEMMA KindsInvariant == Spec => []KindsInv
<1>1. KindsInv /\ [Next]_vars => KindsInv'
  <2>1. KindsInv /\ Next => KindsInv'
    BY TypeStep, IssuedStep, OwnerStep, ClogStep, SnapStep, CheckStep DEF KindsInv
  <2>2. KindsInv /\ UNCHANGED vars => KindsInv'
    <3> SUFFICES ASSUME KindsInv, UNCHANGED vars PROVE KindsInv' OBVIOUS
    <3>1. Quiet BY DEF vars, Quiet
    <3>2. TypeOK' /\ IssuedInv' BY DEF vars, KindsInv, TypeOK, IssuedInv
    <3>3. OwnerInv' /\ ClogInv' /\ SnapInv' BY <3>1, QuietXids DEF vars, KindsInv, OwnerInv, ClogInv, SnapInv
    <3>4. CheckInv' BY <3>1, QuietXids DEF vars, KindsInv, CheckInv, Knows
    <3> QED BY <3>2, <3>3, <3>4 DEF KindsInv
  <2> QED BY <2>1, <2>2
<1> QED BY <1>1, KindsInit, PTL DEF Spec

\* While Me holds a snapshot, xid_view calls an xid of another transaction
\* committed and visible exactly if it had ended in commit when the snapshot
\* was taken, or is that of a subtransaction which was running then and has
\* committed since, for any number of backends, transactions and
\* subtransactions.
THEOREM SnapshotsExact == Spec => []SnapshotExact
BY KindsInvariant, ExactFollows, PTL

\* The verdict of a dirty check (visible_dirty, behind unique indexes) is right
\* when it is given, whatever commits and aborts between its questions.
THEOREM DirtyChecksSound == Spec => []DirtySound
BY KindsInvariant, DirtyFollows, PTL

\* On a row no other running transaction has touched, SNAPSHOT_SELF, a fresh
\* MVCC snapshot, a dirty check and SNAPSHOT_NON_VACUUMABLE agree
\* (visibility.rs row_visible).
THEOREM KindsOfSnapshotAgree == Spec => []KindsAgree
BY KindsInvariant, AgreeFollows, PTL
=============================================================================
