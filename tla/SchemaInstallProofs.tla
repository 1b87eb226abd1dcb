------------------------- MODULE SchemaInstallProofs -------------------------
(***************************************************************************)
(* Proofs about SchemaInstall, for any set of backends, any version found  *)
(* on disk and any number of kills and failures, at every point.           *)
(***************************************************************************)
EXTENDS SchemaInstall, SequenceTheorems, TLAPS

\* What there may be in a file of each version: the index of the first version
\* and the column of the third are nowhere else, and a version other than 0 is
\* stamped on a file that has both tables and the journal mode.
FileConsistent ==
    /\ disk \in [version: Nat, storage: BOOLEAN, meta: BOOLEAN, wal: BOOLEAN,
                 storage_dead: BOOLEAN, prev: BOOLEAN]
    /\ disk.version # 0 => disk.storage /\ disk.meta /\ disk.wal
    /\ disk.storage_dead => disk.version = 1
    /\ disk.prev => disk.version = 3
    /\ disk.version > SCHEMA_VERSION => disk = FileOf(disk.version)

\* How far open_conn of a backend may have got, and what is in the file by then
\* whoever else is at it: the version it read is still there or is the final
\* one, and only the stamp of the version is left once all the rest is done.
Programs ==
    {<<>>, <<"journal_mode", "storage", "meta", "user_version">>,
     <<"storage", "meta", "user_version">>, <<"meta", "user_version">>,
     <<"user_version">>, <<"drop_storage_dead", "user_version">>,
     <<"drop_prev", "user_version">>}

InstallingFrom(t) ==
    \/ t = <<"journal_mode", "storage", "meta", "user_version">>
    \/ t = <<"storage", "meta", "user_version">> /\ disk.wal
    \/ t = <<"meta", "user_version">> /\ disk.wal /\ disk.storage

OpenerConsistent(b) ==
    /\ pc[b] = "running" =>
        \/ disk.version \in {0, SCHEMA_VERSION} /\ InstallingFrom(todo[b])
        \/ disk.version \in {1, SCHEMA_VERSION}
           /\ todo[b] = <<"drop_storage_dead", "user_version">>
        \/ disk.version \in {3, SCHEMA_VERSION}
           /\ todo[b] = <<"drop_prev", "user_version">>
        \/ /\ todo[b] = <<"user_version">> /\ disk.version <= SCHEMA_VERSION
           /\ disk.storage /\ disk.meta /\ disk.wal
           /\ ~disk.prev /\ ~disk.storage_dead
    /\ pc[b] = "open" => disk.version = SCHEMA_VERSION

Stages == {"closed", "opening", "running", "open", "stuck"}

OpenInv ==
    /\ FileConsistent
    /\ todo \in [Backends -> Programs] /\ pc \in [Backends -> Stages]
    /\ \A b \in Backends : OpenerConsistent(b)

\* It holds until a file with another schema is taken for an empty one.
Sound == mistaken \/ OpenInv
-----------------------------------------------------------------------------
\* Two statements in a row.
LEMMA Pair == ASSUME NEW x, NEW y PROVE <<x>> \o <<y>> = <<x, y>>
<1> DEFINE S == {x, y}
<1>1. <<x>> \in Seq(S) /\ <<y>> \in Seq(S) /\ <<x, y>> \in Seq(S) OBVIOUS
<1>2. Len(<<x>>) = 1 /\ Len(<<y>>) = 1 /\ Len(<<x, y>>) = 2 OBVIOUS
<1>3. <<x>> \o <<y>> \in Seq(S) /\ Len(<<x>> \o <<y>>) = 2
  BY <1>1, <1>2, ConcatProperties
<1>4. (<<x>> \o <<y>>)[1] = x /\ (<<x>> \o <<y>>)[2] = y
  BY <1>1, <1>2, ConcatProperties
<1>5. \A i \in 1..2 : (<<x>> \o <<y>>)[i] = <<x, y>>[i] BY <1>4
<1> QED BY <1>1, <1>2, <1>3, <1>5, SeqEqual

\* The statements of migrate_schema for the versions there were.
LEMMA Migrations ==
    /\ migrate_schema(1) = <<"drop_storage_dead", "user_version">>
    /\ migrate_schema(2) = <<"user_version">>
    /\ migrate_schema(3) = <<"drop_prev", "user_version">>
<1>1. migrate_schema(1) = (<<"drop_storage_dead">> \o <<>>) \o <<"user_version">>
  BY DEF migrate_schema
<1>2. migrate_schema(2) = (<<>> \o <<>>) \o <<"user_version">>
  BY DEF migrate_schema
<1>3. migrate_schema(3) = (<<>> \o <<"drop_prev">>) \o <<"user_version">>
  BY DEF migrate_schema
<1>4. /\ <<"drop_storage_dead">> \o <<>> = <<"drop_storage_dead">>
      /\ <<>> \o <<"drop_prev">> = <<"drop_prev">>
      /\ <<>> \o <<>> = <<>> /\ <<>> \o <<"user_version">> = <<"user_version">>
  OBVIOUS
<1> QED BY <1>1, <1>2, <1>3, <1>4, Pair

\* What is left after the first statement.
LEMMA Tails ==
    /\ Tail(<<"journal_mode", "storage", "meta", "user_version">>)
         = <<"storage", "meta", "user_version">>
    /\ Tail(<<"storage", "meta", "user_version">>) = <<"meta", "user_version">>
    /\ Tail(<<"meta", "user_version">>) = <<"user_version">>
    /\ Tail(<<"drop_storage_dead", "user_version">>) = <<"user_version">>
    /\ Tail(<<"drop_prev", "user_version">>) = <<"user_version">>
    /\ Tail(<<"user_version">>) = <<>>
OBVIOUS

\* The files there are when the first backend comes.
LEMMA FilesConsistent ==
    ASSUME NEW v \in Nat, disk = FileOf(v) PROVE FileConsistent
<1>1. disk.version = v BY DEF FileOf
<1> QED BY <1>1 DEF FileConsistent, FileOf, SCHEMA_VERSION

\* The invariant holds before any backend opens the file.
LEMMA OpenInit == ASSUME Init PROVE OpenInv
<1>1. FileConsistent BY FilesConsistent, SchemaAssumption DEF Init
<1>2. todo \in [Backends -> Programs] /\ pc \in [Backends -> Stages]
  BY DEF Init, Programs, Stages
<1>3. \A b \in Backends : pc[b] = "closed" BY DEF Init
<1> QED BY <1>1, <1>2, <1>3 DEF OpenInv, OpenerConsistent

\* A backend that closes its connection disturbs nobody.
LEMMA CloseStep ==
    ASSUME OpenInv, NEW b \in Backends, NEW q \in {"closed", "stuck"},
           Closed(b, q), UNCHANGED disk
    PROVE  OpenInv'
<1>1. todo' \in [Backends -> Programs] /\ pc' \in [Backends -> Stages]
  BY DEF OpenInv, Closed, Programs, Stages
<1>2. ASSUME NEW c \in Backends PROVE OpenerConsistent(c)'
  <2>1. CASE c = b BY <2>1 DEF OpenInv, Closed, OpenerConsistent
  <2>2. CASE c # b
    BY <2>2 DEF OpenInv, Closed, OpenerConsistent, InstallingFrom
  <2> QED BY <2>1, <2>2
<1> QED BY <1>1, <1>2 DEF OpenInv, FileConsistent

\* Nor does one that gives up, stuck or not.
LEMMA DieStep ==
    ASSUME OpenInv, NEW b \in Backends, die(b), UNCHANGED disk PROVE OpenInv'
<1>1. CASE first[b] BY <1>1, CloseStep DEF die
<1>2. CASE ~first[b] BY <1>2, CloseStep DEF die
<1> QED BY <1>1, <1>2

\* A step of one backend that changes neither the file nor another backend.
LEMMA LocalStep ==
    ASSUME OpenInv, NEW b \in Backends, NEW t \in Programs, NEW q \in Stages,
           todo' = [todo EXCEPT ![b] = t], pc' = [pc EXCEPT ![b] = q],
           UNCHANGED disk, OpenerConsistent(b)'
    PROVE  OpenInv'
<1>1. todo' \in [Backends -> Programs] /\ pc' \in [Backends -> Stages]
  BY DEF OpenInv
<1>2. ASSUME NEW c \in Backends, c # b PROVE OpenerConsistent(c)'
  BY <1>2 DEF OpenInv, OpenerConsistent, InstallingFrom
<1> QED BY <1>1, <1>2 DEF OpenInv, FileConsistent

\* Reading the version starts the statements that lead from it to the schema.
LEMMA ReadVersionStep ==
    ASSUME OpenInv, ~mistaken', NEW b \in Backends, ReadVersion(b)
    PROVE  OpenInv'
<1>0. UNCHANGED disk BY DEF ReadVersion
<1>t. /\ pc \in [Backends -> Stages] /\ todo \in [Backends -> Programs]
      /\ disk.version \in Nat
  BY DEF OpenInv, FileConsistent
<1>e. PICK current \in VersionsRead :
        /\ \/ /\ current = 0
              /\ todo' = [todo EXCEPT ![b] = install_schema]
              /\ pc' = [pc EXCEPT ![b] = "running"]
           \/ current > SCHEMA_VERSION /\ die(b)
           \/ /\ ToMigrate(current)
              /\ todo' = [todo EXCEPT ![b] = migrate_schema(current)]
              /\ pc' = [pc EXCEPT ![b] = "running"]
           \/ /\ current = SCHEMA_VERSION
              /\ pc' = [pc EXCEPT ![b] = "open"] /\ UNCHANGED todo
        /\ ~(current = 0 /\ disk.version \notin {0, SCHEMA_VERSION})
  BY DEF ReadVersion
<1>v. \/ current = 0 /\ disk.version \in {0, SCHEMA_VERSION}
      \/ current = disk.version
  BY <1>e DEF VersionsRead
<1>1. CASE disk.version \in {0, SCHEMA_VERSION} /\ current = 0
  <2>1. /\ todo' = [todo EXCEPT ![b] = install_schema]
        /\ pc' = [pc EXCEPT ![b] = "running"]
    BY <1>1, <1>e DEF SCHEMA_VERSION, ToMigrate
  <2>2. install_schema \in Programs /\ "running" \in Stages
    BY DEF install_schema, Programs, Stages
  <2>3. OpenerConsistent(b)'
    BY <1>0, <1>1, <1>t, <2>1 DEF OpenerConsistent, InstallingFrom, install_schema
  <2> QED BY <1>0, <2>1, <2>2, <2>3, LocalStep
<1>2. CASE current = disk.version /\ disk.version > SCHEMA_VERSION
  <2>1. die(b) BY <1>2, <1>e, <1>t DEF SCHEMA_VERSION, ToMigrate
  <2> QED BY <1>0, <2>1, DieStep
<1>3. CASE current = disk.version /\ disk.version \in 1..(SCHEMA_VERSION - 1)
  <2>1. /\ todo' = [todo EXCEPT ![b] = migrate_schema(disk.version)]
        /\ pc' = [pc EXCEPT ![b] = "running"]
    BY <1>3, <1>e DEF SCHEMA_VERSION
  <2>2. disk.version = 1 \/ disk.version = 2 \/ disk.version = 3
    BY <1>3 DEF SCHEMA_VERSION
  <2>3. migrate_schema(disk.version) \in Programs /\ "running" \in Stages
    <3>1. CASE disk.version = 1 BY <3>1, Migrations DEF Programs, Stages
    <3>2. CASE disk.version = 2 BY <3>2, Migrations DEF Programs, Stages
    <3>3. CASE disk.version = 3 BY <3>3, Migrations DEF Programs, Stages
    <3> QED BY <2>2, <3>1, <3>2, <3>3
  <2>4. pc'[b] = "running" /\ todo'[b] = migrate_schema(disk.version)
    BY <1>t, <2>1
  <2>5. OpenerConsistent(b)'
    <3>1. CASE disk.version = 1
      BY <1>0, <2>4, <3>1, Migrations DEF OpenerConsistent
    <3>2. CASE disk.version = 2
      <4>1. /\ disk.storage /\ disk.meta /\ disk.wal
            /\ ~disk.prev /\ ~disk.storage_dead
        BY <3>2 DEF OpenInv, FileConsistent
      <4>2. pc'[b] = "running" /\ todo'[b] = <<"user_version">>
        BY <2>4, <3>2, Migrations
      <4> QED BY <1>0, <3>2, <4>1, <4>2 DEF OpenerConsistent, SCHEMA_VERSION
    <3>3. CASE disk.version = 3
      BY <1>0, <2>4, <3>3, Migrations DEF OpenerConsistent
    <3> QED BY <2>2, <3>1, <3>2, <3>3
  <2> QED BY <1>0, <2>1, <2>3, <2>5, LocalStep
<1>4. CASE current = disk.version /\ disk.version = SCHEMA_VERSION
  <2>1. pc' = [pc EXCEPT ![b] = "open"] /\ todo' = todo
    BY <1>4, <1>e, <1>t DEF SCHEMA_VERSION, ToMigrate
  <2>2. todo' = [todo EXCEPT ![b] = todo[b]] /\ todo[b] \in Programs
    BY <1>t, <2>1
  <2>3. OpenerConsistent(b)' BY <1>0, <1>4, <1>t, <2>1 DEF OpenerConsistent
  <2> QED BY <1>0, <2>1, <2>2, <2>3, LocalStep DEF Stages
<1> QED BY <1>1, <1>2, <1>3, <1>4, <1>t, <1>v DEF SCHEMA_VERSION

\* What every statement may do to the file: it only moves it towards the
\* schema, and stamps the version when the file has all the rest.
Towards ==
    /\ disk' \in [version: Nat, storage: BOOLEAN, meta: BOOLEAN, wal: BOOLEAN,
                  storage_dead: BOOLEAN, prev: BOOLEAN]
    /\ disk.version <= SCHEMA_VERSION
    /\ disk.wal => disk'.wal
    /\ disk.storage => disk'.storage
    /\ disk.meta => disk'.meta
    /\ disk'.prev => disk.prev
    /\ disk'.storage_dead => disk.storage_dead
    /\ \/ disk'.version = disk.version
       \/ /\ disk'.version = SCHEMA_VERSION
          /\ disk'.storage /\ disk'.meta /\ disk'.wal
          /\ ~disk'.prev /\ ~disk'.storage_dead

\* Such a change disturbs neither the file nor the other backends.
LEMMA TowardsFile == ASSUME FileConsistent, Towards PROVE FileConsistent'
<1>1. CASE disk'.version = disk.version
  BY <1>1 DEF FileConsistent, Towards, SCHEMA_VERSION
<1>2. CASE disk'.version # disk.version
  BY <1>2 DEF FileConsistent, Towards, SCHEMA_VERSION
<1> QED BY <1>1, <1>2

\* Nor does it take from another backend what its next statements rely on.
LEMMA TowardsOthers ==
    ASSUME Towards, FileConsistent, NEW c \in Backends, OpenerConsistent(c),
           pc'[c] = pc[c], todo'[c] = todo[c]
    PROVE  OpenerConsistent(c)'
<1>1. pc'[c] = "open" => disk'.version = SCHEMA_VERSION
  BY DEF Towards, OpenerConsistent
<1>2. ASSUME pc[c] = "running", todo[c] = <<"user_version">>, 
             disk.storage, disk.meta, disk.wal, ~disk.prev, ~disk.storage_dead
      PROVE  /\ disk'.version <= SCHEMA_VERSION /\ disk'.storage /\ disk'.meta
             /\ disk'.wal /\ ~disk'.prev /\ ~disk'.storage_dead
  BY <1>2 DEF Towards, SCHEMA_VERSION
<1>3. InstallingFrom(todo[c]) => InstallingFrom(todo[c])'
  BY DEF Towards, InstallingFrom
<1>4. ASSUME NEW v, disk.version \in {v, SCHEMA_VERSION}
      PROVE  disk'.version \in {v, SCHEMA_VERSION}
  BY <1>4 DEF Towards
<1> QED BY <1>1, <1>2, <1>3, <1>4 DEF OpenerConsistent

\* Every statement but the stamp is such a change.
LEMMA PartsTowards ==
    ASSUME FileConsistent, disk.version <= SCHEMA_VERSION,
           \/ disk' = [disk EXCEPT !.wal = TRUE]
           \/ disk' = [disk EXCEPT !.storage = TRUE]
           \/ disk' = [disk EXCEPT !.meta = TRUE]
           \/ disk' = [disk EXCEPT !.storage_dead = FALSE]
           \/ disk' = [disk EXCEPT !.prev = FALSE]
    PROVE  Towards
<1>1. disk' \in [version: Nat, storage: BOOLEAN, meta: BOOLEAN, wal: BOOLEAN,
                 storage_dead: BOOLEAN, prev: BOOLEAN]
  BY DEF FileConsistent
<1>2. disk'.version = disk.version BY DEF FileConsistent
<1>3. /\ disk.wal => disk'.wal
      /\ disk.storage => disk'.storage
      /\ disk.meta => disk'.meta
  BY DEF FileConsistent
<1>4. /\ disk'.prev => disk.prev
      /\ disk'.storage_dead => disk.storage_dead
  BY DEF FileConsistent
<1> QED BY <1>1, <1>2, <1>3, <1>4 DEF Towards

\* A statement that is executed: the backend moves on by one.
LEMMA ExecuteStep ==
    ASSUME OpenInv, NEW b \in Backends, pc[b] = "running",
           Execute(Head(todo[b])),
           todo' = [todo EXCEPT ![b] = Tail(@)],
           pc' = [pc EXCEPT ![b] = IF Tail(todo[b]) = <<>> THEN "open" ELSE "running"]
    PROVE  OpenInv'
<1>t. /\ pc \in [Backends -> Stages] /\ todo \in [Backends -> Programs]
      /\ OpenerConsistent(b) /\ FileConsistent
  BY DEF OpenInv
<1>p. /\ todo'[b] = Tail(todo[b])
      /\ pc'[b] = IF Tail(todo[b]) = <<>> THEN "open" ELSE "running"
  BY <1>t
<1>1. SUFFICES Towards /\ OpenerConsistent(b)' /\ Tail(todo[b]) \in Programs
  <2>1. FileConsistent' BY <1>1, <1>t, TowardsFile
  <2>2. todo' \in [Backends -> Programs] /\ pc' \in [Backends -> Stages]
    BY <1>1, <1>t DEF Stages
  <2>3. ASSUME NEW c \in Backends, c # b PROVE OpenerConsistent(c)'
    <3>1. pc'[c] = pc[c] /\ todo'[c] = todo[c] BY <2>3, <1>t
    <3>2. OpenerConsistent(c) BY DEF OpenInv
    <3> QED BY <1>1, <1>t, <3>1, <3>2, TowardsOthers
  <2> QED BY <1>1, <2>1, <2>2, <2>3 DEF OpenInv
<1>2. CASE /\ disk.version \in {0, SCHEMA_VERSION}
           /\ todo[b] = <<"journal_mode", "storage", "meta", "user_version">>
  <2>1. disk' = [disk EXCEPT !.wal = TRUE] BY <1>2 DEF Execute
  <2>2. Towards BY <1>2, <1>t, <2>1, PartsTowards DEF SCHEMA_VERSION
  <2>3. disk'.version = disk.version /\ disk'.wal BY <2>1, <1>t DEF FileConsistent
  <2>4. todo'[b] = <<"storage", "meta", "user_version">> /\ pc'[b] = "running"
    BY <1>2, <1>p, Tails
  <2> QED BY <1>2, <1>p, <2>2, <2>3, <2>4 DEF OpenerConsistent, InstallingFrom, Programs
<1>3. CASE /\ disk.version \in {0, SCHEMA_VERSION}
           /\ todo[b] = <<"storage", "meta", "user_version">> /\ disk.wal
  <2>1. disk' = [disk EXCEPT !.storage = TRUE] BY <1>3 DEF Execute
  <2>2. Towards BY <1>3, <1>t, <2>1, PartsTowards DEF SCHEMA_VERSION
  <2>3. disk'.version = disk.version /\ disk'.wal /\ disk'.storage
    BY <1>3, <2>1, <1>t DEF FileConsistent
  <2>4. todo'[b] = <<"meta", "user_version">> /\ pc'[b] = "running"
    BY <1>3, <1>p, Tails
  <2> QED BY <1>3, <1>p, <2>2, <2>3, <2>4 DEF OpenerConsistent, InstallingFrom, Programs
<1> DEFINE Full(d) == /\ d.version <= SCHEMA_VERSION
                      /\ d.storage /\ d.meta /\ d.wal
                      /\ ~d.prev /\ ~d.storage_dead
<1>4. CASE /\ disk.version \in {0, SCHEMA_VERSION}
           /\ todo[b] = <<"meta", "user_version">> /\ disk.wal /\ disk.storage
  <2>1. disk' = [disk EXCEPT !.meta = TRUE] BY <1>4 DEF Execute
  <2>2. Towards BY <1>4, <1>t, <2>1, PartsTowards DEF SCHEMA_VERSION
  <2>3. Full(disk') BY <1>4, <2>1, <1>t DEF FileConsistent, SCHEMA_VERSION
  <2>4. todo'[b] = <<"user_version">> /\ pc'[b] = "running"
    BY <1>4, <1>p, Tails
  <2> QED BY <1>p, <2>2, <2>3, <2>4 DEF OpenerConsistent, Programs
<1>5. CASE /\ disk.version \in {1, SCHEMA_VERSION}
           /\ todo[b] = <<"drop_storage_dead", "user_version">>
  <2>1. disk' = [disk EXCEPT !.storage_dead = FALSE] BY <1>5 DEF Execute
  <2>2. Towards BY <1>5, <1>t, <2>1, PartsTowards DEF SCHEMA_VERSION
  <2>3. Full(disk') BY <1>5, <2>1, <1>t DEF FileConsistent, SCHEMA_VERSION
  <2>4. todo'[b] = <<"user_version">> /\ pc'[b] = "running"
    BY <1>5, <1>p, Tails
  <2> QED BY <1>p, <2>2, <2>3, <2>4 DEF OpenerConsistent, Programs
<1>6. CASE /\ disk.version \in {3, SCHEMA_VERSION}
           /\ todo[b] = <<"drop_prev", "user_version">>
  <2>1. disk' = [disk EXCEPT !.prev = FALSE] BY <1>6 DEF Execute
  <2>2. Towards BY <1>6, <1>t, <2>1, PartsTowards DEF SCHEMA_VERSION
  <2>3. Full(disk') BY <1>6, <2>1, <1>t DEF FileConsistent, SCHEMA_VERSION
  <2>4. todo'[b] = <<"user_version">> /\ pc'[b] = "running"
    BY <1>6, <1>p, Tails
  <2> QED BY <1>p, <2>2, <2>3, <2>4 DEF OpenerConsistent, Programs
<1>7. CASE todo[b] = <<"user_version">> /\ Full(disk)
  <2>1. disk' = [disk EXCEPT !.version = SCHEMA_VERSION] BY <1>7 DEF Execute
  <2>2. Towards BY <1>7, <1>t, <2>1 DEF Towards, FileConsistent, SCHEMA_VERSION
  <2>3. disk'.version = SCHEMA_VERSION BY <2>1, <1>t DEF FileConsistent
  <2>4. todo'[b] = <<>> /\ pc'[b] = "open" BY <1>7, <1>p, Tails
  <2> QED BY <1>p, <2>2, <2>3, <2>4 DEF OpenerConsistent, Programs
<1> QED BY <1>2, <1>3, <1>4, <1>5, <1>6, <1>7, <1>t DEF OpenerConsistent, InstallingFrom

\* Every other step keeps the invariant.
LEMMA OpenStep == ASSUME OpenInv, ~mistaken', [Next]_vars PROVE OpenInv'
<1>1. CASE UNCHANGED vars
  BY <1>1 DEF vars, OpenInv, FileConsistent, OpenerConsistent, InstallingFrom
<1>2. ASSUME NEW b \in Backends, Start(b) PROVE OpenInv'
  <2>1. pc' = [pc EXCEPT ![b] = "opening"] /\ UNCHANGED <<disk, todo>>
    BY <1>2 DEF Start
  <2>2. todo' = [todo EXCEPT ![b] = todo[b]] /\ todo[b] \in Programs
    BY <2>1 DEF OpenInv
  <2>3. OpenerConsistent(b)' BY <2>1 DEF OpenInv, OpenerConsistent
  <2> QED BY <2>1, <2>2, <2>3, LocalStep DEF Stages
<1>3. ASSUME NEW b \in Backends, ReadVersion(b) PROVE OpenInv'
  BY <1>3, ReadVersionStep
<1>4. ASSUME NEW b \in Backends, Exec(b) PROVE OpenInv'
  <2>1. CASE Refused(b, Head(todo[b]))
    BY <1>4, <2>1, DieStep DEF Exec
  <2>2. CASE ~Refused(b, Head(todo[b]))
    BY <1>4, <2>2, ExecuteStep DEF Exec
  <2> QED BY <2>1, <2>2
<1>5. ASSUME NEW b \in Backends, StatementFails(b) PROVE OpenInv'
  BY <1>5, DieStep DEF StatementFails
<1>6. ASSUME NEW b \in Backends, Killed(b) \/ SessionEnds(b) PROVE OpenInv'
  BY <1>6, CloseStep DEF Killed, SessionEnds
<1> QED BY <1>1, <1>2, <1>3, <1>4, <1>5, <1>6 DEF Next

\* A mistake is not forgotten.
LEMMA MistakenStays == ASSUME mistaken, [Next]_vars PROVE mistaken'
BY DEF Next, vars, Start, ReadVersion, Exec, StatementFails, Killed, SessionEnds

\* The invariant holds until then.
LEMMA OpenInvariant == Spec => []Sound
<1>1. Init => Sound BY OpenInit DEF Sound
<1>2. Sound /\ [Next]_vars => Sound' BY OpenStep, MistakenStays DEF Sound
<1> QED BY <1>1, <1>2, PTL DEF Spec

\* open_conn returns only connections to a file of exactly this schema, and no
\* file ends up between two versions: for any number of backends installing or
\* migrating at once, any version found, any statement failing and any backend
\* killed - until the step of PRAGMA user_version fails in a file of another
\* version, which the code then takes for version 0.
THEOREM OpensUsable == Spec => []OpenUsable
<1>1. Sound => OpenUsable
  BY DEF Sound, OpenInv, FileConsistent, OpenerConsistent, OpenUsable, SCHEMA_VERSION
<1> QED BY <1>1, OpenInvariant, PTL

\* The other half of the same promise, with the same proviso: a file newer than
\* the code is not changed by any opener.
THEOREM NewerFilesRefused == Spec => NewerRefused
<1>1. ASSUME Sound, [Next]_vars, disk.version > SCHEMA_VERSION /\ ~mistaken
      PROVE  disk' = disk
  <2>0. OpenInv BY <1>1 DEF Sound
  <2>1. disk.version \in Nat BY <2>0 DEF OpenInv, FileConsistent
  <2>2. ASSUME NEW b \in Backends, Exec(b) PROVE disk' = disk
    <3>1. pc[b] = "running" /\ OpenerConsistent(b) BY <2>0, <2>2 DEF Exec, OpenInv
    <3> QED BY <1>1, <2>1, <3>1 DEF OpenerConsistent, SCHEMA_VERSION
  <2> QED BY <1>1, <2>2
        DEF Next, vars, Start, ReadVersion, StatementFails, Killed, SessionEnds
<1> QED BY <1>1, OpenInvariant, PTL DEF Spec, NewerRefused
=============================================================================
