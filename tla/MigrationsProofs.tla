--------------------------- MODULE MigrationsProofs ---------------------------
(***************************************************************************)
(* Starting: Migrations keeps its invariant for every number of processes, *)
(* of migrations and of statements, and whatever fails; and Host, which    *)
(* begins where a migrated database is, loses nothing that was stored.     *)
(***************************************************************************)
EXTENDS Migrations, Host, TLAPS

\* The first start finds an empty database, and nobody in a transaction.
LEMMA InitInv == Init => Inv
<1> USE MigrationsAssumption
<1> SUFFICES ASSUME Init PROVE Inv
    OBVIOUS
<1>1. TypeOK
  BY DEF Init, TypeOK, Databases, Empty, Phases
<1>2. disk.recorded = {} /\ disk.schema = {}
  BY DEF Init, Empty
<1>3. RecordedInOrder /\ SchemaFollowsRecord
  BY <1>2 DEF RecordedInOrder, SchemaFollowsRecord
<1>4. LockHeld /\ Behind /\ WorkAhead
  BY <1>2 DEF Init, LockHeld, Behind, WorkAhead, InTx
<1> QED
  BY <1>1, <1>3, <1>4 DEF Inv

\* Steps that leave the database and every transaction alone, and move one
\* process outside of a transaction.
LEMMA OutsideInv ==
  ASSUME Inv, NEW p \in Processes, Open(p) \/ ReadApplied(p) \/ Skip(p)
  PROVE  Inv'
<1> USE MigrationsAssumption
<1>1. TypeOK'
  <2>1. CASE Open(p)
    BY <2>1 DEF Inv, TypeOK, Open, Phases, Databases
  <2>2. CASE ReadApplied(p)
    BY <2>2 DEF Inv, TypeOK, ReadApplied, Phases, Databases
  <2>3. CASE Skip(p)
    BY <2>3 DEF Inv, TypeOK, Skip, Phases, Databases
  <2> QED
    BY <2>1, <2>2, <2>3
<1>2. UNCHANGED <<disk, lock, work, stmt>>
  BY DEF Open, ReadApplied, Skip
<1>3. (RecordedInOrder /\ SchemaFollowsRecord)'
  BY <1>2 DEF Inv, RecordedInOrder, SchemaFollowsRecord
<1>4. /\ \A q \in Processes \ {p} : /\ phase'[q] = phase[q]
                                    /\ next'[q] = next[q]
                                    /\ applied'[q] = applied[q]
      /\ phase[p] \notin InTx /\ phase'[p] \notin InTx
      /\ phase'[p] \notin {"applying", "recorded", "serving"}
  BY DEF Inv, TypeOK, Open, ReadApplied, Skip, InTx
<1>5. (LockHeld /\ WorkAhead)'
  BY <1>2, <1>4 DEF Inv, LockHeld, WorkAhead, InTx
<1>6. Behind'
  <2>1. CASE Open(p)
    BY <1>2, <1>4, <2>1 DEF Inv, TypeOK, Behind, Open, InTx
  <2>2. CASE ReadApplied(p)
    <3>1. /\ applied'[p] = disk.recorded /\ next'[p] = 1 /\ phase'[p] = "ready"
      BY <2>2 DEF Inv, TypeOK, ReadApplied
    <3> QED
      BY <1>2, <1>4, <3>1 DEF Inv, TypeOK, Behind, InTx
  <2>3. CASE Skip(p)
    <3>1. /\ applied'[p] = applied[p] /\ phase'[p] = "ready" /\ phase[p] = "ready"
          /\ next'[p] = next[p] + 1 /\ next[p] \in applied[p] /\ next[p] \in Nat
      BY <2>3 DEF Inv, TypeOK, Skip
    <3>2. \A m \in 1..Last : m < next'[p] => m \in disk.recorded
      BY <3>1 DEF Inv, Behind
    <3> QED
      BY <1>2, <1>4, <3>1, <3>2 DEF Inv, TypeOK, Behind, InTx
  <2> QED
    BY <2>1, <2>2, <2>3
<1> QED
  BY <1>1, <1>3, <1>5, <1>6 DEF Inv

\* A transaction begins with what is committed.
LEMMA BeginInv ==
  ASSUME Inv, NEW p \in Processes, Begin(p)
  PROVE  Inv'
<1> USE MigrationsAssumption
<1>1. TypeOK'
  BY DEF Inv, TypeOK, Begin, Phases, Databases
<1>2. /\ disk' = disk /\ work' = disk /\ next' = next /\ applied' = applied
      /\ lock = NoProcess /\ lock' = p
      /\ phase[p] = "ready" /\ next[p] <= Last
      /\ \A q \in Processes : /\ phase'[q] = IF q = p THEN "applying" ELSE phase[q]
                              /\ stmt'[q] = IF q = p THEN 1 ELSE stmt[q]
  BY DEF Inv, TypeOK, Begin, Pending
<1>3. (RecordedInOrder /\ SchemaFollowsRecord)'
  BY <1>2 DEF Inv, RecordedInOrder, SchemaFollowsRecord
<1>4. \A q \in Processes : phase[q] \notin InTx
  BY <1>2 DEF Inv, LockHeld
<1>5. LockHeld'
  BY <1>2, <1>4 DEF LockHeld, InTx
<1>6. Behind'
  BY <1>2 DEF Inv, Behind, InTx
<1>7. WorkAhead'
  BY <1>2, <1>4 DEF WorkAhead, InTx
<1> QED
  BY <1>1, <1>3, <1>5, <1>6, <1>7 DEF Inv

\* The steps of a transaction before its commit touch only what its holder sees.
LEMMA WorkInv ==
  ASSUME Inv, NEW p \in Processes, Execute(p) \/ Record(p)
  PROVE  Inv'
<1> USE MigrationsAssumption
<1>1. /\ phase[p] = "applying" /\ phase'[p] \in InTx
      /\ \A q \in Processes \ {p} : phase'[q] = phase[q] /\ stmt'[q] = stmt[q]
      /\ UNCHANGED <<disk, lock, applied, next>>
      /\ work'.seeded = work.seeded
  BY DEF Inv, TypeOK, Execute, Record, InTx, Databases
<1>2. next[p] \in 1..Last /\ stmt[p] \in 1..(Statements + 1)
  BY <1>1 DEF Inv, Behind, TypeOK, InTx
<1>3. TypeOK'
  <2>1. work' \in Databases
    BY <1>2 DEF Inv, TypeOK, Execute, Record, Databases
  <2>2. stmt' \in [Processes -> 1..(Statements + 1)]
    BY <1>2 DEF Inv, TypeOK, Execute, Record
  <2> QED
    BY <1>1, <2>1, <2>2 DEF Inv, TypeOK, Execute, Record, Phases
<1>4. (RecordedInOrder /\ SchemaFollowsRecord /\ LockHeld)'
  BY <1>1 DEF Inv, RecordedInOrder, SchemaFollowsRecord, LockHeld, InTx
<1>5. Behind'
  BY <1>1 DEF Inv, Behind, InTx
<1>6. \A q \in Processes \ {p} : phase'[q] \notin InTx
  BY <1>1 DEF Inv, LockHeld, InTx
<1>7. WorkAhead'
  <2>1. CASE Execute(p)
    <3>1. /\ work'.schema = work.schema \cup {<<next[p], stmt[p]>>}
          /\ work'.recorded = work.recorded
          /\ stmt'[p] = stmt[p] + 1 /\ phase'[p] = "applying"
      BY <2>1 DEF Inv, TypeOK, Databases, Execute
    <3>2. 1..(stmt'[p] - 1) = 1..(stmt[p] - 1) \cup {stmt[p]}
      BY <1>2, <3>1
    <3>3. work'.schema = disk.schema \cup {<<next[p], s>> : s \in 1..(stmt'[p] - 1)}
      BY <1>1, <3>1, <3>2 DEF Inv, WorkAhead
    <3> QED
      BY <1>1, <1>6, <3>1, <3>3 DEF Inv, WorkAhead, InTx
  <2>2. CASE Record(p)
    <3>1. /\ work'.recorded = work.recorded \cup {next[p]}
          /\ work'.schema = work.schema
          /\ stmt[p] = Statements + 1 /\ phase'[p] = "recorded"
      BY <2>2 DEF Inv, TypeOK, Databases, Record
    <3>2. 1..(stmt[p] - 1) = 1..Statements
      BY <3>1
    <3> QED
      BY <1>1, <1>6, <3>1, <3>2 DEF Inv, WorkAhead, InTx
  <2> QED
    BY <2>1, <2>2
<1> QED
  BY <1>3, <1>4, <1>5, <1>7 DEF Inv

\* A commit adds one migration, whole, and the next in order.
LEMMA CommitInv ==
  ASSUME Inv, NEW p \in Processes, Commit(p)
  PROVE  Inv'
<1> USE MigrationsAssumption
<1>1. /\ phase[p] = "recorded" /\ lock = p /\ lock' = NoProcess
      /\ disk' = work /\ work' = work /\ UNCHANGED <<applied, stmt>>
      /\ \A q \in Processes : /\ phase'[q] = IF q = p THEN "ready" ELSE phase[q]
                              /\ next'[q] = IF q = p THEN next[p] + 1 ELSE next[q]
  BY DEF Inv, TypeOK, Commit, LockHeld, InTx
<1>2. next[p] \in 1..Last
  BY <1>1 DEF Inv, Behind, TypeOK, InTx
<1>3. /\ work.recorded = disk.recorded \cup {next[p]}
      /\ work.schema = disk.schema \cup {<<next[p], s>> : s \in 1..Statements}
      /\ work.seeded = disk.seeded
  BY <1>1 DEF Inv, WorkAhead, InTx
<1>4. TypeOK'
  BY <1>1, <1>2 DEF Inv, TypeOK, Phases, Commit
<1>5. RecordedInOrder'
  <2>1. \A l \in 1..next[p] : l \in disk.recorded \cup {next[p]}
    BY <1>1, <1>2 DEF Inv, Behind
  <2> QED
    BY <1>1, <1>3, <2>1 DEF Inv, RecordedInOrder
<1>6. SchemaFollowsRecord'
  BY <1>1, <1>3 DEF Inv, SchemaFollowsRecord
<1>7. \A q \in Processes \ {p} : phase[q] \notin InTx
  BY <1>1 DEF Inv, LockHeld
<1>8. LockHeld'
  BY <1>1, <1>7 DEF LockHeld, InTx
<1>9. Behind'
  <2>1. \A m \in 1..Last : m < next'[p] => m \in disk'.recorded
    BY <1>1, <1>2, <1>3 DEF Inv, Behind
  <2>2. \A q \in Processes : applied'[q] \subseteq disk'.recorded
    BY <1>1, <1>3 DEF Inv, Behind
  <2> QED
    BY <1>1, <1>3, <1>7, <2>1, <2>2 DEF Inv, Behind, InTx
<1>10. WorkAhead'
  BY <1>1, <1>7 DEF WorkAhead, InTx
<1> QED
  BY <1>4, <1>5, <1>6, <1>8, <1>9, <1>10 DEF Inv

\* Serving begins when the loop has come past the last migration.
LEMMA ServeInv ==
  ASSUME Inv, NEW p \in Processes, Serve(p)
  PROVE  Inv'
<1> USE MigrationsAssumption
<1>1. /\ phase[p] = "ready" /\ next[p] > Last
      /\ disk'.recorded = disk.recorded /\ disk'.schema = disk.schema
      /\ disk'.seeded = (disk.seeded \/ Seeding)
      /\ Seeding => lock = NoProcess
      /\ UNCHANGED <<lock, work, applied, next, stmt>>
      /\ \A q \in Processes : phase'[q] = IF q = p THEN "serving" ELSE phase[q]
  BY DEF Inv, TypeOK, Databases, Serve
<1>2. TypeOK'
  BY DEF Inv, TypeOK, Databases, Serve, Phases
<1>3. (RecordedInOrder /\ SchemaFollowsRecord /\ LockHeld)'
  BY <1>1 DEF Inv, RecordedInOrder, SchemaFollowsRecord, LockHeld, InTx
<1>4. Behind'
  BY <1>1 DEF Inv, Behind, InTx
<1>5. WorkAhead'
  <2>1. \A q \in Processes : phase'[q] \in InTx => disk'.seeded = disk.seeded
    <3>1. CASE Seeding
      BY <1>1, <3>1 DEF Inv, LockHeld, InTx
    <3>2. CASE ~Seeding
      BY <1>1, <3>2 DEF Inv, TypeOK, Databases
    <3> QED
      BY <3>1, <3>2
  <2> QED
    BY <1>1, <2>1 DEF Inv, WorkAhead, InTx
<1> QED
  BY <1>2, <1>3, <1>4, <1>5 DEF Inv

\* A process that ends, in whatever way, leaves the database as it was.
LEMMA ExitInv ==
  ASSUME Inv, NEW p \in Processes, Exit(p), faults' \in Nat
  PROVE  Inv'
<1> USE MigrationsAssumption
<1>1. /\ UNCHANGED <<disk, work, applied, next, stmt>>
      /\ lock' = IF lock = p THEN NoProcess ELSE lock
      /\ \A q \in Processes : phase'[q] = IF q = p THEN "down" ELSE phase[q]
  BY DEF Inv, TypeOK, Exit
<1>2. TypeOK'
  BY <1>1 DEF Inv, TypeOK, Exit, Phases
<1>3. (RecordedInOrder /\ SchemaFollowsRecord)'
  BY <1>1 DEF Inv, RecordedInOrder, SchemaFollowsRecord
<1>4. LockHeld'
  BY <1>1 DEF Inv, LockHeld, InTx
<1>5. Behind'
  BY <1>1 DEF Inv, Behind, InTx
<1>6. WorkAhead'
  BY <1>1 DEF Inv, WorkAhead, InTx
<1> QED
  BY <1>2, <1>3, <1>4, <1>5, <1>6 DEF Inv

\* Every step keeps the invariant.
LEMMA NextInv == Inv /\ [Next]_vars => Inv'
<1> USE MigrationsAssumption
<1> SUFFICES ASSUME Inv, [Next]_vars PROVE Inv'
    OBVIOUS
<1>1. CASE UNCHANGED vars
  BY <1>1 DEF vars, Inv, TypeOK, RecordedInOrder, SchemaFollowsRecord, LockHeld, Behind,
              WorkAhead
<1>2. ASSUME NEW p \in Processes, Step(p)
      PROVE  Inv'
  <2>1. CASE Open(p) \/ ReadApplied(p) \/ Skip(p)
    BY <2>1, OutsideInv
  <2>2. CASE Begin(p)
    BY <2>2, BeginInv
  <2>3. CASE Execute(p) \/ Record(p)
    BY <2>3, WorkInv
  <2>4. CASE Commit(p)
    BY <2>4, CommitInv
  <2>5. CASE Serve(p)
    BY <2>5, ServeInv
  <2>6. CASE RecordConflicts(p)
    BY <2>6, ExitInv DEF RecordConflicts, Inv, TypeOK
  <2> QED
    BY <1>2, <2>1, <2>2, <2>3, <2>4, <2>5, <2>6 DEF Step
<1>3. ASSUME NEW p \in Processes, Busy(p) \/ Fault(p)
      PROVE  Inv'
  <2>1. Exit(p) /\ faults' \in Nat
    BY <1>3 DEF Busy, Fault, Inv, TypeOK
  <2> QED
    BY <2>1, ExitInv
<1> QED
  BY <1>1, <1>2, <1>3 DEF Next

\* Migrations.Inv: types, the lock, and the parts below, whoever starts when.
THEOREM InvHolds == Spec => []Inv
<1>1. Init => Inv
  BY InitInv
<1>2. Inv /\ [Next]_vars => Inv'
  BY NextInv
<1> QED
  BY <1>1, <1>2, PTL DEF Spec

\* The schema is, at every moment, that of the recorded migrations: no crash and
\* no second process leaves half of one behind.
THEOREM SchemaFollowsRecordHolds == Spec => []SchemaFollowsRecord
<1>1. Inv => SchemaFollowsRecord
  BY DEF Inv
<1> QED
  BY <1>1, InvHolds, PTL

\* Migrations are recorded in their order, whichever process applies which.
THEOREM RecordedInOrderHolds == Spec => []RecordedInOrder
<1>1. Inv => RecordedInOrder
  BY DEF Inv
<1> QED
  BY <1>1, InvHolds, PTL

\* A process that serves requests does so on the complete, and seeded, database.
THEOREM ServesMigratedHolds == Spec => []ServesMigrated
<1>1. Inv => ServesMigrated
  <2> SUFFICES ASSUME Inv, NEW p \in Processes, phase[p] = "serving"
               PROVE  disk.recorded = 1..Last /\ (Seeding => disk.seeded)
    BY DEF ServesMigrated
  <2>1. next[p] > Last /\ next[p] \in Nat /\ (Seeding => disk.seeded)
    BY DEF Inv, Behind, TypeOK
  <2>2. \A m \in 1..Last : m \in disk.recorded
    BY <2>1, MigrationsAssumption DEF Inv, Behind
  <2>3. disk.recorded \subseteq 1..Last
    BY DEF Inv, TypeOK, Databases
  <2> QED
    BY <2>1, <2>2, <2>3
<1> QED
  BY <1>1, InvHolds, PTL

-----------------------------------------------------------------------------
(***************************************************************************)
(* The hosts: for any processes, any options they are started with, and    *)
(* any rows, nothing that an editor was told is stored is lost to restarts *)
(* and seeds.                                                              *)
(***************************************************************************)
Seeds == [at : {"seeding"}, options : Choices, left : SUBSET SeedRows, rows : Contents,
          late : SUBSET SeedRows]
Opens == [at : {"opened", "serving"}, options : Choices]

\* Nobody edits a row that a seed under way has written: the file is locked.
NothingLate == \A h \in Hosts : IsSeeding(h) => host[h].late = {}

\* A host that was told to seed has the seed's rows from the moment it has opened
\* its storage.
OpenedSiteIsWhole ==
  \A h \in Hosts :
    host[h] \in Opens /\ host[h].options.seed /\ host[h].options.storage # "port" =>
      \A r \in SeedRows : Rows(h)[r] # NoRow

\* A seed that has written a row of the file has the file for itself.
Writing(h) ==
  IsSeeding(h) /\ host[h].left # SeedRows /\ host[h].options.storage = "file"

OneWriter == \A g, h \in Hosts : Writing(g) /\ Writing(h) => g = h

\* What the transaction of a seed sees is what is committed, but for the rows it wrote.
SeedsApart ==
  \A h \in Hosts : IsSeeding(h) =>
    /\ host[h].options.storage # "port"
    /\ host[h].left # SeedRows =>
         \A r \in RowIds :
           host[h].rows[r] = IF r \in SeedRows \ host[h].left THEN Seed ELSE Rows(h)[r]

HostsInv ==
  HostTypeOK /\ NothingLate /\ OneWriter /\ SeedsApart /\ EditsSurvive /\ OpenedSiteIsWhole

\* A process is down, seeding, or has opened its storage.
LEMMA HostKinds ==
  ASSUME HostTypeOK, NEW h \in Hosts
  PROVE  /\ host[h] \in Seeds \cup Opens \cup {Down}
         /\ IsSeeding(h) <=> host[h] \in Seeds
         /\ host[h].at \in {"opened", "serving"} <=> host[h] \in Opens
         /\ host[h] # Down =>
              /\ host[h].options \in Options
              /\ host[h].options.storage \in {"file", "port", "memory"}
         /\ host[h] \in Seeds \cup Opens => host[h] # Down
<1>1. host[h] \in Seeds \cup Opens \cup {Down}
  BY DEF HostTypeOK, Up, Seeds, Opens
<1>2. host[h] # Down => host[h].options \in Options
  BY <1>1, HostAssumption DEF Seeds, Opens
<1>3. host[h].options \in Options => host[h].options.storage \in {"file", "port", "memory"}
  BY DEF Options
<1>4. /\ IsSeeding(h) <=> host[h] \in Seeds
      /\ host[h].at \in {"opened", "serving"} <=> host[h] \in Opens
      /\ host[h] \in Seeds \cup Opens => host[h] # Down
  BY <1>1 DEF Seeds, Opens, Down, IsSeeding
<1> QED
  BY <1>1, <1>2, <1>3, <1>4

\* What does not touch the storage of a process leaves its rows.
LEMMA HostSameRows ==
  ASSUME HostTypeOK, NEW h \in Hosts, host[h] # Down, host'[h].options = host[h].options,
         UNCHANGED <<file, port>>, memory'[h] = memory[h]
  PROVE  Rows(h)' = Rows(h)
<1>1. host[h].options.storage \in {"file", "port", "memory"}
  BY HostKinds
<1> QED
  BY <1>1 DEF Rows

\* A step that leaves another process and its storage alone leaves its seed apart.
LEMMA OtherSeedsApart ==
  ASSUME HostsInv, NEW g \in Hosts, host'[g] = host[g],
         IsSeeding(g) /\ host[g].left # SeedRows => Rows(g)' = Rows(g)
  PROVE  IsSeeding(g)' =>
           /\ host'[g].options.storage # "port"
           /\ host'[g].left # SeedRows =>
                \A r \in RowIds :
                  host'[g].rows[r] = IF r \in SeedRows \ host'[g].left THEN Seed ELSE Rows(g)'[r]
BY DEF HostsInv, SeedsApart, IsSeeding

\* A step in which no process writes that did not write before keeps a single writer.
LEMMA NoNewWriter ==
  ASSUME HostsInv, \A g \in Hosts : Writing(g)' => Writing(g)
  PROVE  OneWriter'
BY DEF HostsInv, OneWriter

\* No process is up and nothing is stored.
LEMMA HostsInitInv == HostInit => HostsInv
<1> SUFFICES ASSUME HostInit PROVE HostsInv
  OBVIOUS
<1>1. \A h \in Hosts : host[h] = Down
  BY DEF HostInit
<1>2. NoRows \in Contents
  BY DEF NoRows, Contents
<1>3. host \in [Hosts -> Up \cup {Down}] /\ memory \in [Hosts -> Contents]
  BY <1>2 DEF HostInit
<1>4. file \in Contents /\ port \in Contents /\ last \in [{"file", "port"} -> Contents]
  BY <1>2 DEF HostInit
<1>5. HostTypeOK
  BY <1>3, <1>4, HostAssumption DEF HostInit, HostTypeOK
<1>6. NothingLate /\ OneWriter /\ SeedsApart /\ OpenedSiteIsWhole
  BY <1>1 DEF NothingLate, OneWriter, Writing, SeedsApart, OpenedSiteIsWhole, IsSeeding, Down, Opens
<1>7. EditsSurvive
  BY DEF HostInit, EditsSurvive
<1> QED
  BY <1>5, <1>6, <1>7 DEF HostsInv

-----------------------------------------------------------------------------
\* A host that opens its storage and is not to seed it adds no obligation.
LEMMA HostsOpenInv ==
  ASSUME HostsInv, NEW h \in Hosts, NEW o \in Choices, OpenHost(h, o)
  PROVE  HostsInv'
<1> DEFINE new == IF o.seed /\ o.storage # "port"
                  THEN [at |-> "seeding", options |-> o, left |-> SeedRows, rows |-> NoRows,
                        late |-> {}]
                  ELSE [at |-> "opened", options |-> o]
<1>1. /\ \A g \in Hosts : host'[g] = IF g = h THEN new ELSE host[g]
      /\ UNCHANGED <<file, port, memory, last, edits>>
      /\ host[h] = Down
  BY DEF OpenHost, HostsInv, HostTypeOK
<1>2. new \in Up
  <2>1. NoRows \in Contents
    BY DEF NoRows, Contents
  <2> QED  BY <2>1 DEF Up
<1>3. HostTypeOK'
  <2>1. host' \in [Hosts -> Up \cup {Down}]
    BY <1>2 DEF OpenHost, HostsInv, HostTypeOK
  <2>2. new # Down
    BY DEF Down
  <2> QED  BY <1>1, <2>1, <2>2 DEF HostsInv, HostTypeOK
<1>4. NothingLate'
  BY <1>1 DEF HostsInv, NothingLate, IsSeeding
<1>5. EditsSurvive'
  BY <1>1 DEF HostsInv, EditsSurvive
<1>6. OpenedSiteIsWhole'
  <2> SUFFICES ASSUME NEW g \in Hosts, host'[g] \in Opens, host'[g].options.seed,
                      host'[g].options.storage # "port", NEW r \in SeedRows
               PROVE  Rows(g)'[r] # NoRow
    BY DEF OpenedSiteIsWhole, Opens
  <2>1. g # h
    BY <1>1 DEF Opens
  <2> QED  BY <1>1, <2>1 DEF HostsInv, OpenedSiteIsWhole, Rows
<1>7. OneWriter'
  <2>1. \A g \in Hosts : Writing(g)' => Writing(g)
    BY <1>1 DEF Writing, IsSeeding
  <2> QED  BY <2>1, NoNewWriter
<1>8. SeedsApart'
  <2> SUFFICES ASSUME NEW g \in Hosts, IsSeeding(g)'
               PROVE  /\ host'[g].options.storage # "port"
                      /\ host'[g].left # SeedRows => \A r \in RowIds :
                           host'[g].rows[r] =
                             IF r \in SeedRows \ host'[g].left THEN Seed ELSE Rows(g)'[r]
    BY DEF SeedsApart, IsSeeding
  <2>1. CASE g = h
    BY <1>1, <2>1 DEF IsSeeding
  <2>2. CASE g # h
    BY <1>1, <2>2, OtherSeedsApart DEF Rows
  <2> QED  BY <2>1, <2>2
<1> QED
  BY <1>3, <1>4, <1>5, <1>6, <1>7, <1>8 DEF HostsInv

\* A row of the seed that is put is in the transaction only, which nobody else has.
LEMMA PutSeedInv ==
  ASSUME HostsInv, NEW h \in Hosts, NEW r \in SeedRows, PutSeed(h, r)
  PROVE  HostsInv'
<1>1. host[h] \in Seeds /\ r \in host[h].left /\ r \in RowIds
  BY HostKinds DEF HostsInv, PutSeed, RowIds
<1>2. host[h].options.storage \in {"file", "memory"}
  BY <1>1, HostKinds DEF HostsInv, SeedsApart
<1>3. Rows(h) \in Contents
  BY <1>2 DEF HostsInv, HostTypeOK, Rows
<1>4. Seen(h) \in Contents
  BY <1>1, <1>3 DEF Seen, Seeds
<1> DEFINE rows == [Seen(h) EXCEPT ![r] = Seed]
           new == [host[h] EXCEPT !.left = @ \ {r}, !.rows = rows]
<1>5. rows \in Contents /\ \A s \in RowIds : rows[s] = IF s = r THEN Seed ELSE Seen(h)[s]
  BY <1>4 DEF Contents
<1>6. /\ host' = [host EXCEPT ![h] = new]
      /\ UNCHANGED <<file, port, memory, last, edits>>
  BY DEF PutSeed, PutRow
<1> HIDE DEF rows
<1>7. /\ new \in Seeds /\ new \in Up /\ new # Down /\ new.late = host[h].late /\ new \notin Opens
      /\ new.left = host[h].left \ {r} /\ new.rows = rows /\ new.options = host[h].options
  BY <1>1, <1>5 DEF Seeds, Opens, Up, Down
<1> HIDE DEF new
<1>8. \A g \in Hosts : host'[g] = IF g = h THEN new ELSE host[g]
  BY <1>6 DEF HostsInv, HostTypeOK
<1>9. HostTypeOK'
  <2>1. host' \in [Hosts -> Up \cup {Down}]
    BY <1>6, <1>7 DEF HostsInv, HostTypeOK
  <2> QED  BY <1>6, <1>7, <1>8, <2>1 DEF HostsInv, HostTypeOK
<1>10. NothingLate'
  BY <1>7, <1>8 DEF HostsInv, NothingLate, IsSeeding, PutSeed
<1>11. EditsSurvive'
  BY <1>6 DEF HostsInv, EditsSurvive
<1>12. OpenedSiteIsWhole'
  <2> SUFFICES ASSUME NEW g \in Hosts, host'[g] \in Opens, host'[g].options.seed,
                      host'[g].options.storage # "port", NEW s \in SeedRows
               PROVE  Rows(g)'[s] # NoRow
    BY DEF OpenedSiteIsWhole, Opens
  <2>1. g # h
    BY <1>7, <1>8
  <2>2. host[g] = host'[g] /\ Rows(g)' = Rows(g)
    BY <1>6, <1>8, <2>1 DEF Rows
  <2> QED  BY <2>2 DEF HostsInv, OpenedSiteIsWhole
<1>13. OneWriter'
  <2>1. ASSUME NEW g \in Hosts, g # h, Writing(g)', host[h].options.storage = "file"
        PROVE  FALSE
    BY <1>8, <2>1 DEF Writing, IsSeeding, PutSeed, Locked
  <2>2. CASE host[h].options.storage = "file"
    BY <2>1, <2>2 DEF OneWriter
  <2>3. CASE host[h].options.storage # "file"
    <3>1. \A g \in Hosts : Writing(g)' => Writing(g)
      BY <1>7, <1>8, <2>3 DEF Writing, IsSeeding
    <3> QED  BY <3>1, NoNewWriter
  <2> QED  BY <2>2, <2>3
<1>14. SeedsApart'
  <2> SUFFICES ASSUME NEW g \in Hosts, IsSeeding(g)'
               PROVE  /\ host'[g].options.storage # "port"
                      /\ host'[g].left # SeedRows => \A s \in RowIds :
                           host'[g].rows[s] =
                             IF s \in SeedRows \ host'[g].left THEN Seed ELSE Rows(g)'[s]
    BY DEF SeedsApart, IsSeeding
  <2>1. CASE g = h
    <3>1. Rows(h)' = Rows(h)
      BY <1>6, <1>7, <1>8 DEF Rows
    <3>2. ASSUME NEW s \in RowIds
          PROVE  Seen(h)[s] = IF s \in SeedRows \ host[h].left THEN Seed ELSE Rows(h)[s]
      BY <1>1 DEF Seen, HostsInv, SeedsApart, PutSeed
    <3>3. ASSUME NEW s \in RowIds
          PROVE  rows[s] = IF s \in SeedRows \ (host[h].left \ {r}) THEN Seed ELSE Rows(h)[s]
      BY <1>1, <1>5, <3>2
    <3>4. host'[g] = new /\ new.options.storage # "port"
      BY <1>2, <1>7, <1>8, <2>1
    <3> QED  BY <1>7, <2>1, <3>1, <3>3, <3>4
  <2>2. CASE g # h
    BY <1>6, <1>8, <2>2, OtherSeedsApart DEF Rows
  <2> QED  BY <2>1, <2>2
<1> QED
  BY <1>9, <1>10, <1>11, <1>12, <1>13, <1>14 DEF HostsInv

\* A seed that commits leaves its rows, and the others as they were.
LEMMA CommitSeedInv ==
  ASSUME HostsInv, NEW h \in Hosts, CommitSeed(h)
  PROVE  HostsInv'
<1>1. /\ host[h] \in Seeds /\ host[h].late = {}
      /\ host[h].options.storage \in {"file", "port", "memory"}
  BY HostKinds DEF HostsInv, CommitSeed, NothingLate
<1> DEFINE new == [at |-> "opened", options |-> host[h].options]
           seeded(rows) == [r \in RowIds |-> IF r \in SeedRows THEN Seed ELSE rows[r]]
<1>2. \A g \in Hosts : host'[g] = IF g = h THEN new ELSE host[g]
  BY DEF CommitSeed, HostsInv, HostTypeOK
<1>3. new \in Opens /\ new \in Up /\ new # Down
  BY <1>1 DEF Seeds, Opens, Up, Down
<1>4. Seed # NoRow /\ SeedRows \subseteq RowIds
  BY HostAssumption DEF RowIds
<1>5. ASSUME NEW rows \in Contents
      PROVE  /\ seeded(rows) \in Contents
             /\ \A r \in SeedRows : seeded(rows)[r] = Seed
             /\ \A r \in SeedRows : rows[r] # NoRow => seeded(rows)[r] # NoRow
  BY <1>4 DEF Contents
<1>6. /\ file \in Contents /\ port \in Contents /\ memory \in [Hosts -> Contents]
      /\ last \in [{"file", "port"} -> Contents] /\ file = last["file"] /\ port = last["port"]
  BY DEF HostsInv, HostTypeOK, EditsSurvive
<1>7. UNCHANGED <<port, edits>>
  BY DEF CommitSeed
<1>8. host[h].rows = seeded(Rows(h))
  <2>1. \A r \in RowIds : host[h].rows[r] = IF r \in SeedRows THEN Seed ELSE Rows(h)[r]
    BY HostAssumption DEF CommitSeed, HostsInv, SeedsApart
  <2>2. host[h].rows = [r \in RowIds |-> host[h].rows[r]]
    BY <1>1 DEF Seeds, Contents
  <2> QED  BY <2>1, <2>2
<1>9. OneWriter'
  <2>1. \A g \in Hosts : Writing(g)' => Writing(g)
    BY <1>2, <1>3 DEF Writing, IsSeeding, Opens
  <2> QED  BY <2>1, NoNewWriter
<1>10. SeedsApart'
  <2> SUFFICES ASSUME NEW g \in Hosts, IsSeeding(g)'
               PROVE  /\ host'[g].options.storage # "port"
                      /\ host'[g].left # SeedRows => \A s \in RowIds :
                           host'[g].rows[s] =
                             IF s \in SeedRows \ host'[g].left THEN Seed ELSE Rows(g)'[s]
    BY DEF SeedsApart, IsSeeding
  <2>1. g # h /\ host'[g] = host[g]
    BY <1>2, <1>3 DEF IsSeeding, Opens
  <2>2. ASSUME IsSeeding(g), host[g].left # SeedRows
        PROVE  Rows(g)' = Rows(g)
    <3>1. host[g].options.storage \in {"file", "memory"}
      BY <2>2, HostKinds DEF HostsInv, SeedsApart
    <3>2. CASE host[g].options.storage = "file"
      <4>1. host[h].options.storage # "file"
        BY <2>1, <2>2, <3>2, HostAssumption
           DEF HostsInv, OneWriter, Writing, CommitSeed
      <4> QED  BY <2>1, <3>2, <4>1 DEF CommitSeed, Rows
    <3>3. CASE host[g].options.storage = "memory"
      <4>1. memory'[g] = memory[g]
        BY <1>6, <2>1 DEF CommitSeed
      <4> QED  BY <2>1, <3>3, <4>1 DEF Rows
    <3> QED  BY <3>1, <3>2, <3>3
  <2> QED  BY <2>1, <2>2, OtherSeedsApart
<1>11. CASE host[h].options.storage = "file"
  <2>1. file' = seeded(file) /\ UNCHANGED memory
    BY <1>11, <1>8 DEF CommitSeed, Rows
  <2>2. file' \in Contents
    BY <1>5, <1>6, <2>1
  <2>3. last' = [last EXCEPT !["file"] = seeded(last["file"])]
    BY <1>1, <1>11 DEF CommitSeed
  <2>4. last' \in [{"file", "port"} -> Contents] /\ last'["file"] = file' /\ last'["port"] = port'
    <3>1. last' = [last EXCEPT !["file"] = file']
      BY <1>6, <2>1, <2>3
    <3> QED  BY <1>6, <1>7, <2>2, <3>1
  <2>5. HostTypeOK'
    <3>1. host' \in [Hosts -> Up \cup {Down}]
      BY <1>3 DEF CommitSeed, HostsInv, HostTypeOK
    <3>2. file' \in Contents
      BY <1>5, <1>6, <2>1
    <3> QED  BY <1>2, <1>3, <1>6, <1>7, <2>1, <2>4, <3>1, <3>2 DEF HostsInv, HostTypeOK
  <2>6. NothingLate'
    BY <1>2, <1>3 DEF HostsInv, NothingLate, IsSeeding, Opens
  <2>7. EditsSurvive'
    BY <2>4 DEF EditsSurvive
  <2>8. OpenedSiteIsWhole'
    <3> SUFFICES ASSUME NEW g \in Hosts, host'[g] \in Opens, host'[g].options.seed,
                        host'[g].options.storage # "port", NEW r \in SeedRows
                 PROVE  Rows(g)'[r] # NoRow
      BY DEF OpenedSiteIsWhole, Opens
    <3>1. file'[r] # NoRow
      BY <1>5, <1>4, <1>6, <2>1
    <3>2. CASE host'[g].options.storage = "file"
      BY <3>1, <3>2 DEF Rows
    <3>3. CASE host'[g].options.storage # "file"
      <4>1. g # h /\ host[g] = host'[g]
        BY <1>2, <1>11, <3>3
      <4>2. host[g].options \in Options
        BY <4>1, HostKinds DEF HostsInv, Opens, Down
      <4>3. host[g].options.storage = "memory"
        BY <3>3, <4>1, <4>2 DEF Options
      <4> QED  BY <2>1, <4>1, <4>3 DEF HostsInv, OpenedSiteIsWhole, Rows
    <3> QED  BY <3>2, <3>3
  <2> QED  BY <1>9, <1>10, <2>5, <2>6, <2>7, <2>8 DEF HostsInv
<1>12. CASE host[h].options.storage # "file"
  <2>1. memory' = [memory EXCEPT ![h] = seeded(memory[h])] /\ UNCHANGED <<file, last>>
    <3>1. host[h].options.storage = "memory"
      BY <1>1, <1>12 DEF HostsInv, SeedsApart, CommitSeed
    <3> QED  BY <1>12, <1>8, <3>1 DEF CommitSeed, Rows
  <2>2. \A g \in Hosts : memory'[g] = IF g = h THEN seeded(memory[h]) ELSE memory[g]
    BY <1>6, <2>1
  <2>3. HostTypeOK'
    <3>1. host' \in [Hosts -> Up \cup {Down}]
      BY <1>3 DEF CommitSeed, HostsInv, HostTypeOK
    <3>2. memory' \in [Hosts -> Contents]
      <4>1. memory[h] \in Contents
        BY <1>6
      <4>2. seeded(memory[h]) \in Contents
        BY <1>5, <4>1
      <4> HIDE DEF seeded
      <4> QED  BY <1>6, <2>1, <4>2
    <3>3. \A g \in Hosts : host'[g] = Down => memory'[g] = NoRows
      BY <1>2, <1>3, <2>2 DEF HostsInv, HostTypeOK
    <3> QED  BY <1>6, <1>7, <2>1, <3>1, <3>2, <3>3 DEF HostsInv, HostTypeOK
  <2>4. NothingLate'
    BY <1>2, <1>3 DEF HostsInv, NothingLate, IsSeeding, Opens
  <2>5. EditsSurvive'
    BY <1>7, <2>1 DEF HostsInv, EditsSurvive
  <2>6. OpenedSiteIsWhole'
    <3> SUFFICES ASSUME NEW g \in Hosts, host'[g] \in Opens, host'[g].options.seed,
                        host'[g].options.storage # "port", NEW r \in SeedRows
                 PROVE  Rows(g)'[r] # NoRow
      BY DEF OpenedSiteIsWhole, Opens
    <3>1. CASE g = h
      <4>1. host'[g].options.storage = "memory"
        BY <1>1, <1>2, <1>12, <3>1 DEF Options
      <4>2. memory[h] \in Contents
        BY <1>6
      <4>3. memory'[g] = seeded(memory[h])
        <5> HIDE DEF seeded
        <5> QED  BY <2>2, <3>1
      <4>4. seeded(memory[h])[r] = Seed
        BY <1>5, <4>2
      <4> QED  BY <1>4, <4>1, <4>3, <4>4 DEF Rows
    <3>2. CASE g # h
      <4>1. host[g] = host'[g] /\ host[g] # Down
        BY <1>2, <3>2 DEF Opens, Down
      <4>2. memory'[g] = memory[g]
        BY <2>2, <3>2
      <4>3. Rows(g)' = Rows(g)
        BY <1>7, <2>1, <4>1, <4>2, HostSameRows DEF HostsInv
      <4> QED  BY <4>1, <4>3 DEF HostsInv, OpenedSiteIsWhole
    <3> QED  BY <3>1, <3>2
  <2> QED  BY <1>9, <1>10, <2>3, <2>4, <2>5, <2>6 DEF HostsInv
<1> QED
  BY <1>11, <1>12

\* A process that ends, wherever it is, takes its memory with it and nothing else.
LEMMA HostsEndInv ==
  ASSUME HostsInv, NEW h \in Hosts, SeedFails(h) \/ Stop(h)
  PROVE  HostsInv'
<1>1. /\ host' = [host EXCEPT ![h] = Down] /\ memory' = [memory EXCEPT ![h] = NoRows]
      /\ UNCHANGED <<file, port, last, edits>>
  BY DEF SeedFails, Stop
<1>2. \A g \in Hosts : /\ host'[g] = IF g = h THEN Down ELSE host[g]
                       /\ memory'[g] = IF g = h THEN NoRows ELSE memory[g]
  BY <1>1 DEF HostsInv, HostTypeOK
<1>3. HostTypeOK'
  <2>1. NoRows \in Contents
    BY DEF NoRows, Contents
  <2>2. host' \in [Hosts -> Up \cup {Down}] /\ memory' \in [Hosts -> Contents]
    BY <1>1, <2>1 DEF HostsInv, HostTypeOK
  <2> QED  BY <1>1, <1>2, <2>2 DEF HostsInv, HostTypeOK
<1>4. NothingLate'
  BY <1>2 DEF HostsInv, NothingLate, IsSeeding, Down
<1>5. EditsSurvive'
  BY <1>1 DEF HostsInv, EditsSurvive
<1>6. OpenedSiteIsWhole'
  <2> SUFFICES ASSUME NEW g \in Hosts, host'[g] \in Opens, host'[g].options.seed,
                      host'[g].options.storage # "port", NEW s \in SeedRows
               PROVE  Rows(g)'[s] # NoRow
    BY DEF OpenedSiteIsWhole, Opens
  <2>1. host[g] = host'[g] /\ memory[g] = memory'[g] /\ host[g] # Down
    BY <1>2 DEF Opens, Down
  <2>2. Rows(g)' = Rows(g)
    BY <1>1, <2>1, HostSameRows DEF HostsInv
  <2> QED  BY <2>1, <2>2 DEF HostsInv, OpenedSiteIsWhole
<1>7. OneWriter'
  <2>1. \A g \in Hosts : Writing(g)' => Writing(g)
    BY <1>2 DEF Writing, IsSeeding, Down
  <2> QED  BY <2>1, NoNewWriter
<1>8. SeedsApart'
  <2> SUFFICES ASSUME NEW g \in Hosts, IsSeeding(g)'
               PROVE  /\ host'[g].options.storage # "port"
                      /\ host'[g].left # SeedRows => \A s \in RowIds :
                           host'[g].rows[s] =
                             IF s \in SeedRows \ host'[g].left THEN Seed ELSE Rows(g)'[s]
    BY DEF SeedsApart, IsSeeding
  <2>1. host[g] = host'[g] /\ memory[g] = memory'[g]
    BY <1>2 DEF IsSeeding, Down
  <2> QED  BY <1>1, <2>1, OtherSeedsApart DEF Rows
<1> QED
  BY <1>3, <1>4, <1>5, <1>6, <1>7, <1>8 DEF HostsInv

\* A host that begins to serve has what it had when it was opened.
LEMMA HostsServeInv ==
  ASSUME HostsInv, NEW h \in Hosts, ServeHost(h)
  PROVE  HostsInv'
<1>1. host[h] \in Opens
  BY HostKinds DEF HostsInv, ServeHost
<1> DEFINE new == [host[h] EXCEPT !.at = "serving"]
<1>2. /\ \A g \in Hosts : host'[g] = IF g = h THEN new ELSE host[g]
      /\ UNCHANGED <<file, port, memory, last, edits>>
  BY DEF ServeHost, HostsInv, HostTypeOK
<1>3. new \in Opens /\ new \in Up /\ new # Down /\ new.options = host[h].options
      /\ new.at # "seeding"
  BY <1>1 DEF Opens, Up, Down
<1>4. HostTypeOK'
  <2>1. host' \in [Hosts -> Up \cup {Down}]
    BY <1>3 DEF ServeHost, HostsInv, HostTypeOK
  <2> QED  BY <1>2, <1>3, <2>1 DEF HostsInv, HostTypeOK
<1>5. NothingLate'
  BY <1>2, <1>3 DEF HostsInv, NothingLate, IsSeeding
<1>6. EditsSurvive'
  BY <1>2 DEF HostsInv, EditsSurvive
<1>7. OpenedSiteIsWhole'
  <2> SUFFICES ASSUME NEW g \in Hosts, host'[g] \in Opens, host'[g].options.seed,
                      host'[g].options.storage # "port", NEW r \in SeedRows
               PROVE  Rows(g)'[r] # NoRow
    BY DEF OpenedSiteIsWhole, Opens
  <2>1. host'[g].options = host[g].options /\ host[g] \in Opens
    BY <1>1, <1>2, <1>3
  <2>2. Rows(g)' = Rows(g)
    BY <1>2, <2>1 DEF Rows
  <2> QED  BY <2>1, <2>2 DEF HostsInv, OpenedSiteIsWhole
<1>8. OneWriter'
  <2>1. \A g \in Hosts : Writing(g)' => Writing(g)
    BY <1>2, <1>3 DEF Writing, IsSeeding
  <2> QED  BY <2>1, NoNewWriter
<1>9. SeedsApart'
  <2> SUFFICES ASSUME NEW g \in Hosts, IsSeeding(g)'
               PROVE  /\ host'[g].options.storage # "port"
                      /\ host'[g].left # SeedRows => \A s \in RowIds :
                           host'[g].rows[s] =
                             IF s \in SeedRows \ host'[g].left THEN Seed ELSE Rows(g)'[s]
    BY DEF SeedsApart, IsSeeding
  <2>1. host[g] = host'[g]
    BY <1>2, <1>3 DEF IsSeeding
  <2> QED  BY <1>2, <2>1, OtherSeedsApart DEF Rows
<1> QED
  BY <1>4, <1>5, <1>6, <1>7, <1>8, <1>9 DEF HostsInv

\* An edit changes one row of one storage, to a text; and no seed under way has
\* written that row, as it would have the lock.
LEMMA HostsEditInv ==
  ASSUME HostsInv, NEW h \in Hosts, NEW r \in RowIds, NEW text \in Texts, Edit(h, r, text)
  PROVE  HostsInv'
<1>1. host[h] \in Opens
  BY HostKinds DEF HostsInv, Edit
<1>2. host' = host
  <2>1. ASSUME NEW g \in Hosts, IsSeeding(g), host[g].options.storage = "file",
               host[h].options.storage = "file", r \in SeedRows \ host[g].left
        PROVE  FALSE
    <3>1. g # h /\ host[g].left # SeedRows
      BY <1>1, <2>1 DEF IsSeeding, Opens
    <3> QED  BY <2>1, <3>1 DEF Edit, Locked
  <2>2. host' = [g \in Hosts |-> host[g]]
    BY <2>1 DEF Edit
  <2> QED  BY <2>2 DEF HostsInv, HostTypeOK
<1>3. /\ file' = IF host[h].options.storage = "file" THEN [file EXCEPT ![r] = text] ELSE file
      /\ port' = IF host[h].options.storage = "port" THEN [port EXCEPT ![r] = text] ELSE port
      /\ memory' = IF host[h].options.storage = "memory" THEN [memory EXCEPT ![h][r] = text] ELSE memory
      /\ last' = IF host[h].options.storage = "memory" THEN last
                 ELSE [last EXCEPT ![host[h].options.storage][r] = text]
      /\ edits' \in 0..MaxEdits
  BY HostAssumption DEF Edit, HostsInv, HostTypeOK
<1>4. /\ file \in Contents /\ port \in Contents /\ memory \in [Hosts -> Contents]
      /\ last \in [{"file", "port"} -> Contents] /\ file = last["file"] /\ port = last["port"]
      /\ text # NoRow
  BY HostAssumption DEF HostsInv, HostTypeOK, EditsSurvive
<1>5. host[h].options.storage \in {"file", "port", "memory"}
  BY <1>1, HostKinds DEF HostsInv
<1>6. ASSUME NEW rows \in Contents
      PROVE  [rows EXCEPT ![r] = text] \in Contents
  BY DEF Contents
<1>7. file' \in Contents /\ port' \in Contents
  BY <1>3, <1>4, <1>6
<1>8. memory' \in [Hosts -> Contents]
  <2>1. memory[h] \in Contents
    BY <1>4
  <2>2. [memory[h] EXCEPT ![r] = text] \in Contents
    BY <1>6, <2>1
  <2>3. memory' = IF host[h].options.storage = "memory"
                  THEN [memory EXCEPT ![h] = [memory[h] EXCEPT ![r] = text]] ELSE memory
    BY <1>3
  <2> QED  BY <1>4, <2>2, <2>3
<1>9. /\ last' \in [{"file", "port"} -> Contents] /\ last'["file"] = file' /\ last'["port"] = port'
  <2>1. CASE host[h].options.storage = "file"
    BY <1>3, <1>4, <1>7, <2>1
  <2>2. CASE host[h].options.storage = "port"
    BY <1>3, <1>4, <1>7, <2>2
  <2>3. CASE host[h].options.storage = "memory"
    BY <1>3, <1>4, <2>3
  <2> QED  BY <1>5, <2>1, <2>2, <2>3
<1>10. HostTypeOK'
  <2>1. host[h] # Down
    BY <1>1 DEF Opens, Down
  <2>2. \A g \in Hosts : g # h => memory'[g] = memory[g]
    BY <1>3, <1>4
  <2> QED  BY <1>2, <1>3, <1>7, <1>8, <1>9, <2>1, <2>2 DEF HostsInv, HostTypeOK
<1>11. NothingLate' /\ EditsSurvive'
  BY <1>2, <1>9 DEF HostsInv, NothingLate, IsSeeding, EditsSurvive
<1>12. OpenedSiteIsWhole'
  <2> SUFFICES ASSUME NEW g \in Hosts, host[g] \in Opens, host[g].options.seed,
                      host[g].options.storage # "port", NEW s \in SeedRows
               PROVE  Rows(g)'[s] # NoRow
    BY <1>2 DEF OpenedSiteIsWhole, Opens
  <2>1. Rows(g)[s] # NoRow /\ s \in RowIds
    BY DEF HostsInv, OpenedSiteIsWhole, RowIds
  <2>2. host[g].options.storage \in {"file", "memory"}
    <3>1. host[g] # Down
      BY DEF Opens, Down
    <3> QED  BY <3>1, HostKinds DEF HostsInv
  <2>3. CASE host[g].options.storage = "file"
    <3>1. file[s] # NoRow
      BY <2>1, <2>3 DEF Rows
    <3>2. file'[s] # NoRow
      BY <1>3, <1>4, <2>1, <3>1 DEF Contents
    <3> QED  BY <1>2, <2>3, <3>2 DEF Rows
  <2>4. CASE host[g].options.storage = "memory"
    <3>1. memory[g][s] # NoRow /\ memory[g] \in Contents
      BY <1>4, <2>1, <2>4 DEF Rows
    <3>2. memory'[g][s] # NoRow
      BY <1>3, <1>4, <2>1, <3>1 DEF Contents
    <3> QED  BY <1>2, <2>4, <3>2 DEF Rows
  <2> QED  BY <2>2, <2>3, <2>4
<1>13. OneWriter'
  BY <1>2 DEF HostsInv, OneWriter, Writing, IsSeeding
<1>14. SeedsApart'
  <2> SUFFICES ASSUME NEW g \in Hosts, IsSeeding(g)'
               PROVE  /\ host'[g].options.storage # "port"
                      /\ host'[g].left # SeedRows => \A s \in RowIds :
                           host'[g].rows[s] =
                             IF s \in SeedRows \ host'[g].left THEN Seed ELSE Rows(g)'[s]
    BY DEF SeedsApart, IsSeeding
  <2>1. IsSeeding(g) /\ g # h
    BY <1>1, <1>2 DEF IsSeeding, Opens
  <2>2. ASSUME host[g].left # SeedRows
        PROVE  Rows(g)' = Rows(g)
    <3>1. host[g].options.storage \in {"file", "memory"}
      BY <2>1, HostKinds DEF HostsInv, SeedsApart
    <3>2. CASE host[g].options.storage = "file"
      <4>1. host[h].options.storage # "file"
        BY <2>1, <2>2, <3>2 DEF Edit, Locked
      <4> QED  BY <1>2, <1>3, <3>2, <4>1 DEF Rows
    <3>3. CASE host[g].options.storage = "memory"
      <4>1. memory'[g] = memory[g]
        BY <1>3, <1>4, <2>1
      <4> QED  BY <1>2, <3>3, <4>1 DEF Rows
    <3> QED  BY <3>1, <3>2, <3>3
  <2> QED  BY <1>2, <2>2, OtherSeedsApart
<1> QED
  BY <1>10, <1>11, <1>12, <1>13, <1>14 DEF HostsInv

\* Every step keeps the invariant.
LEMMA HostsNextInv == HostsInv /\ [HostNext]_hostVars => HostsInv'
<1>1. HostsInv /\ UNCHANGED hostVars => HostsInv'
  <2> SUFFICES ASSUME HostsInv, UNCHANGED hostVars PROVE HostsInv'
    OBVIOUS
  <2>1. /\ host' = host /\ file' = file /\ port' = port
        /\ memory' = memory /\ last' = last /\ edits' = edits
    BY DEF hostVars
  <2>2. HostTypeOK'
    BY <2>1 DEF HostsInv, HostTypeOK
  <2>3. NothingLate'
    BY <2>1 DEF HostsInv, NothingLate, IsSeeding
  <2>4. EditsSurvive'
    BY <2>1 DEF HostsInv, EditsSurvive
  <2>5. OpenedSiteIsWhole'
    BY <2>1 DEF HostsInv, OpenedSiteIsWhole, Rows, Opens
  <2>6. OneWriter'
    BY <2>1 DEF HostsInv, OneWriter, Writing, IsSeeding
  <2>7. SeedsApart'
    BY <2>1 DEF HostsInv, SeedsApart, Rows, IsSeeding
  <2> QED
    BY <2>2, <2>3, <2>4, <2>5, <2>6, <2>7 DEF HostsInv
<1> QED
  BY <1>1, HostsOpenInv, PutSeedInv, CommitSeedInv, HostsEndInv, HostsServeInv, HostsEditInv DEF HostNext

\* The inductive invariant holds of every behaviour of the hosts.
LEMMA HostsInvHolds == HostSpec => []HostsInv
BY HostsInitInv, HostsNextInv, PTL DEF HostSpec

\* The types, and that no memory outlives its process.
THEOREM HostTypeOKHolds == HostSpec => []HostTypeOK
<1>1. HostsInv => HostTypeOK
  BY DEF HostsInv
<1> QED
  BY <1>1, HostsInvHolds, PTL

\* What is stored stays until it is edited or a later seed overwrites it, however
\* many hosts with whatever options are started, killed and started again.
THEOREM EditsSurviveHolds == HostSpec => []EditsSurvive
<1>1. HostsInv => EditsSurvive
  BY DEF HostsInv
<1> QED
  BY <1>1, HostsInvHolds, PTL

\* A host that was told to seed, but for an injected port, serves all the rows.
THEOREM SeededSiteIsWholeHolds == HostSpec => []SeededSiteIsWhole
<1>1. HostsInv => SeededSiteIsWhole
  BY HostKinds DEF HostsInv, OpenedSiteIsWhole, SeededSiteIsWhole
<1> QED
  BY <1>1, HostsInvHolds, PTL

\* Nothing is lost and nothing is missing: all of it, in every state of the hosts.
THEOREM HostInvHolds == HostSpec => []HostInv
<1>1. HostTypeOK /\ EditsSurvive /\ SeededSiteIsWhole => HostInv
  BY DEF HostInv
<1> QED
  BY <1>1, HostTypeOKHolds, EditsSurviveHolds, SeededSiteIsWholeHolds, PTL

-----------------------------------------------------------------------------
\* Other hosts see all of a seed or nothing of it: the transaction that commits has seen
\* the file of this moment, and has every row of the seed.
THEOREM SeedSeenWholeHolds == HostSpec => SeedSeenWhole
<1> DEFINE Whole == (\E s \in SeedRows : file[s] # Seed /\ file'[s] = Seed) =>
                      \A r \in RowIds : file'[r] = IF r \in SeedRows THEN Seed ELSE file[r]
<1>1. ASSUME HostsInv, NEW h \in Hosts, CommitSeed(h) PROVE Whole
  <2>1. CASE host[h].options.storage = "file"
    <3>1. \A r \in RowIds : host[h].rows[r] = IF r \in SeedRows THEN Seed ELSE file[r]
      BY <1>1, <2>1, HostAssumption DEF CommitSeed, HostsInv, SeedsApart, Rows
    <3>2. file' = host[h].rows
      BY <1>1, <2>1 DEF CommitSeed
    <3> QED  BY <3>1, <3>2
  <2>2. CASE host[h].options.storage # "file"
    BY <1>1, <2>2 DEF CommitSeed
  <2> QED  BY <2>1, <2>2
<1>2. ASSUME HostsInv, NEW h \in Hosts, NEW r \in RowIds, NEW text \in Texts, Edit(h, r, text)
      PROVE  Whole
  <2>1. \A s \in SeedRows : file'[s] = file[s] \/ file'[s] = text
    BY <1>2 DEF Edit, HostsInv, HostTypeOK, Contents, RowIds
  <2>2. text # Seed
    BY HostAssumption
  <2> QED  BY <2>1, <2>2
<1>3. HostsInv /\ [HostNext]_hostVars => [Whole]_hostVars
  <2> SUFFICES ASSUME HostsInv, HostNext PROVE Whole
    OBVIOUS
  <2>1. ASSUME NEW h \in Hosts, \/ \E o \in Choices : OpenHost(h, o)
                                \/ \E r \in SeedRows : PutSeed(h, r)
                                \/ SeedFails(h) \/ ServeHost(h) \/ Stop(h)
        PROVE  Whole
    BY <2>1 DEF OpenHost, PutSeed, SeedFails, ServeHost, Stop
  <2> HIDE DEF Whole
  <2> QED  BY <1>1, <1>2, <2>1 DEF HostNext
<1>4. SeedSeenWhole <=> [][Whole]_hostVars
  BY DEF SeedSeenWhole
<1> QED
  BY <1>3, <1>4, HostsInvHolds, PTL DEF HostSpec
=============================================================================
