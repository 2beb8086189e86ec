------------------------------ MODULE Migrations ------------------------------
(***************************************************************************)
(* The start of the program on its database file: Store.Init applies the   *)
(* migrations that are not recorded yet, each in a transaction of its own, *)
(* and the host then seeds the site if it was asked to.  Processes start,  *)
(* fail to start, crash and restart on the same file at any moment, also   *)
(* two at once, as when a new instance comes up before the old one left.   *)
(*                                                                         *)
(* A migration is a number in the order of sqliteMigrations, a statement   *)
(* of it the pair <<migration, position>>: it creates its table or index   *)
(* IF NOT EXISTS, so that executing it is adding it to a set.              *)
(***************************************************************************)
EXTENDS Naturals, FiniteSets

CONSTANTS
  Processes,   \* the processes that use the database file
  NoProcess,   \* holder of the write lock when it is free
  Last,        \* the number of migrations the program knows: 2 in the code
  Statements,  \* statements of a migration
  Seeding,     \* Options.Seed
  MaxFaults    \* bound: crashes, stops and failed statements in a behaviour

ASSUME MigrationsAssumption ==
  /\ NoProcess \notin Processes
  /\ Last \in Nat /\ Statements \in Nat
  /\ Seeding \in BOOLEAN
  /\ MaxFaults \in Nat

Databases == [schema : SUBSET ((1..Last) \X (1..Statements)),
              recorded : SUBSET (1..Last),
              seeded : BOOLEAN]

Empty == [schema |-> {}, recorded |-> {}, seeded |-> FALSE]

VARIABLES
  disk,      \* the committed database
  lock,      \* who holds SQLite's write lock
  work,      \* the database as the transaction of the holder sees it
  phase,     \* phase[p]: where the start of p is
  applied,   \* applied[p]: what p read of schema_migrations
  next,      \* next[p]: the migration p has come to
  stmt,      \* stmt[p]: the statement of it that is executed next
  faults     \* faults so far

vars == <<disk, lock, work, phase, applied, next, stmt, faults>>

Phases == {"down", "opened", "ready", "applying", "recorded", "serving"}
InTx == {"applying", "recorded"}

Init ==
  /\ disk = Empty /\ work = Empty
  /\ lock = NoProcess
  /\ phase = [p \in Processes |-> "down"]
  /\ applied = [p \in Processes |-> {}]
  /\ next = [p \in Processes |-> 1]
  /\ stmt = [p \in Processes |-> 1]
  /\ faults = 0

-----------------------------------------------------------------------------
\* The process starts and opens the file.
Open(p) ==
  /\ phase[p] = "down"
  /\ phase' = [phase EXCEPT ![p] = "opened"]
  /\ UNCHANGED <<disk, lock, work, applied, next, stmt, faults>>

\* Mutant: what was applied before is not looked up.
ReadNothing(p) ==
  /\ phase[p] = "opened"
  /\ applied' = [applied EXCEPT ![p] = {}]
  /\ next' = [next EXCEPT ![p] = 1]
  /\ phase' = [phase EXCEPT ![p] = "ready"]
  /\ UNCHANGED <<disk, lock, work, stmt, faults>>

\* appliedMigrations, read once, outside any transaction.
ReadApplied(p) ==
  /\ phase[p] = "opened"
  /\ applied' = [applied EXCEPT ![p] = disk.recorded]
  /\ next' = [next EXCEPT ![p] = 1]
  /\ phase' = [phase EXCEPT ![p] = "ready"]
  /\ UNCHANGED <<disk, lock, work, stmt, faults>>

\* The loop passes over a migration that was in the list.
Skip(p) ==
  /\ phase[p] = "ready"
  /\ next[p] \in applied[p]
  /\ next' = [next EXCEPT ![p] = next[p] + 1]
  /\ UNCHANGED <<disk, lock, work, phase, applied, stmt, faults>>

Pending(p) == phase[p] = "ready" /\ next[p] <= Last /\ next[p] \notin applied[p]

\* applyMigration begins its transaction; SQLite lets one writer in.
Begin(p) ==
  /\ Pending(p)
  /\ lock = NoProcess
  /\ lock' = p
  /\ work' = disk
  /\ stmt' = [stmt EXCEPT ![p] = 1]
  /\ phase' = [phase EXCEPT ![p] = "applying"]
  /\ UNCHANGED <<disk, applied, next, faults>>

\* Mutant: the statements run outside the transaction.
ExecuteAtOnce(p) ==
  /\ phase[p] = "applying"
  /\ stmt[p] <= Statements
  /\ disk' = [disk EXCEPT !.schema = disk.schema \cup {<<next[p], stmt[p]>>}]
  /\ work' = disk'
  /\ stmt' = [stmt EXCEPT ![p] = stmt[p] + 1]
  /\ UNCHANGED <<lock, phase, applied, next, faults>>

Execute(p) ==
  /\ phase[p] = "applying"
  /\ stmt[p] <= Statements
  /\ work' = [work EXCEPT !.schema = work.schema \cup {<<next[p], stmt[p]>>}]
  /\ stmt' = [stmt EXCEPT ![p] = stmt[p] + 1]
  /\ UNCHANGED <<disk, lock, phase, applied, next, faults>>

\* The version is inserted in the same transaction; it is the primary key, so
\* that the insert succeeds only if no other process was faster.
Record(p) ==
  /\ phase[p] = "applying"
  /\ stmt[p] = Statements + 1
  /\ next[p] \notin work.recorded
  /\ work' = [work EXCEPT !.recorded = work.recorded \cup {next[p]}]
  /\ phase' = [phase EXCEPT ![p] = "recorded"]
  /\ UNCHANGED <<disk, lock, applied, next, stmt, faults>>

Commit(p) ==
  /\ phase[p] = "recorded"
  /\ disk' = work
  /\ lock' = NoProcess
  /\ next' = [next EXCEPT ![p] = next[p] + 1]
  /\ phase' = [phase EXCEPT ![p] = "ready"]
  /\ UNCHANGED <<work, applied, stmt, faults>>

\* Mutant: the program serves although its migrations failed to begin.
ServeEarly(p) ==
  /\ phase[p] = "ready"
  /\ Seeding => lock = NoProcess
  /\ disk' = [disk EXCEPT !.seeded = disk.seeded \/ Seeding]
  /\ phase' = [phase EXCEPT ![p] = "serving"]
  /\ UNCHANGED <<lock, work, applied, next, stmt, faults>>

\* Init is done; SeedMinimalSite upserts its rows in one transaction.
Serve(p) ==
  /\ phase[p] = "ready"
  /\ next[p] > Last
  /\ Seeding => lock = NoProcess
  /\ disk' = [disk EXCEPT !.seeded = disk.seeded \/ Seeding]
  /\ phase' = [phase EXCEPT ![p] = "serving"]
  /\ UNCHANGED <<lock, work, applied, next, stmt, faults>>

-----------------------------------------------------------------------------
(* The ways a start ends without the program serving: the error reaches    *)
(* main, which ends the process, and its transaction is rolled back.       *)

Exit(p) ==
  /\ phase' = [phase EXCEPT ![p] = "down"]
  /\ lock' = IF lock = p THEN NoProcess ELSE lock
  /\ UNCHANGED <<disk, work, applied, next, stmt>>

\* Another process recorded the migration after this one had read the list.
RecordConflicts(p) ==
  /\ phase[p] = "applying"
  /\ stmt[p] = Statements + 1
  /\ next[p] \in work.recorded
  /\ Exit(p)
  /\ UNCHANGED faults

\* SQLite may answer that the database is locked.
Busy(p) ==
  /\ \/ phase[p] = "opened"
     \/ Pending(p)
     \/ Seeding /\ phase[p] = "ready" /\ next[p] > Last
  /\ lock # NoProcess
  /\ Exit(p)
  /\ UNCHANGED faults

\* A statement or a commit fails, or the process is stopped or crashes.
Fault(p) ==
  /\ faults < MaxFaults
  /\ phase[p] # "down"
  /\ Exit(p)
  /\ faults' = faults + 1

Step(p) ==
  \/ Open(p) \/ ReadApplied(p) \/ Skip(p) \/ Begin(p) \/ Execute(p)
  \/ Record(p) \/ Commit(p) \/ Serve(p) \/ RecordConflicts(p)

Next == \E p \in Processes : Step(p) \/ Busy(p) \/ Fault(p)

Spec == Init /\ [][Next]_vars

\* A process that is down is started again, and one that can go on does; a
\* freed lock goes to each of those that ask for it in turn.
Fairness == \A p \in Processes : WF_vars(Step(p)) /\ SF_vars(Begin(p))

-----------------------------------------------------------------------------
\* The types of the variables.
TypeOK ==
  /\ disk \in Databases /\ work \in Databases
  /\ lock \in Processes \cup {NoProcess}
  /\ phase \in [Processes -> Phases]
  /\ applied \in [Processes -> SUBSET (1..Last)]
  /\ next \in [Processes -> 1..(Last + 1)]
  /\ stmt \in [Processes -> 1..(Statements + 1)]
  /\ faults \in Nat

\* Ordered: what is recorded is an initial part of the list of migrations,
\* whoever recorded which of them.
RecordedInOrder == \A m \in disk.recorded : \A l \in 1..m : l \in disk.recorded

\* All or nothing: the schema holds every statement of the recorded migrations
\* and none of any other, wherever a process crashed.
SchemaFollowsRecord == disk.schema = disk.recorded \X (1..Statements)

\* Nobody serves requests on an unfinished schema, whichever process finished it.
ServesMigrated ==
  \A p \in Processes :
    phase[p] = "serving" => disk.recorded = 1..Last /\ (Seeding => disk.seeded)

(***************************************************************************)
(* The inductive invariant: the list a process read is never ahead of the  *)
(* database, everything before the migration it has come to is recorded,   *)
(* and the transaction of the holder has exactly its statements more.      *)
(***************************************************************************)
\* A transaction is open exactly for the holder of the write lock.
LockHeld == \A p \in Processes : phase[p] \in InTx <=> lock = p

\* What a process read and where it has got to is not ahead of the database.
Behind ==
  \A p \in Processes :
    /\ applied[p] \subseteq disk.recorded
    /\ phase[p] \in {"ready", "applying", "recorded", "serving"} =>
         \A m \in 1..Last : m < next[p] => m \in disk.recorded
    /\ phase[p] \in InTx => next[p] <= Last
    /\ phase[p] = "serving" => next[p] > Last /\ (Seeding => disk.seeded)

\* The transaction of the holder has exactly its own statements more.
WorkAhead ==
  \A p \in Processes :
    /\ phase[p] \in InTx => work.seeded = disk.seeded
    /\ phase[p] = "applying" =>
         /\ work.recorded = disk.recorded
         /\ work.schema = disk.schema \cup {<<next[p], s>> : s \in 1..(stmt[p] - 1)}
    /\ phase[p] = "recorded" =>
         /\ work.recorded = disk.recorded \cup {next[p]}
         /\ work.schema = disk.schema \cup {<<next[p], s>> : s \in 1..Statements}

\* Processes that start, fail and crash leave the database, the write lock and each
\* other's progress consistent: the parts above, in order and all or nothing.
Inv ==
  TypeOK /\ RecordedInOrder /\ SchemaFollowsRecord /\ LockHeld /\ Behind /\ WorkAhead

\* Repeat-safe: after the last fault every process that is restarted serves in
\* the end, although concurrent starts make each other fail and migrations are
\* begun again by processes that read the list too early.
StartsSucceed == \A p \in Processes : <>[](phase[p] = "serving")
=============================================================================
