---------------------------------- MODULE Host ----------------------------------
(***************************************************************************)
(* Starting the host (pkg/app): the options say which storage it opens, if *)
(* it seeds it, and by its mode which surfaces it mounts.  Several hosts   *)
(* may be started on one database file, for instance one that serves the   *)
(* admin and one that serves the public site, and each may be killed and   *)
(* started again, with other options.                                      *)
(*                                                                         *)
(* The schema is Migrations', what a request does within its transaction   *)
(* ContentRequests': here a host opens its database, with the schema, in   *)
(* one step, and an edit is one step.  The seed is one transaction of many *)
(* statements, in which it may fail or be killed: it works on rows of its  *)
(* own, which the storage has when it commits.                             *)
(***************************************************************************)
EXTENDS Integers

CONSTANTS
  Hosts,       \* the processes
  Choices,     \* the options they are started with
  SeedRows,    \* the rows SeedMinimalSite writes
  OtherRows,
  Texts,       \* what editors write
  Seed,        \* what the seed writes
  NoRow,
  MaxEdits     \* bound: edits in a behaviour

RowIds == SeedRows \cup OtherRows

Modes == {"full", "headless", "admin", "conformance"}

\* Options: the mode may be left out; storage is an injected port, a file, or the
\* default, which is in the memory of the process.
Options == [storage : {"port", "file", "memory"}, seed : BOOLEAN,
            headless : BOOLEAN, mode : Modes \cup {""}]

ASSUME HostAssumption ==
  /\ Choices \subseteq Options
  /\ SeedRows # {}
  /\ Seed \notin Texts /\ NoRow \notin Texts \cup {Seed}
  /\ MaxEdits \in Nat

VARIABLES
  host,     \* what each process is doing: of a seed, the rows that are left to write,
            \* all rows as its transaction sees them from its first write on, and (ghost)
            \* those edited since it wrote them
  file,     \* the rows of the database file, as committed
  port,     \* those behind the injected port
  memory,   \* those in the memory of each process
  last,     \* ghost: what an editor or a seed last made of the rows of file and port
  edits     \* edits so far

hostVars == <<host, file, port, memory, last, edits>>

NoRows == [r \in RowIds |-> NoRow]
Contents == [RowIds -> Texts \cup {Seed, NoRow}]
Down == [at |-> "down"]
Up == [at : {"seeding"}, options : Choices, left : SUBSET SeedRows, rows : Contents,
       late : SUBSET SeedRows]
        \cup [at : {"opened", "serving"}, options : Choices]

Rows(h) ==
  CASE host[h].options.storage = "file" -> file
    [] host[h].options.storage = "port" -> port
    [] host[h].options.storage = "memory" -> memory[h]
-----------------------------------------------------------------------------
(***************************************************************************)
(* Modes and what they mount.                                              *)
(***************************************************************************)
runtimeMode(o) ==
  IF o.headless THEN "headless" ELSE IF o.mode # "" THEN o.mode ELSE "admin"

\* registerRoutesWithOptions
Routes(mode) ==
  {"rest", "login", "bff"}
    \cup (IF mode \in {"headless", "admin"} THEN {} ELSE {"public"})
    \cup (IF mode = "headless" THEN {} ELSE {"admin"})
    \cup (IF mode = "admin" THEN {} ELSE {"plugins", "import-export"})
-----------------------------------------------------------------------------
(***************************************************************************)
(* Starting.                                                               *)
(***************************************************************************)
HostInit ==
  /\ host = [h \in Hosts |-> Down]
  /\ file = NoRows /\ port = NoRows /\ memory = [h \in Hosts |-> NoRows]
  /\ last = [s \in {"file", "port"} |-> NoRows]
  /\ edits = 0

\* providerFromOptions: an injected port is taken as it is, and not seeded.
OpenHost(h, o) ==
  /\ host[h] = Down
  /\ host' = [host EXCEPT ![h] =
       IF o.seed /\ o.storage # "port"
       THEN [at |-> "seeding", options |-> o, left |-> SeedRows, rows |-> NoRows, late |-> {}]
       ELSE [at |-> "opened", options |-> o]]
  /\ UNCHANGED <<file, port, memory, last, edits>>

IsSeeding(h) == host[h].at = "seeding"

\* Only one process writes a file at a time: from its first write a transaction has it
\* until its end.
Locked(h) == \E g \in Hosts \ {h} :
  /\ IsSeeding(g) /\ host[g].left # SeedRows
  /\ host[g].options.storage = "file" /\ host[h].options.storage = "file"

\* The rows as the seed of h sees them: the first statement takes what is committed.
Seen(h) == IF host[h].left = SeedRows THEN Rows(h) ELSE host[h].rows

PutRow(h, r) ==
  host' = [host EXCEPT ![h].left = @ \ {r}, ![h].rows = [Seen(h) EXCEPT ![r] = Seed]]

\* Mutant: each row is put in a transaction of its own.
PutSeedAtOnce(h, r) ==
  /\ IsSeeding(h) /\ r \in host[h].left /\ ~Locked(h)
  /\ PutRow(h, r)
  /\ IF host[h].options.storage = "file"
     THEN file' = [file EXCEPT ![r] = Seed] /\ last' = [last EXCEPT !["file"][r] = Seed]
     ELSE UNCHANGED <<file, last>>
  /\ UNCHANGED <<port, memory, edits>>

\* Seeding is a Put for each row, in one transaction.
PutSeed(h, r) ==
  /\ IsSeeding(h) /\ r \in host[h].left /\ ~Locked(h)
  /\ PutRow(h, r)
  /\ UNCHANGED <<file, port, memory, last, edits>>

CommitSeed(h) ==
  /\ IsSeeding(h) /\ host[h].left = {}
  /\ IF host[h].options.storage = "file"
     THEN /\ file' = host[h].rows
          /\ last' = [last EXCEPT !["file"] =
               [r \in RowIds |-> IF r \in SeedRows \ host[h].late THEN Seed ELSE @[r]]]
          /\ UNCHANGED memory
     ELSE memory' = [memory EXCEPT ![h] = host[h].rows] /\ UNCHANGED <<file, last>>
  /\ host' = [host EXCEPT ![h] = [at |-> "opened", options |-> host[h].options]]
  /\ UNCHANGED <<port, edits>>

\* Mutant: a seed that fails is not looked at.
SeedFailsServing(h) ==
  /\ IsSeeding(h)
  /\ host' = [host EXCEPT ![h] = [at |-> "opened", options |-> host[h].options]]
  /\ memory' = [memory EXCEPT ![h] = NoRows]
  /\ UNCHANGED <<file, port, last, edits>>

\* A statement of the seed fails, or finds the file locked: NewApp returns the error,
\* and the process ends.
SeedFails(h) ==
  /\ IsSeeding(h)
  /\ host' = [host EXCEPT ![h] = Down]
  /\ memory' = [memory EXCEPT ![h] = NoRows]
  /\ UNCHANGED <<file, port, last, edits>>

\* NewApp returns, and Run listens.
ServeHost(h) ==
  /\ host[h].at = "opened"
  /\ host' = [host EXCEPT ![h].at = "serving"]
  /\ UNCHANGED <<file, port, memory, last, edits>>

\* The process stops, or is killed, wherever it is.
Stop(h) ==
  /\ host[h] # Down
  /\ host' = [host EXCEPT ![h] = Down]
  /\ memory' = [memory EXCEPT ![h] = NoRows]
  /\ UNCHANGED <<file, port, last, edits>>

\* An editor writes a row, through an API that every mode mounts.  A lock of another
\* process makes it fail.
Edit(h, r, text) ==
  /\ host[h].at = "serving" /\ ~Locked(h)
  /\ "rest" \in Routes(runtimeMode(host[h].options))
  /\ edits < MaxEdits /\ edits' = edits + 1
  /\ LET s == host[h].options.storage IN
       /\ file' = IF s = "file" THEN [file EXCEPT ![r] = text] ELSE file
       /\ port' = IF s = "port" THEN [port EXCEPT ![r] = text] ELSE port
       /\ memory' = IF s = "memory" THEN [memory EXCEPT ![h][r] = text] ELSE memory
       /\ last' = IF s = "memory" THEN last ELSE [last EXCEPT ![s][r] = text]
  /\ host' = [g \in Hosts |->
       IF IsSeeding(g) /\ host[g].options.storage = "file" /\ host[h].options.storage = "file"
            /\ r \in SeedRows \ host[g].left
       THEN [host[g] EXCEPT !.late = @ \cup {r}] ELSE host[g]]

HostNext ==
  \E h \in Hosts :
    \/ \E o \in Choices : OpenHost(h, o)
    \/ \E r \in SeedRows : PutSeed(h, r)
    \/ CommitSeed(h)
    \/ SeedFails(h)
    \/ ServeHost(h)
    \/ Stop(h)
    \/ \E r \in RowIds, text \in Texts : Edit(h, r, text)

HostSpec == HostInit /\ [][HostNext]_hostVars
-----------------------------------------------------------------------------
(***************************************************************************)
(* Properties.                                                             *)
(***************************************************************************)
\* Types; and no memory outlives its process.
HostTypeOK ==
  /\ host \in [Hosts -> Up \cup {Down}]
  /\ file \in Contents /\ port \in Contents /\ memory \in [Hosts -> Contents]
  /\ \A h \in Hosts : host[h] = Down => memory[h] = NoRows
  /\ last \in [{"file", "port"} -> Contents]
  /\ edits \in 0..MaxEdits

\* What an editor has been told is stored, on a file or behind a port, stays until it
\* is edited again, or a host seeds that very row later: kills, restarts with other
\* options, seeds that fail half-way, and seeds that write the row before it is edited
\* and commit after, lose nothing.
EditsSurvive == file = last["file"] /\ port = last["port"]

\* A host that was told to seed serves a site that has all the seed's rows, whatever
\* went wrong before; but for an injected port.
SeededSiteIsWhole ==
  \A h \in Hosts :
    host[h].at = "serving" /\ host[h].options.seed /\ host[h].options.storage # "port" =>
      \A r \in SeedRows : Rows(h)[r] # NoRow

\* Other hosts see a seed as a whole, although it is written row by row: the step that
\* turns a row of the file into the seed's leaves the file with all of the seed's rows,
\* and with every other row as it was, whoever edited what since the seed began.  A seed
\* that fails or is killed half-way is never seen.
SeedSeenWhole ==
  [][(\E s \in SeedRows : file[s] # Seed /\ file'[s] = Seed) =>
       \A r \in RowIds : file'[r] = IF r \in SeedRows THEN Seed ELSE file[r]]_hostVars

\* Nothing is lost, and nothing is missing, whichever hosts are killed and started again.
HostInv == HostTypeOK /\ EditsSurvive /\ SeededSiteIsWhole
=============================================================================
