--------------------------- MODULE ContentRequests ---------------------------
(***************************************************************************)
(* The requests that read and write content, interleaved step by step.     *)
(*                                                                         *)
(* Every request runs in one goroutine, inside one transaction, and the    *)
(* process has one database connection.  A REST handler commits whatever   *)
(* its statements wrote, the answer being an error or not; an action of    *)
(* the admin (BFF) and a caller of the service roll back on an error.      *)
(* Clients may disconnect and the process may crash between two steps.     *)
(***************************************************************************)
EXTENDS Content

CONSTANTS
  Requests,        \* the goroutines that serve requests
  NoRequest,       \* holder of the connection when it is free
  Inputs,          \* the requests clients send
  InitialTables,   \* the contents of the database file at the first start
  Faulty,          \* may single statements fail?
  MaxCalls,        \* bound: requests received in a behaviour
  MaxClock         \* bound: the last instant of the clock

Surfaces == {"rest", "bff", "service", "public"}
Operations ==
  {"create", "update", "trash", "publish", "schedule", "restore", "archive", "read"}

Request ==
  [surface : Surfaces, op : Operations, kind : Kinds, id : Ids, entry : Entries]

ASSUME RequestsAssumption ==
  /\ NoRequest \notin Requests
  /\ Inputs \subseteq Request
  /\ Inputs # {}
  /\ InitialTables \subseteq Tables
  /\ Faulty \in BOOLEAN
  /\ MaxCalls \in Nat /\ MaxClock \in Nat \ {0}
  \* A stored row carries its table's kind or none, and no future time.
  /\ \A t \in InitialTables, k \in Kinds, i \in Ids :
        t[k][i] # NoEntry => t[k][i].kind \in {"", k} /\ t[k][i].updatedAt <= 1

VARIABLES
  disk,     \* the committed tables
  conn,     \* who holds the one connection
  work,     \* work[r]: the tables as the transaction of r sees them
  pc,       \* where the handler of r is
  req,      \* the request r serves
  entry,    \* the entry the handler of r read
  reply,    \* the answer to r: was it a success, and what it showed
  clock,    \* time.Now
  calls     \* requests received so far

vars == <<disk, conn, work, pc, req, entry, reply, clock, calls>>

InTx == {"open", "ready", "drafted", "loaded", "bound", "saved", "failed"}
Phases == {"idle", "waiting", "replied"} \cup InTx

NoReply == [ok |-> FALSE, seen |-> {}]

\* The sets of tables whose SELECT may have succeeded.
Readable == IF Faulty THEN SUBSET Kinds ELSE {Kinds}

\* The handler's locals before it has any.
EmptyTables == [k \in Kinds |-> [i \in Ids |-> NoEntry]]
AnyRequest == CHOOSE q \in Inputs : TRUE

-----------------------------------------------------------------------------
Init ==
  /\ disk \in InitialTables
  /\ conn = NoRequest
  /\ work = [r \in Requests |-> EmptyTables]
  /\ pc = [r \in Requests |-> "idle"]
  /\ req = [r \in Requests |-> AnyRequest]
  /\ entry = [r \in Requests |-> NoEntry]
  /\ reply = [r \in Requests |-> NoReply]
  /\ clock = 1
  /\ calls = 0

\* A client sends a request.
Receive(r, q) ==
  /\ pc[r] = "idle"
  /\ calls < MaxCalls
  /\ calls' = calls + 1
  /\ pc' = [pc EXCEPT ![r] = "waiting"]
  /\ req' = [req EXCEPT ![r] = q]
  /\ UNCHANGED <<disk, conn, work, entry, reply, clock>>

\* Mutant: transactions do not exclude each other.
BeginShared(r) ==
  /\ pc[r] = "waiting"
  /\ conn' = r
  /\ work' = [work EXCEPT ![r] = disk]
  /\ pc' = [pc EXCEPT ![r] = "open"]
  /\ UNCHANGED <<disk, req, entry, reply, clock, calls>>

\* BeginTx takes the connection once it is free; InstallBuiltIns registers the
\* two content types, so that ensureType succeeds for both kinds.
Begin(r) ==
  /\ pc[r] = "waiting"
  /\ conn = NoRequest
  /\ conn' = r
  /\ work' = [work EXCEPT ![r] = disk]
  /\ pc' = [pc EXCEPT ![r] = "open"]
  /\ UNCHANGED <<disk, req, entry, reply, clock, calls>>

\* The client goes away while the request waits for the connection.
GiveUp(r) ==
  /\ pc[r] = "waiting"
  /\ pc' = [pc EXCEPT ![r] = "replied"]
  /\ reply' = [reply EXCEPT ![r] = NoReply]
  /\ UNCHANGED <<disk, conn, work, req, entry, clock, calls>>

\* REST checks the capability, and decodes the body of a create or an update,
\* inside the transaction; either may end the request with an error.
Reject(r) ==
  /\ req[r].surface = "rest"
  /\ \/ pc[r] = "open" /\ req[r].op # "read"
     \/ pc[r] = "loaded" /\ req[r].op = "update"
  /\ pc' = [pc EXCEPT ![r] = "failed"]
  /\ UNCHANGED <<disk, conn, work, req, entry, reply, clock, calls>>

\* The body of a REST request is read from the client while the transaction is
\* open; every other surface has read it before.
ReadBody(r) ==
  /\ \/ /\ pc[r] = "open" /\ req[r].op = "create"
        /\ pc' = [pc EXCEPT ![r] = "ready"]
     \/ /\ pc[r] = "loaded" /\ req[r].op = "update"
        /\ pc' = [pc EXCEPT ![r] = "bound"]
  /\ UNCHANGED <<disk, conn, work, req, entry, reply, clock, calls>>

\* The caller of CreateDraft goes on to Publish if the entry that was sent says so.
AfterDraft(q) == IF q.entry.status = "published" THEN "drafted" ELSE "saved"

CreateDraft(r) ==
  /\ pc[r] = "ready"
  /\ work' = [work EXCEPT
        ![r] = Save(work[r], req[r].id, Drafted(req[r].entry, req[r].kind, clock))]
  /\ pc' = [pc EXCEPT ![r] = AfterDraft(req[r])]
  /\ UNCHANGED <<disk, conn, req, entry, reply, clock, calls>>

\* Only the admin's update looks at the kind of what it found.
Acceptable(q, e) == q.surface = "bff" /\ q.op = "update" => e.kind = "post"

\* The handler reads the entry it is about to change.
Load(r) ==
  /\ \/ pc[r] = "open" /\ req[r].op \notin {"create", "read"}
     \/ pc[r] = "drafted"
  /\ \E readable \in Readable :
       LET id == req[r].id IN
       IF Found(work[r], id, readable) /\ Acceptable(req[r], Get(work[r], id, readable))
       THEN /\ entry' = [entry EXCEPT ![r] = Get(work[r], id, readable)]
            /\ pc' = [pc EXCEPT ![r] = "loaded"]
       ELSE /\ pc' = [pc EXCEPT ![r] = "failed"]
            /\ UNCHANGED entry
  /\ UNCHANGED <<disk, conn, work, req, reply, clock, calls>>

\* Mutant: Restore brings an entry back as it was most visible.
MutatedRestoring(q, e, now) ==
  IF q.op = "restore" THEN WithStatus(e, "published", now)
  ELSE IF q.op = "trash" THEN WithStatus(e, "trashed", now) ELSE Published(e, now)

\* What the operation makes of the entry that was read.
Mutated(q, e, now) ==
  CASE q.op \in {"publish", "create"} -> Published(e, now)
    [] q.op = "update"   -> Merged(e, q.entry, now)
    [] q.op = "schedule" -> Scheduled(e, q.entry.scheduledFor, now)
    [] q.op = "trash"    -> WithStatus(e, "trashed", now)
    [] q.op = "restore"  -> WithStatus(e, "draft", now)
    [] q.op = "archive"  -> WithStatus(e, "archived", now)

\* The handler writes the changed entry back, to the table of the entry's kind.
Store(r) ==
  LET e == Mutated(req[r], entry[r], clock) IN
  /\ pc[r] = (IF req[r].op = "update" THEN "bound" ELSE "loaded")
  /\ IF /\ Validate(e)
        /\ req[r].op = "schedule" => req[r].entry.scheduledFor # 0
     THEN /\ work' = [work EXCEPT ![r] = Save(work[r], req[r].id, e)]
          /\ pc' = [pc EXCEPT ![r] = "saved"]
     ELSE /\ pc' = [pc EXCEPT ![r] = "failed"]
          /\ UNCHANGED work
  /\ UNCHANGED <<disk, conn, req, entry, reply, clock, calls>>

\* The statement that writes fails; the transaction stays open.
StoreFails(r) ==
  /\ Faulty
  /\ pc[r] \in {"ready", "loaded", "bound"}
  /\ pc' = [pc EXCEPT ![r] = "failed"]
  /\ UNCHANGED <<disk, conn, work, req, entry, reply, clock, calls>>

\* The public site lists what it may show.
Read(r) ==
  /\ pc[r] = "open" /\ req[r].op = "read"
  /\ pc' = [pc EXCEPT ![r] = "saved"]
  /\ reply' = [reply EXCEPT ![r] = [ok |-> FALSE, seen |-> Visible(work[r])]]
  /\ UNCHANGED <<disk, conn, work, req, entry, clock, calls>>

\* Mutant: no error of a handler reaches WithinTx.
MayCommitAlways(r) == pc[r] \in {"saved", "failed"}

\* A REST handler returns no error to WithinTx whatever it answers.
MayCommit(r) == pc[r] = "saved" \/ (pc[r] = "failed" /\ req[r].surface = "rest")

\* The handler's locals are gone with its transaction.
Forget(r) ==
  /\ work' = [work EXCEPT ![r] = EmptyTables]
  /\ entry' = [entry EXCEPT ![r] = NoEntry]

\* The transaction commits, and the request is answered.
Commit(r) ==
  /\ conn = r
  /\ MayCommit(r)
  /\ disk' = work[r]
  /\ conn' = NoRequest
  /\ pc' = [pc EXCEPT ![r] = "replied"]
  /\ reply' = [reply EXCEPT ![r] =
        IF pc[r] = "saved" THEN [ok |-> TRUE, seen |-> reply[r].seen] ELSE NoReply]
  /\ Forget(r)
  /\ UNCHANGED <<req, clock, calls>>

\* Mutant: the connection is never given back.
RollbackLeaking(r) ==
  /\ pc[r] \in InTx
  /\ pc' = [pc EXCEPT ![r] = "replied"]
  /\ reply' = [reply EXCEPT ![r] = NoReply]
  /\ Forget(r)
  /\ UNCHANGED <<disk, conn, req, clock, calls>>

\* The transaction rolls back: the function returned an error, the client
\* disconnected and its context ended the transaction, or the commit failed.
Rollback(r) ==
  /\ conn = r
  /\ conn' = NoRequest
  /\ pc' = [pc EXCEPT ![r] = "replied"]
  /\ reply' = [reply EXCEPT ![r] = NoReply]
  /\ Forget(r)
  /\ UNCHANGED <<disk, req, clock, calls>>

\* The answer is sent, and the goroutine is free for the next request.
Answer(r) ==
  /\ pc[r] = "replied"
  /\ pc' = [pc EXCEPT ![r] = "idle"]
  /\ reply' = [reply EXCEPT ![r] = NoReply]
  /\ req' = [req EXCEPT ![r] = AnyRequest]
  /\ UNCHANGED <<disk, conn, work, entry, clock, calls>>

\* The process stops and starts again on the same database file.
Crash ==
  /\ \E r \in Requests : pc[r] # "idle"
  /\ conn' = NoRequest
  /\ pc' = [r \in Requests |-> "idle"]
  /\ reply' = [r \in Requests |-> NoReply]
  /\ work' = [r \in Requests |-> EmptyTables]
  /\ req' = [r \in Requests |-> AnyRequest]
  /\ entry' = [r \in Requests |-> NoEntry]
  /\ UNCHANGED <<disk, clock, calls>>

Tick ==
  /\ clock < MaxClock
  /\ clock' = clock + 1
  /\ UNCHANGED <<disk, conn, work, pc, req, entry, reply, calls>>

Handle(r) ==
  \/ Begin(r) \/ ReadBody(r) \/ CreateDraft(r) \/ Load(r) \/ Store(r)
  \/ Read(r) \/ Commit(r) \/ Answer(r)

Next ==
  \/ \E r \in Requests : \E q \in Inputs : Receive(r, q)
  \/ \E r \in Requests : Handle(r)
  \/ \E r \in Requests : GiveUp(r)
  \/ \E r \in Requests : Reject(r)
  \/ \E r \in Requests : StoreFails(r)
  \/ \E r \in Requests : Rollback(r)
  \/ Crash
  \/ Tick

Spec == Init /\ [][Next]_vars

-----------------------------------------------------------------------------
(***************************************************************************)
(* Correctness.                                                            *)
(***************************************************************************)

\* The types of the variables.
TypeOK ==
  /\ disk \in Tables
  /\ conn \in Requests \cup {NoRequest}
  /\ work \in [Requests -> Tables]
  /\ pc \in [Requests -> Phases]
  /\ req \in [Requests -> Inputs]
  /\ entry \in [Requests -> Entries \cup {NoEntry}]
  /\ reply \in [Requests -> [ok : BOOLEAN, seen : SUBSET (Kinds \X Ids)]]
  /\ clock \in Nat \ {0}
  /\ calls \in Nat

\* A row is filed in the table of its kind, or has no kind: Save goes by the
\* kind the entry carries and Get by the table it was found in, so a handler
\* that carried an entry without its kind, or with the other one, would move it.
HomeTable ==
  \A k \in Kinds, i \in Ids :
    /\ disk[k][i] # NoEntry => disk[k][i].kind \in {"", k}
    /\ \A r \in Requests : work[r][k][i] # NoEntry => work[r][k][i].kind \in {"", k}

\* No lost update: what a handler read, and is about to write back changed, is
\* still what the database holds, although the client may take its time to
\* send the body between the two (rest/routes.go reads the entry first).
ReadIsCurrent ==
  \A r \in Requests :
    pc[r] \in {"loaded", "bound"} /\ req[r].op # "create" =>
      \E k \in Kinds : /\ disk[k][req[r].id] # NoEntry
                       /\ entry[r] = WithContentKind(disk[k][req[r].id], k)

\* A request changes no entry but those under the id it names: the tables a
\* transaction writes back differ from the committed ones only there.
OnlyNamedEntryChanges ==
  [][\A k \in Kinds, i \in Ids :
       disk'[k][i] # disk[k][i] => \E r \in Requests : conn = r /\ req[r].id = i]_vars

CreatedAnew(k, i) ==
  disk'[k][i] # NoEntry /\ (disk[k][i] = NoEntry \/ disk'[k][i].createdAt # disk[k][i].createdAt)

\* Only a create brings a row into being, or changes its creation time when the id was
\* taken, and nothing ever takes a row away: an update or a transition that filed its
\* entry elsewhere would do both.
RowsComeFromCreate ==
  [][\A k \in Kinds, i \in Ids :
       /\ disk[k][i] # NoEntry => disk'[k][i] # NoEntry
       /\ CreatedAnew(k, i) =>
            \E r \in Requests : conn = r /\ req[r].op = "create" /\ req[r].kind = k]_vars

\* An entry becomes publicly visible only by a request that asked for it:
\* published, or the visibility of a published one opened up.  Drafts, trashed
\* and archived entries do not come back by any other operation.
ShownOnRequest ==
  [][\A k \in Kinds, i \in Ids :
       /\ disk'[k][i] # NoEntry /\ Shown(disk'[k][i])
       /\ ~(disk[k][i] # NoEntry /\ Shown(disk[k][i]))
       => \E r \in Requests :
            /\ conn = r
            /\ \/ req[r].op = "publish"
               \/ req[r].entry.status = "published"
               \/ req[r].op = "update" /\ req[r].entry.visibility = "public"]_vars

\* Time stamps of a row never run backwards, in the order the rows are
\* committed, and no committed row is from the future.
UpdatedAtAdvances ==
  [][\A k \in Kinds, i \in Ids :
       disk[k][i] # NoEntry /\ disk'[k][i] # disk[k][i] =>
         /\ disk[k][i].updatedAt <= disk'[k][i].updatedAt
         /\ disk'[k][i].updatedAt <= clock]_vars

(***************************************************************************)
(* The inductive invariant behind these: who holds the connection, what    *)
(* the steps of a handler imply about its request, and how the tables of   *)
(* an open transaction relate to the committed ones.                       *)
(***************************************************************************)
\* A transaction is open exactly for the holder of the connection.
Holder == \A r \in Requests : pc[r] \in InTx <=> conn = r

\* Where a handler is fits the request it serves.
StepsMatch ==
  \A r \in Requests :
    /\ pc[r] \in {"ready", "drafted"} => req[r].op = "create"
    /\ pc[r] = "loaded" => req[r].op # "read"
    /\ pc[r] = "bound" => req[r].op = "update"
    /\ pc[r] \in {"loaded", "bound"} => entry[r] \in Entries /\ entry[r].kind \in Kinds

\* Until it writes, a transaction sees the committed tables.
Fresh ==
  \A r \in Requests :
    \/ pc[r] \in {"open", "ready"}
    \/ pc[r] \in {"loaded", "bound"} /\ req[r].op # "create"
    => work[r] = disk

\* Outside the id its request names, it sees the committed tables all along.
Isolated ==
  \A r \in Requests, k \in Kinds, i \in Ids :
    pc[r] \in InTx /\ i # req[r].id => work[r][k][i] = disk[k][i]

\* The steps of concurrent handlers, failures and crashes leave the requests and
\* the one connection consistent: the parts above, HomeTable and ReadIsCurrent.
Inv == TypeOK /\ Holder /\ StepsMatch /\ Fresh /\ Isolated /\ HomeTable /\ ReadIsCurrent

\* Seen from outside, a request is waiting until its transaction has ended.
Atomic == INSTANCE AtomicContent WITH
  pc <- [r \in Requests |-> IF pc[r] \in InTx THEN "waiting" ELSE pc[r]],
  reply <- [r \in Requests |-> IF pc[r] \in InTx THEN NoReply ELSE reply[r]]

\* Requests are atomic: each takes effect at its commit and nothing of it shows
\* before, whatever crashes, disconnects and failures of statements come between
\* its steps, but for the draft a failed REST create may leave.
RequestsAreAtomic == Atomic!Spec

\* Fairness.  A handler goes on, and where it waits for the body of its request
\* the client sends it or disconnects, which ends the transaction; a waiting
\* BeginTx is served eventually, because database/sql hands a freed connection
\* to one of the callers that wait for it.
Fairness ==
  \A r \in Requests :
    /\ WF_vars(pc[r] # "waiting" /\ (Handle(r) \/ Rollback(r)))
    /\ SF_vars(Begin(r))

FairSpec == Spec /\ Fairness

\* Nobody waits for ever: every request that arrives is answered, although all
\* share one connection and one of them may hold it while its client is slow.
EveryRequestAnswered ==
  \A r \in Requests : pc[r] = "waiting" ~> pc[r] \in {"replied", "idle"}

-----------------------------------------------------------------------------
(***************************************************************************)
(* What the documentation says and the code does not do.                   *)
(***************************************************************************)

\* "Commits on success, rolls back on error": a request answered with an error
\* has left the tables alone.
ErrorsRollBack ==
  [][\A r \in Requests :
       conn = r /\ pc'[r] = "replied" /\ ~reply'[r].ok => disk' = disk]_vars
=============================================================================
