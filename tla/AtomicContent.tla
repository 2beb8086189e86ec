---------------------------- MODULE AtomicContent ----------------------------
(***************************************************************************)
(* What the requests of ContentRequests promise: between its arrival and   *)
(* its answer, each takes effect at one instant, or not at all.  There is  *)
(* no connection here, no transaction, and nothing is half done, with one  *)
(* exception: a REST create that was to publish and failed in between has  *)
(* left the draft behind.                                                  *)
(***************************************************************************)
EXTENDS Content

CONSTANTS Requests, Inputs, InitialTables, Readable, MaxCalls, MaxClock, NoReply

VARIABLES disk, pc, req, reply, clock, calls

vars == <<disk, pc, req, reply, clock, calls>>

AnyRequest == CHOOSE q \in Inputs : TRUE

Init ==
  /\ disk \in InitialTables
  /\ pc = [r \in Requests |-> "idle"]
  /\ req = [r \in Requests |-> AnyRequest]
  /\ reply = [r \in Requests |-> NoReply]
  /\ clock = 1
  /\ calls = 0

Receive(r, q) ==
  /\ pc[r] = "idle"
  /\ calls < MaxCalls
  /\ calls' = calls + 1
  /\ pc' = [pc EXCEPT ![r] = "waiting"]
  /\ req' = [req EXCEPT ![r] = q]
  /\ UNCHANGED <<disk, reply, clock>>

\* A draft saved at some instant up to now.
Drafts(q, tables) == {Save(tables, q.id, Drafted(q.entry, q.kind, t)) : t \in 1 .. clock}

\* What a transition or an update makes of what Get finds, whichever of the
\* tables could be read.
Changed(q, tables, Mutate(_, _)) ==
  {Save(tables, q.id, Mutate(Get(tables, q.id, k), t)) :
     k \in {k \in Readable : Found(tables, q.id, k)}, t \in 1 .. clock}

Effects(q, tables) ==
  CASE q.op = "read" -> {tables}
    [] q.op = "create" /\ q.entry.status # "published" -> Drafts(q, tables)
    [] q.op = "create" /\ q.entry.status = "published" ->
         UNION {Changed(q, t, Published) : t \in Drafts(q, tables)}
    [] q.op = "publish"  -> Changed(q, tables, Published)
    [] q.op = "update"   -> Changed(q, tables, LAMBDA e, t : Merged(e, q.entry, t))
    [] q.op = "schedule" ->
         Changed(q, tables, LAMBDA e, t : Scheduled(e, q.entry.scheduledFor, t))
    [] q.op = "trash"    -> Changed(q, tables, LAMBDA e, t : WithStatus(e, "trashed", t))
    [] q.op = "restore"  -> Changed(q, tables, LAMBDA e, t : WithStatus(e, "draft", t))
    [] q.op = "archive"  -> Changed(q, tables, LAMBDA e, t : WithStatus(e, "archived", t))

Succeed(r) ==
  /\ pc[r] = "waiting"
  /\ disk' \in Effects(req[r], disk)
  /\ pc' = [pc EXCEPT ![r] = "replied"]
  /\ reply' = [reply EXCEPT ![r] =
        [ok |-> TRUE, seen |-> IF req[r].op = "read" THEN Visible(disk) ELSE {}]]
  /\ UNCHANGED <<req, clock, calls>>

Residues(q, tables) ==
  IF q.surface = "rest" /\ q.op = "create" /\ q.entry.status = "published"
  THEN {tables} \cup Drafts(q, tables)
  ELSE {tables}

Fail(r) ==
  /\ pc[r] = "waiting"
  /\ disk' \in Residues(req[r], disk)
  /\ pc' = [pc EXCEPT ![r] = "replied"]
  /\ UNCHANGED <<req, reply, clock, calls>>

Answer(r) ==
  /\ pc[r] = "replied"
  /\ pc' = [pc EXCEPT ![r] = "idle"]
  /\ reply' = [reply EXCEPT ![r] = NoReply]
  /\ req' = [req EXCEPT ![r] = AnyRequest]
  /\ UNCHANGED <<disk, clock, calls>>

Crash ==
  /\ pc' = [r \in Requests |-> "idle"]
  /\ reply' = [r \in Requests |-> NoReply]
  /\ req' = [r \in Requests |-> AnyRequest]
  /\ UNCHANGED <<disk, clock, calls>>

Tick ==
  /\ clock < MaxClock
  /\ clock' = clock + 1
  /\ UNCHANGED <<disk, pc, req, reply, calls>>

Next ==
  \/ \E r \in Requests : \/ \E q \in Inputs : Receive(r, q)
                         \/ Succeed(r) \/ Fail(r) \/ Answer(r)
  \/ Crash
  \/ Tick

Spec == Init /\ [][Next]_vars
=============================================================================
