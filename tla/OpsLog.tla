--------------------------------- MODULE OpsLog ---------------------------------
(***************************************************************************)
(* What the operations plugin remembers (internal/operations Store): audit *)
(* events of the exports and imports that succeeded, records of those, and *)
(* of the health checks, that failed.  Both lists are in memory and keep   *)
(* the newest `limit` elements.                                            *)
(*                                                                         *)
(* A request works in a transaction, one at a time, and tells the store    *)
(* when it is over, with nothing to hold requests in the order in which    *)
(* they committed.  Health says what it found in its answer too.           *)
(*                                                                         *)
(* What a snapshot holds is SiteServices'.                                 *)
(***************************************************************************)
EXTENDS Integers, Sequences, FiniteSets, SequencesExt

CONSTANTS
  Requests,    \* each is made at most once
  Op,          \* [Requests -> what it asks for]
  limit,       \* of each list: 100
  NoRequest
ASSUME OpsAssumption ==
  /\ Op \in [Requests -> {"export", "import", "health"}]
  /\ limit \in Nat \ {0}
  /\ NoRequest \notin Requests

VARIABLES
  at,       \* where each request is
  tx,     \* the request that has the connection
  audit, errors,
  after     \* ghost: the requests this process had answered when one was made

logVars == <<at, tx, audit, errors, after>>

Answered == {r \in Requests : at[r] \in {"ok", "error"}}

\* Mutant: the oldest are kept.
keepOldest(items, item) ==
  IF Len(items) = limit THEN items ELSE Append(items, item)

appendBounded(items, item) ==
  LET all == Append(items, item)
  IN  IF Len(all) > limit THEN SubSeq(all, Len(all) - limit + 1, Len(all)) ELSE all
-----------------------------------------------------------------------------
LogInit ==
  /\ at = [r \in Requests |-> "unmade"]
  /\ tx = NoRequest
  /\ audit = <<>> /\ errors = <<>>
  /\ after = [r \in Requests |-> {}]

Ask(r) ==
  /\ at[r] = "unmade"
  /\ at' = [at EXCEPT ![r] = "waiting"]
  /\ after' = [after EXCEPT ![r] = Answered]
  /\ UNCHANGED <<tx, audit, errors>>

\* The body of an import does not decode, or has another version.
Reject(r) ==
  /\ at[r] = "waiting" /\ Op[r] = "import"
  /\ at' = [at EXCEPT ![r] = "rejected"]
  /\ UNCHANGED <<tx, audit, errors, after>>

Begin(r) ==
  /\ at[r] = "waiting" /\ tx = NoRequest
  /\ at' = [at EXCEPT ![r] = "working"]
  /\ tx' = r
  /\ UNCHANGED <<audit, errors, after>>

Commit(r) ==
  /\ tx = r
  /\ at' = [at EXCEPT ![r] = "committed"]
  /\ tx' = NoRequest
  /\ UNCHANGED <<audit, errors, after>>

\* An error in the transaction, or waiting for it: the client goes away.
Fail(r) ==
  /\ at[r] \in {"waiting", "working"}
  /\ at' = [at EXCEPT ![r] = "failed"]
  /\ tx' = IF tx = r THEN NoRequest ELSE tx
  /\ UNCHANGED <<audit, errors, after>>

\* Mutant: the event is recorded before the outcome is known.
RecordAuditFirst(r) ==
  /\ at[r] \in {"committed", "failed"}
  /\ audit' = IF Op[r] = "health" THEN audit ELSE appendBounded(audit, r)
  /\ at' = [at EXCEPT ![r] = IF at[r] = "committed" THEN "ok" ELSE "error"]
  /\ UNCHANGED <<tx, errors, after>>

\* RecordAudit, and the answer.  A health check that went well leaves no event.
RecordAudit(r) ==
  /\ at[r] = "committed"
  /\ audit' = IF Op[r] = "health" THEN audit ELSE appendBounded(audit, r)
  /\ at' = [at EXCEPT ![r] = "ok"]
  /\ UNCHANGED <<tx, errors, after>>

RecordError(r) ==
  /\ at[r] = "failed"
  /\ errors' = appendBounded(errors, r)
  /\ at' = [at EXCEPT ![r] = "error"]
  /\ UNCHANGED <<tx, audit, after>>

\* The process stops, and with it the requests and what was remembered.
Crash ==
  /\ at' = [r \in Requests |-> IF at[r] = "unmade" THEN "unmade" ELSE "gone"]
  /\ tx' = NoRequest
  /\ audit' = <<>> /\ errors' = <<>>
  /\ UNCHANGED <<after>>

LogNext ==
  \/ \E r \in Requests :
       \/ Ask(r)
       \/ Reject(r)
       \/ Begin(r)
       \/ Commit(r)
       \/ Fail(r)
       \/ RecordAudit(r)
       \/ RecordError(r)
  \/ Crash

LogSpec == LogInit /\ [][LogNext]_logVars
-----------------------------------------------------------------------------
(***************************************************************************)
(* Properties.                                                             *)
(***************************************************************************)
\* Types; the lists are bounded, the connection is with a request that works.
LogTypeOK ==
  /\ at \in [Requests -> {"unmade", "waiting", "rejected", "working", "committed", "failed",
                          "ok", "error", "gone"}]
  /\ tx \in Requests \cup {NoRequest}
  /\ \A r \in Requests : tx = r <=> at[r] = "working"
  /\ Len(audit) <= limit /\ Len(errors) <= limit
  /\ ToSet(audit) \cup ToSet(errors) \subseteq Requests
  /\ after \in [Requests -> SUBSET Requests]

Audited == {r \in Requests : at[r] = "ok" /\ Op[r] # "health"}

\* What is in the lists took place, once, and came out as they say; and until a list is
\* full it has everything that was answered so.
LogHasEvents ==
  /\ ToSet(audit) \subseteq Audited /\ ToSet(errors) \subseteq {r \in Requests : at[r] = "error"}
  /\ IsInjective(audit) /\ IsInjective(errors)
  /\ Len(audit) < limit => Audited \subseteq ToSet(audit)
  /\ Len(errors) < limit => {r \in Requests : at[r] = "error"} \subseteq ToSet(errors)

InOrder(list) ==
  \A i, j \in DOMAIN list : list[i] \in after[list[j]] => i < j

\* The order of a list is an order of events: of two of which one was answered before the
\* other was asked for it comes first, and is the first to be pushed out.
LogIsInOrder ==
  /\ InOrder(audit) /\ InOrder(errors)
  /\ \A old, new \in Audited :
       old \in after[new] /\ old \in ToSet(audit) => new \in ToSet(audit)
  /\ \A old, new \in {r \in Requests : at[r] = "error"} :
       old \in after[new] /\ old \in ToSet(errors) => new \in ToSet(errors)

\* The lists tell what took place, in an order of events, however requests race to tell the
\* store of their ends, and whichever of them a crash cuts off.
LogIsTrue == LogTypeOK /\ LogHasEvents /\ LogIsInOrder
=============================================================================
