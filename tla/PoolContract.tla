----------------------------- MODULE PoolContract -----------------------------
(***************************************************************************)
(* What a bounded pool of workers promises, with no channel, no goroutine  *)
(* and no Once: a task is accepted while the pool is open and has room,    *)
(* is executed once, at most Concurrency of them at a time, and the pool   *)
(* is down only when nothing it accepted is left.                          *)
(***************************************************************************)
EXTENDS Naturals, FiniteSets

CONSTANTS Tasks, Concurrency

VARIABLES open, down, pending, running, finished

vars == <<open, down, pending, running, finished>>

Init ==
  /\ open = TRUE /\ down = FALSE
  /\ pending = {} /\ running = {} /\ finished = {}

Accept(t) ==
  /\ open
  /\ t \notin pending \cup running \cup finished
  /\ Cardinality(pending) < 2 * Concurrency
  /\ pending' = pending \cup {t}
  /\ UNCHANGED <<open, down, running, finished>>

Start(t) ==
  /\ t \in pending
  /\ Cardinality(running) < Concurrency
  /\ pending' = pending \ {t}
  /\ running' = running \cup {t}
  /\ UNCHANGED <<open, down, finished>>

Finish(t) ==
  /\ t \in running
  /\ running' = running \ {t}
  /\ finished' = finished \cup {t}
  /\ UNCHANGED <<open, down, pending>>

Close ==
  /\ open
  /\ open' = FALSE
  /\ UNCHANGED <<down, pending, running, finished>>

GoDown ==
  /\ ~open /\ ~down
  /\ pending = {} /\ running = {}
  /\ down' = TRUE
  /\ UNCHANGED <<open, pending, running, finished>>

Next ==
  \/ \E t \in Tasks : Accept(t) \/ Start(t) \/ Finish(t)
  \/ Close \/ GoDown

Spec == Init /\ [][Next]_vars
=============================================================================
