------------------------------ MODULE WorkerPool ------------------------------
(***************************************************************************)
(* internal/worker: a fixed number of worker goroutines that take tasks    *)
(* from a buffered channel, callers that Submit tasks, and callers that    *)
(* Shut the pool down, in every interleaving of their channel operations.  *)
(***************************************************************************)
EXTENDS Naturals, Sequences, FiniteSets

CONSTANTS
  Workers,   \* the goroutines New starts; their number is concurrency
  Callers,   \* goroutines that use the pool
  Tasks,     \* the tasks they may submit, each at most once
  NoTask     \* what a goroutine holds that has no task

ASSUME PoolAssumption ==
  /\ IsFiniteSet(Workers) /\ Workers # {}
  /\ NoTask \notin Tasks

\* make(chan Task, concurrency*2)
Capacity == 2 * Cardinality(Workers)

VARIABLES
  queue,      \* the buffered channel tasks
  closed,     \* has the channel been closed?
  cancelled,  \* has the context been cancelled?
  once,       \* the sync.Once of Shutdown: "new", "running" or "done"
  running,    \* running[w]: the task worker w executes, or NoTask
  exited,     \* the workers whose goroutine has ended
  at,         \* at[c]: where caller c is
  arg,        \* arg[c]: the task c is submitting, or NoTask
  accepted,   \* tasks some Submit put in the channel
  finished,   \* tasks that ran to completion
  dropped     \* tasks whose Submit returned without enqueueing them

vars == <<queue, closed, cancelled, once, running, exited, at, arg,
          accepted, finished, dropped>>

Places == {"idle", "submit", "shutdown", "wait", "cancel", "returned", "panicked"}

InQueue == {queue[i] : i \in DOMAIN queue}
Running == {running[w] : w \in Workers} \ {NoTask}
Seen == accepted \cup dropped \cup {arg[c] : c \in Callers}

Init ==
  /\ queue = <<>>
  /\ closed = FALSE /\ cancelled = FALSE
  /\ once = "new"
  /\ running = [w \in Workers |-> NoTask]
  /\ exited = {}
  /\ at = [c \in Callers |-> "idle"]
  /\ arg = [c \in Callers |-> NoTask]
  /\ accepted = {} /\ finished = {} /\ dropped = {}

-----------------------------------------------------------------------------
(* Workers: the loop of run. *)

\* Mutant: the task stays in the channel.
TakeKeeping(w) ==
  /\ w \notin exited /\ running[w] = NoTask
  /\ queue # <<>>
  /\ running' = [running EXCEPT ![w] = Head(queue)]
  /\ UNCHANGED <<queue, closed, cancelled, once, exited, at, arg, accepted, finished, dropped>>

Take(w) ==
  /\ w \notin exited /\ running[w] = NoTask
  /\ queue # <<>>
  /\ running' = [running EXCEPT ![w] = Head(queue)]
  /\ queue' = Tail(queue)
  /\ UNCHANGED <<closed, cancelled, once, exited, at, arg, accepted, finished, dropped>>

Finish(w) ==
  /\ running[w] # NoTask
  /\ finished' = finished \cup {running[w]}
  /\ running' = [running EXCEPT ![w] = NoTask]
  /\ UNCHANGED <<queue, closed, cancelled, once, exited, at, arg, accepted, dropped>>

\* Mutants: a worker stops at the close, whatever is buffered; a worker looks at
\* the context only.
ExitAtClose(w) ==
  /\ w \notin exited /\ running[w] = NoTask
  /\ closed \/ cancelled
  /\ exited' = exited \cup {w}
  /\ UNCHANGED <<queue, closed, cancelled, once, running, at, arg, accepted, finished, dropped>>
ExitAtCancel(w) ==
  /\ w \notin exited /\ running[w] = NoTask
  /\ cancelled
  /\ exited' = exited \cup {w}
  /\ UNCHANGED <<queue, closed, cancelled, once, running, at, arg, accepted, finished, dropped>>

\* A receive from the closed channel yields nothing once the buffer is empty; a
\* cancelled context may be chosen whatever the buffer holds.
Exit(w) ==
  /\ w \notin exited /\ running[w] = NoTask
  /\ (closed /\ queue = <<>>) \/ cancelled
  /\ exited' = exited \cup {w}
  /\ UNCHANGED <<queue, closed, cancelled, once, running, at, arg, accepted, finished, dropped>>

-----------------------------------------------------------------------------
(* Callers of Submit: one select between the send and the context. *)

CallSubmit(c, t) ==
  /\ at[c] = "idle"
  /\ t \notin Seen
  /\ at' = [at EXCEPT ![c] = "submit"]
  /\ arg' = [arg EXCEPT ![c] = t]
  /\ UNCHANGED <<queue, closed, cancelled, once, running, exited, accepted, finished, dropped>>

\* Mutant: the channel has no bound.
SendUnbounded(c) ==
  /\ at[c] = "submit"
  /\ ~closed
  /\ queue' = Append(queue, arg[c])
  /\ accepted' = accepted \cup {arg[c]}
  /\ at' = [at EXCEPT ![c] = "idle"]
  /\ arg' = [arg EXCEPT ![c] = NoTask]
  /\ UNCHANGED <<closed, cancelled, once, running, exited, finished, dropped>>

Send(c) ==
  /\ at[c] = "submit"
  /\ ~closed /\ Len(queue) < Capacity
  /\ queue' = Append(queue, arg[c])
  /\ accepted' = accepted \cup {arg[c]}
  /\ at' = [at EXCEPT ![c] = "idle"]
  /\ arg' = [arg EXCEPT ![c] = NoTask]
  /\ UNCHANGED <<closed, cancelled, once, running, exited, finished, dropped>>

\* A send on the closed channel panics, whether the caller arrives after the
\* close or was blocked on the full buffer when it happened.
SendPanics(c) ==
  /\ at[c] = "submit"
  /\ closed
  /\ at' = [at EXCEPT ![c] = "panicked"]
  /\ UNCHANGED <<queue, closed, cancelled, once, running, exited, arg,
                 accepted, finished, dropped>>

\* Submit returns nothing, so that its caller cannot tell this from Send.
SubmitGivesUp(c) ==
  /\ at[c] = "submit"
  /\ cancelled
  /\ dropped' = dropped \cup {arg[c]}
  /\ at' = [at EXCEPT ![c] = "idle"]
  /\ arg' = [arg EXCEPT ![c] = NoTask]
  /\ UNCHANGED <<queue, closed, cancelled, once, running, exited, accepted, finished>>

-----------------------------------------------------------------------------
(* Callers of Shutdown: the first does the work, the others wait for it. *)

CallShutdown(c) ==
  /\ at[c] = "idle"
  /\ at' = [at EXCEPT ![c] = "shutdown"]
  /\ UNCHANGED <<queue, closed, cancelled, once, running, exited, arg,
                 accepted, finished, dropped>>

\* Mutant: the context is cancelled first, to hurry the workers up.
CloseCancelling(c) ==
  /\ at[c] = "shutdown" /\ once = "new"
  /\ once' = "running"
  /\ closed' = TRUE /\ cancelled' = TRUE
  /\ at' = [at EXCEPT ![c] = "wait"]
  /\ UNCHANGED <<queue, running, exited, arg, accepted, finished, dropped>>

Close(c) ==
  /\ at[c] = "shutdown" /\ once = "new"
  /\ once' = "running"
  /\ closed' = TRUE
  /\ at' = [at EXCEPT ![c] = "wait"]
  /\ UNCHANGED <<queue, cancelled, running, exited, arg, accepted, finished, dropped>>

\* Mutant: Shutdown does not wait for the workers.
WaitNot(c) ==
  /\ at[c] = "wait"
  /\ at' = [at EXCEPT ![c] = "cancel"]
  /\ UNCHANGED <<queue, closed, cancelled, once, running, exited, arg,
                 accepted, finished, dropped>>

Wait(c) ==
  /\ at[c] = "wait"
  /\ exited = Workers
  /\ at' = [at EXCEPT ![c] = "cancel"]
  /\ UNCHANGED <<queue, closed, cancelled, once, running, exited, arg,
                 accepted, finished, dropped>>

Cancel(c) ==
  /\ at[c] = "cancel"
  /\ cancelled' = TRUE
  /\ once' = "done"
  /\ at' = [at EXCEPT ![c] = "returned"]
  /\ UNCHANGED <<queue, closed, running, exited, arg, accepted, finished, dropped>>

OnceDone(c) ==
  /\ at[c] = "shutdown" /\ once = "done"
  /\ at' = [at EXCEPT ![c] = "returned"]
  /\ UNCHANGED <<queue, closed, cancelled, once, running, exited, arg,
                 accepted, finished, dropped>>

Return(c) ==
  /\ at[c] = "returned"
  /\ at' = [at EXCEPT ![c] = "idle"]
  /\ UNCHANGED <<queue, closed, cancelled, once, running, exited, arg,
                 accepted, finished, dropped>>

-----------------------------------------------------------------------------
WorkerStep(w) == Take(w) \/ Finish(w) \/ Exit(w)
SubmitStep(c) == Send(c) \/ SendPanics(c) \/ SubmitGivesUp(c)
ShutdownStep(c) == Close(c) \/ Wait(c) \/ Cancel(c) \/ OnceDone(c) \/ Return(c)

Next ==
  \/ \E w \in Workers : WorkerStep(w)
  \/ \E c \in Callers : \/ \E t \in Tasks : CallSubmit(c, t)
                        \/ CallShutdown(c)
                        \/ SubmitStep(c)
                        \/ ShutdownStep(c)

Spec == Init /\ [][Next]_vars

\* Goroutines that can run do run: workers, and callers inside Submit or
\* Shutdown.  Tasks end.  Callers need not call anything.  Of several callers
\* blocked in a send the runtime serves the longest waiting, hence SF for Submit.
Fairness ==
  /\ \A w \in Workers : WF_vars(WorkerStep(w))
  /\ \A c \in Callers : SF_vars(SubmitStep(c)) /\ WF_vars(ShutdownStep(c))

FairSpec == Spec /\ Fairness

-----------------------------------------------------------------------------
\* The types of the variables.
TypeOK ==
  /\ queue \in Seq(Tasks)
  /\ closed \in BOOLEAN /\ cancelled \in BOOLEAN
  /\ once \in {"new", "running", "done"}
  /\ running \in [Workers -> Tasks \cup {NoTask}]
  /\ exited \subseteq Workers
  /\ at \in [Callers -> Places]
  /\ arg \in [Callers -> Tasks \cup {NoTask}]
  /\ accepted \subseteq Tasks /\ finished \subseteq Tasks /\ dropped \subseteq Tasks

\* Every accepted task is in exactly one place, once: in the buffer, with one
\* worker, or finished; so none is lost and none runs twice.
EachTaskOnce ==
  /\ accepted = InQueue \cup Running \cup finished
  /\ InQueue \cap Running = {}
  /\ InQueue \cap finished = {}
  /\ Running \cap finished = {}
  /\ \A i, j \in DOMAIN queue : queue[i] = queue[j] => i = j
  /\ \A v, w \in Workers : running[v] = running[w] /\ running[v] # NoTask => v = w

\* Shutdown returns, to whichever caller, only when every accepted task has run
\* to completion, those still in the buffer at the close included.
ShutdownDrains ==
  (\E c \in Callers : at[c] \in {"cancel", "returned"}) => accepted = finished

\* The context is cancelled only after the last task: no task ever sees it, and
\* no worker leaves tasks in the buffer because of it.
CancelIsLast == cancelled => exited = Workers /\ queue = <<>> /\ Running = {}

(***************************************************************************)
(* The inductive invariant behind these: the tasks callers hold are new,   *)
(* the Once lets one caller through, and a worker ends only when there is  *)
(* nothing left.                                                           *)
(***************************************************************************)
ArgsAreNew ==
  \A c \in Callers :
    /\ arg[c] = NoTask <=> at[c] \notin {"submit", "panicked"}
    /\ arg[c] \notin accepted \cup dropped
    /\ \A d \in Callers : arg[c] = arg[d] /\ arg[c] # NoTask => c = d

OneShutdown ==
  /\ closed <=> once # "new"
  /\ cancelled <=> once = "done"
  /\ cancelled => exited = Workers
  /\ \A c \in Callers :
       /\ at[c] \in {"wait", "cancel"} => once = "running"
       /\ at[c] = "cancel" => exited = Workers
       /\ at[c] = "returned" => once = "done"
       /\ \A d \in Callers :
            at[c] \in {"wait", "cancel"} /\ at[d] \in {"wait", "cancel"} => c = d

ExitsAreLast ==
  /\ exited # {} => closed /\ queue = <<>>
  /\ \A w \in exited : running[w] = NoTask

\* The pool is in a consistent state between any two steps of its goroutines: the
\* typing, the three parts above, and every accepted task in one place.
Inv == TypeOK /\ ArgsAreNew /\ OneShutdown /\ ExitsAreLast /\ EachTaskOnce

\* The pool never holds more than three tasks per worker: Submit pushes back.
Backlog == Cardinality(accepted \ finished) <= 3 * Cardinality(Workers)

\* How the state of the goroutines maps to that of the contract.
Contract == INSTANCE PoolContract WITH
  Concurrency <- Cardinality(Workers),
  open <- ~closed, down <- cancelled, pending <- InQueue, running <- Running

\* The pool keeps the contract of a bounded pool: the goroutines, the channel and
\* the Once implement PoolContract, in which Shutdown is one event that waits
\* for everything accepted.
KeepsContract == Contract!Spec

\* Every accepted task is run to completion.
AcceptedFinish == \A t \in Tasks : t \in accepted ~> t \in finished

\* No caller stays in Submit or in Shutdown for ever, the callers that lose the
\* race for the Once included.
CallsReturn ==
  \A c \in Callers : at[c] \notin {"idle", "panicked"} ~> at[c] \in {"idle", "panicked"}

(***************************************************************************)
(* What the comments of pool.go say.                                       *)
(***************************************************************************)

\* "Shutdown stops accepting new tasks": a Submit it overtakes is turned away,
\* rather than made to panic.
SubmitNeverPanics == \A c \in Callers : at[c] # "panicked"
=============================================================================
