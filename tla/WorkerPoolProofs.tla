--------------------------- MODULE WorkerPoolProofs ---------------------------
(***************************************************************************)
(* Proofs about WorkerPool, for any number of workers, callers and tasks.  *)
(***************************************************************************)
EXTENDS WorkerPool, FiniteSetTheorems, TLAPS

Elements(q) == {q[i] : i \in DOMAIN q}
Distinct(q) == \A i, j \in DOMAIN q : q[i] = q[j] => i = j

\* Taking the head of a queue of distinct tasks removes that task from it.
LEMMA TailOfQueue ==
  ASSUME NEW q \in Seq(Tasks), q # <<>>, Distinct(q)
  PROVE  /\ Head(q) \in Tasks /\ Tail(q) \in Seq(Tasks)
         /\ Elements(Tail(q)) = Elements(q) \ {Head(q)}
         /\ Head(q) \in Elements(q)
         /\ Distinct(Tail(q))
<1>1. /\ Len(q) \in Nat \ {0} /\ DOMAIN q = 1 .. Len(q) /\ Head(q) = q[1]
      /\ Tail(q) \in Seq(Tasks) /\ Len(Tail(q)) = Len(q) - 1
      /\ DOMAIN Tail(q) = 1 .. Len(q) - 1
      /\ \A i \in 1 .. Len(q) - 1 : Tail(q)[i] = q[i + 1]
  OBVIOUS
<1>2. Head(q) \in Tasks /\ Head(q) \in Elements(q)
  BY <1>1 DEF Elements
<1>3. Elements(Tail(q)) \subseteq Elements(q) \ {Head(q)}
  BY <1>1 DEF Elements, Distinct
<1>4. ASSUME NEW t \in Elements(q) \ {Head(q)}
      PROVE  t \in Elements(Tail(q))
  <2>1. PICK i \in DOMAIN q : t = q[i]
    BY DEF Elements
  <2>2. i - 1 \in 1 .. Len(q) - 1 /\ Tail(q)[i - 1] = q[i]
    BY <1>1, <2>1
  <2> QED  BY <1>1, <2>1, <2>2 DEF Elements
<1>5. Distinct(Tail(q))
  BY <1>1 DEF Distinct
<1> QED
  BY <1>1, <1>2, <1>3, <1>4, <1>5

\* Appending a new task keeps the tasks distinct and adds just that one.
LEMMA AppendToQueue ==
  ASSUME NEW q \in Seq(Tasks), NEW t \in Tasks, t \notin Elements(q), Distinct(q)
  PROVE  /\ Append(q, t) \in Seq(Tasks)
         /\ Elements(Append(q, t)) = Elements(q) \cup {t}
         /\ Distinct(Append(q, t))
<1>1. /\ Len(q) \in Nat /\ DOMAIN q = 1 .. Len(q)
      /\ Append(q, t) \in Seq(Tasks)
      /\ DOMAIN Append(q, t) = 1 .. Len(q) + 1
      /\ \A i \in 1 .. Len(q) : Append(q, t)[i] = q[i]
      /\ Append(q, t)[Len(q) + 1] = t
  OBVIOUS
<1>2. Elements(Append(q, t)) \subseteq Elements(q) \cup {t}
  BY <1>1 DEF Elements
<1>3. Elements(q) \subseteq Elements(Append(q, t))
  BY <1>1 DEF Elements
<1>4. t \in Elements(Append(q, t))
  BY <1>1 DEF Elements
<1>5. Distinct(Append(q, t))
  BY <1>1 DEF Distinct, Elements
<1> QED
  BY <1>1, <1>2, <1>3, <1>4, <1>5

\* What changes no task's place keeps every task in one place.
LEMMA SamePlaces ==
  ASSUME EachTaskOnce, UNCHANGED <<queue, running, accepted, finished>>
  PROVE  EachTaskOnce'
BY DEF EachTaskOnce, InQueue, Running

-----------------------------------------------------------------------------
\* A new pool is empty and nobody has called it.
LEMMA InitInv == Init => Inv
<1> SUFFICES ASSUME Init PROVE Inv
  OBVIOUS
<1> USE DEF Init
<1>1. TypeOK
  <2>1. queue \in Seq(Tasks)
    OBVIOUS
  <2>2. at \in [Callers -> Places] /\ arg \in [Callers -> Tasks \cup {NoTask}]
    BY DEF Places
  <2>3. running \in [Workers -> Tasks \cup {NoTask}] /\ exited \subseteq Workers
    OBVIOUS
  <2>4. accepted \subseteq Tasks /\ finished \subseteq Tasks /\ dropped \subseteq Tasks
    OBVIOUS
  <2> QED  BY <2>1, <2>2, <2>3, <2>4 DEF TypeOK
<1>2. ArgsAreNew
  BY DEF ArgsAreNew
<1>3. OneShutdown
  BY DEF OneShutdown
<1>4. ExitsAreLast
  BY DEF ExitsAreLast
<1>5. EachTaskOnce
  BY DEF EachTaskOnce, InQueue, Running
<1> QED
  BY <1>1, <1>2, <1>3, <1>4, <1>5 DEF Inv

\* A worker takes the head of the channel: the task moves from the one to the other.
LEMMA TakeInv ==
  ASSUME Inv, NEW w \in Workers, Take(w)
  PROVE  Inv'
<1> USE DEF Inv, Take
<1>1. queue \in Seq(Tasks) /\ Distinct(queue) /\ InQueue = Elements(queue)
  BY DEF TypeOK, EachTaskOnce, Distinct, Elements, InQueue
<1>2. /\ Head(queue) \in Tasks /\ queue' \in Seq(Tasks)
      /\ InQueue' = InQueue \ {Head(queue)}
      /\ Head(queue) \in InQueue
      /\ Distinct(queue')
  <2>1. InQueue' = Elements(Tail(queue))
    BY DEF Elements, InQueue
  <2> QED  BY <1>1, <2>1, TailOfQueue
<1>3. Head(queue) # NoTask
  BY <1>2, PoolAssumption
<1>4. \A v \in Workers : running'[v] = IF v = w THEN Head(queue) ELSE running[v]
  BY DEF TypeOK
<1>5. Running' = Running \cup {Head(queue)}
  BY <1>3, <1>4 DEF Running
<1>6. TypeOK'
  BY <1>2 DEF TypeOK
<1>7. ArgsAreNew' /\ OneShutdown'
  BY DEF ArgsAreNew, OneShutdown
<1>8. ExitsAreLast'
  BY <1>4 DEF ExitsAreLast
<1>9. EachTaskOnce'
  <2>1. \A v \in Workers : running[v] # Head(queue)
    BY <1>2, <1>3 DEF EachTaskOnce, Running
  <2>2. \A u, v \in Workers : running'[u] = running'[v] /\ running'[u] # NoTask => u = v
    BY <1>4, <2>1 DEF EachTaskOnce
  <2>3. \A i, j \in DOMAIN queue' : queue'[i] = queue'[j] => i = j
    BY <1>2 DEF Distinct
  <2>4. UNCHANGED <<accepted, finished>>
    OBVIOUS
  <2> HIDE DEF Take
  <2> QED  BY <1>2, <1>5, <2>2, <2>3, <2>4 DEF EachTaskOnce
<1> QED
  BY <1>6, <1>7, <1>8, <1>9

\* A task ends: it moves from its worker to the finished ones.
LEMMA FinishInv ==
  ASSUME Inv, NEW w \in Workers, Finish(w)
  PROVE  Inv'
<1> USE DEF Inv, Finish
<1>1. running[w] \in Tasks
  BY DEF TypeOK
<1>2. \A v \in Workers : running'[v] = IF v = w THEN NoTask ELSE running[v]
  BY DEF TypeOK
<1>3. Running' = Running \ {running[w]}
  BY <1>2 DEF Running, EachTaskOnce
<1>4. running[w] \in Running
  BY DEF Running
<1>5. TypeOK'
  BY <1>1 DEF TypeOK
<1>6. ArgsAreNew' /\ OneShutdown'
  BY DEF ArgsAreNew, OneShutdown
<1>7. ExitsAreLast'
  BY <1>2 DEF ExitsAreLast
<1>8. EachTaskOnce'
  <2>1. InQueue' = InQueue
    BY DEF InQueue
  <2>2. \A u, v \in Workers : running'[u] = running'[v] /\ running'[u] # NoTask => u = v
    BY <1>2 DEF EachTaskOnce
  <2>3. /\ queue' = queue /\ accepted' = accepted
        /\ finished' = finished \cup {running[w]}
    OBVIOUS
  <2> HIDE DEF Finish
  <2> QED  BY <1>3, <1>4, <2>1, <2>2, <2>3 DEF EachTaskOnce
<1> QED
  BY <1>5, <1>6, <1>7, <1>8

\* A worker ends only on the empty channel, the context being cancelled later.
LEMMA ExitInv ==
  ASSUME Inv, NEW w \in Workers, Exit(w)
  PROVE  Inv'
<1> USE DEF Inv, Exit
<1>1. TypeOK'
  BY DEF TypeOK
<1>2. ArgsAreNew' /\ EachTaskOnce'
  BY SamePlaces DEF ArgsAreNew
<1>3. OneShutdown'
  BY DEF OneShutdown, TypeOK
<1>4. ExitsAreLast'
  BY PoolAssumption DEF ExitsAreLast, OneShutdown
<1> QED
  BY <1>1, <1>2, <1>3, <1>4

\* A caller that returns from Submit holds no task, and the one it held, now
\* accepted or dropped, is nobody else's.
LEMMA ReturnsArg ==
  ASSUME Inv, NEW c \in Callers, at[c] = "submit",
         at' = [at EXCEPT ![c] = "idle"],
         arg' = [arg EXCEPT ![c] = NoTask],
         accepted' \cup dropped' = accepted \cup dropped \cup {arg[c]}
  PROVE  ArgsAreNew'
<1> USE DEF Inv
<1>1. arg[c] # NoTask /\ NoTask \notin accepted' \cup dropped'
  BY PoolAssumption DEF ArgsAreNew, TypeOK
<1>2. \A d \in Callers : /\ at'[d] = IF d = c THEN "idle" ELSE at[d]
                         /\ arg'[d] = IF d = c THEN NoTask ELSE arg[d]
  BY DEF TypeOK
<1>3. \A d \in Callers : d # c => arg[d] # arg[c]
  BY <1>1 DEF ArgsAreNew
<1> SUFFICES ASSUME NEW d \in Callers
             PROVE  /\ arg'[d] = NoTask <=> at'[d] \notin {"submit", "panicked"}
                    /\ arg'[d] \notin accepted' \cup dropped'
                    /\ \A x \in Callers : arg'[d] = arg'[x] /\ arg'[d] # NoTask => d = x
  BY DEF ArgsAreNew
<1>4. arg'[d] = NoTask <=> at'[d] \notin {"submit", "panicked"}
  BY <1>2 DEF ArgsAreNew
<1>5. arg'[d] \notin accepted' \cup dropped'
  BY <1>1, <1>2, <1>3 DEF ArgsAreNew
<1>6. \A x \in Callers : arg'[d] = arg'[x] /\ arg'[d] # NoTask => d = x
  BY <1>2 DEF ArgsAreNew
<1> QED
  BY <1>4, <1>5, <1>6

\* A send moves a new task from its caller to the channel.
LEMMA SendInv ==
  ASSUME Inv, NEW c \in Callers, Send(c)
  PROVE  Inv'
<1> USE DEF Inv, Send
<1>1. arg[c] \in Tasks /\ arg[c] \notin accepted
  BY DEF ArgsAreNew, TypeOK
<1>2. queue \in Seq(Tasks) /\ Distinct(queue) /\ InQueue = Elements(queue)
  BY DEF TypeOK, EachTaskOnce, Distinct, Elements, InQueue
<1>3. arg[c] \notin InQueue
  BY <1>1 DEF EachTaskOnce
<1>4. queue' \in Seq(Tasks) /\ InQueue' = InQueue \cup {arg[c]} /\ Distinct(queue')
  <2>1. InQueue' = Elements(Append(queue, arg[c]))
    BY DEF Elements, InQueue
  <2> QED  BY <1>1, <1>2, <1>3, <2>1, AppendToQueue
<1>5. TypeOK'
  BY <1>1, <1>4 DEF TypeOK, Places
<1>6. ArgsAreNew'
  BY <1>1, ReturnsArg
<1>7. OneShutdown'
  BY DEF OneShutdown, TypeOK
<1>8. ExitsAreLast'
  BY DEF ExitsAreLast
<1>9. EachTaskOnce'
  <2>1. \A i, j \in DOMAIN queue' : queue'[i] = queue'[j] => i = j
    BY <1>4 DEF Distinct
  <2>2. /\ Running' = Running /\ finished' = finished
        /\ accepted' = accepted \cup {arg[c]} /\ running' = running
    BY DEF Running
  <2> HIDE DEF Send
  <2> QED  BY <1>1, <1>4, <2>1, <2>2 DEF EachTaskOnce
<1> QED
  BY <1>5, <1>6, <1>7, <1>8, <1>9

\* A caller comes with a task nobody else holds.
LEMMA CallSubmitInv ==
  ASSUME Inv, NEW c \in Callers, NEW t \in Tasks, CallSubmit(c, t)
  PROVE  Inv'
<1> USE DEF Inv, CallSubmit
<1>1. \A d \in Callers : /\ at'[d] = IF d = c THEN "submit" ELSE at[d]
                         /\ arg'[d] = IF d = c THEN t ELSE arg[d]
  BY DEF TypeOK
<1>2. t # NoTask /\ t \notin accepted \cup dropped /\ \A d \in Callers : t # arg[d]
  BY PoolAssumption DEF Seen
<1>3. TypeOK'
  BY DEF TypeOK, Places
<1>4. ArgsAreNew'
  BY <1>1, <1>2 DEF ArgsAreNew
<1>5. OneShutdown'
  BY <1>1 DEF OneShutdown
<1>6. ExitsAreLast' /\ EachTaskOnce'
  BY SamePlaces DEF ExitsAreLast
<1> QED
  BY <1>3, <1>4, <1>5, <1>6

\* A caller that gives up returns without its task.
LEMMA SubmitGivesUpInv ==
  ASSUME Inv, NEW c \in Callers, SubmitGivesUp(c)
  PROVE  Inv'
<1> USE DEF Inv, SubmitGivesUp
<1>1. arg[c] \in Tasks
  BY DEF ArgsAreNew, TypeOK
<1>2. TypeOK'
  BY <1>1 DEF TypeOK, Places
<1>3. ArgsAreNew'
  BY ReturnsArg
<1>4. \A d \in Callers : at'[d] = IF d = c THEN "idle" ELSE at[d]
  BY DEF TypeOK
<1>5. OneShutdown'
  BY <1>4 DEF OneShutdown
<1>6. ExitsAreLast' /\ EachTaskOnce'
  BY SamePlaces DEF ExitsAreLast
<1> QED
  BY <1>2, <1>3, <1>5, <1>6

\* The steps that move a caller and touch neither tasks nor workers.
LEMMA CallerInv ==
  ASSUME Inv, NEW c \in Callers, SendPanics(c) \/ CallShutdown(c) \/ ShutdownStep(c)
  PROVE  Inv'
<1> USE DEF Inv, SendPanics, CallShutdown, ShutdownStep, Close, Wait, Cancel, OnceDone, Return
<1>1. PICK p \in Places : at' = [at EXCEPT ![c] = p]
  BY DEF Places
<1>2. \A d \in Callers : at'[d] = IF d = c THEN p ELSE at[d]
  BY <1>1 DEF TypeOK
<1>3. UNCHANGED <<queue, running, exited, arg, accepted, finished, dropped>>
  OBVIOUS
<1>4. TypeOK'
  <2>1. closed' \in BOOLEAN /\ cancelled' \in BOOLEAN /\ once' \in {"new", "running", "done"}
    BY DEF TypeOK
  <2>2. at' \in [Callers -> Places]
    BY <1>1 DEF TypeOK
  <2> QED  BY <1>3, <2>1, <2>2 DEF TypeOK
<1>5. ArgsAreNew'
  <2>1. at[c] \in {"submit", "panicked"} <=> at'[c] \in {"submit", "panicked"}
    BY DEF TypeOK
  <2> QED  BY <1>2, <1>3, <2>1 DEF ArgsAreNew
<1>6. OneShutdown'
  <2>1. CASE SendPanics(c) \/ CallShutdown(c)
    BY <1>2, <2>1 DEF OneShutdown, TypeOK
  <2>2. CASE Close(c)
    BY <1>2, <2>2 DEF OneShutdown, TypeOK
  <2>3. CASE Wait(c)
    BY <1>2, <2>3 DEF OneShutdown, TypeOK
  <2>4. CASE Cancel(c)
    BY <1>2, <2>4 DEF OneShutdown, TypeOK
  <2>5. CASE OnceDone(c) \/ Return(c)
    BY <1>2, <2>5 DEF OneShutdown, TypeOK
  <2> QED  BY <2>1, <2>2, <2>3, <2>4, <2>5
<1>7. ExitsAreLast'
  <2>1. closed => closed'
    OBVIOUS
  <2> QED  BY <1>3, <2>1 DEF ExitsAreLast
<1>8. EachTaskOnce'
  BY <1>3, SamePlaces
<1> QED
  BY <1>4, <1>5, <1>6, <1>7, <1>8

\* Every step keeps the invariant.
LEMMA NextInv == Inv /\ [Next]_vars => Inv'
<1>1. Inv /\ UNCHANGED vars => Inv'
  <2> SUFFICES ASSUME Inv, UNCHANGED vars
               PROVE  Inv'
    OBVIOUS
  <2>1. TypeOK' /\ EachTaskOnce'
    BY SamePlaces DEF Inv, vars, TypeOK
  <2>2. ArgsAreNew' /\ OneShutdown' /\ ExitsAreLast'
    BY DEF Inv, vars, ArgsAreNew, OneShutdown, ExitsAreLast
  <2> QED  BY <2>1, <2>2 DEF Inv
<1> QED
  BY <1>1, TakeInv, FinishInv, ExitInv, SendInv, CallSubmitInv, SubmitGivesUpInv, CallerInv
     DEF Next, WorkerStep, SubmitStep

\* The inductive invariant holds of every behaviour of the pool.
THEOREM InvHolds == Spec => []Inv
BY InitInv, NextInv, PTL DEF Spec

\* No accepted task is lost and none runs twice, whatever Submits and Shutdowns
\* race with the workers.
THEOREM EachTaskOnceHolds == Spec => []EachTaskOnce
<1>1. Inv => EachTaskOnce
  BY DEF Inv
<1> QED
  BY <1>1, InvHolds, PTL

\* When every worker has ended nothing is left anywhere.
LEMMA ExitedMeansDrained ==
  ASSUME Inv, exited = Workers
  PROVE  queue = <<>> /\ Running = {} /\ accepted = finished
<1>1. queue = <<>> /\ \A w \in Workers : running[w] = NoTask
  BY PoolAssumption DEF Inv, ExitsAreLast
<1>2. InQueue = {} /\ Running = {}
  BY <1>1 DEF InQueue, Running
<1> QED
  BY <1>1, <1>2 DEF Inv, EachTaskOnce

\* Whoever returns from Shutdown finds every accepted task finished: the caller
\* that ran the Once waited for all workers, and the others waited for it.
THEOREM ShutdownDrainsHolds == Spec => []ShutdownDrains
<1>1. Inv => ShutdownDrains
  <2> SUFFICES ASSUME Inv, NEW c \in Callers, at[c] \in {"cancel", "returned"}
               PROVE  accepted = finished
    BY DEF ShutdownDrains
  <2>1. exited = Workers
    BY DEF Inv, OneShutdown
  <2> QED  BY <2>1, ExitedMeansDrained
<1> QED
  BY <1>1, InvHolds, PTL

\* No task and no worker ever meets the cancelled context.
THEOREM CancelIsLastHolds == Spec => []CancelIsLast
<1>1. Inv => CancelIsLast
  BY ExitedMeansDrained DEF CancelIsLast, Inv, OneShutdown
<1> QED
  BY <1>1, InvHolds, PTL

-----------------------------------------------------------------------------
\* The tasks in the channel are no more than its length.
LEMMA QueueCardinality ==
  ASSUME TypeOK
  PROVE  IsFiniteSet(InQueue) /\ Cardinality(InQueue) <= Len(queue)
<1>1. Len(queue) \in Nat /\ DOMAIN queue = 1 .. Len(queue)
  BY DEF TypeOK
<1>2. queue \in [1 .. Len(queue) -> InQueue]
  BY <1>1 DEF TypeOK, InQueue
<1>3. queue \in Surjection(1 .. Len(queue), InQueue)
  BY <1>1, <1>2 DEF Surjection, InQueue
<1>4. IsFiniteSet(1 .. Len(queue)) /\ Cardinality(1 .. Len(queue)) = Len(queue)
  <2> DEFINE n == Len(queue)
  <2>1. n \in Nat
    BY <1>1
  <2> HIDE DEF n
  <2>2. IsFiniteSet(1 .. n) /\ Cardinality(1 .. n) = IF 1 > n THEN 0 ELSE n - 1 + 1
    BY <2>1, FS_Interval
  <2>3. Cardinality(1 .. n) = n
    BY <2>1, <2>2
  <2> QED  BY <2>2, <2>3 DEF n
<1> QED
  BY <1>3, <1>4, FS_Surjection

\* The running tasks are no more than any workers among whom are all that have one.
LEMMA RunningCardinality ==
  ASSUME TypeOK, NEW B \in SUBSET Workers, \A w \in Workers \ B : running[w] = NoTask
  PROVE  IsFiniteSet(Running) /\ Cardinality(Running) <= Cardinality(B)
<1> DEFINE busy == {w \in B : running[w] # NoTask}
           task == [w \in busy |-> running[w]]
<1>1. IsFiniteSet(B) /\ IsFiniteSet(busy) /\ Cardinality(busy) <= Cardinality(B)
  <2>1. IsFiniteSet(B)
    BY PoolAssumption, FS_Subset
  <2> QED  BY <2>1, FS_Subset
<1>2. task \in Surjection(busy, Running)
  BY DEF Surjection, Running
<1>3. IsFiniteSet(Running) /\ Cardinality(Running) <= Cardinality(busy)
  <2> HIDE DEF busy, task
  <2> QED  BY <1>1, <1>2, FS_Surjection
<1>4. Cardinality(Running) \in Nat /\ Cardinality(busy) \in Nat /\ Cardinality(B) \in Nat
  BY <1>1, <1>3, FS_CardinalityType
<1> QED
  BY <1>1, <1>3, <1>4

\* Nobody sends to the full channel.
QueueBounded == Len(queue) <= Capacity

\* The capacity of the channel is a number: workers are finitely many.
LEMMA CapacityType == Capacity \in Nat /\ Cardinality(Workers) \in Nat
BY PoolAssumption, FS_CardinalityType DEF Capacity

\* Only a send makes the channel longer, and it needs room.
LEMMA QueueStaysBounded == Inv /\ QueueBounded /\ [Next]_vars => QueueBounded'
<1> SUFFICES ASSUME Inv, QueueBounded, [Next]_vars
             PROVE  QueueBounded'
  OBVIOUS
<1>1. queue \in Seq(Tasks) /\ Capacity \in Nat /\ Capacity' = Capacity
  BY CapacityType DEF Inv, TypeOK, Capacity
<1>2. ASSUME NEW w \in Workers, Take(w) PROVE QueueBounded'
  <2>1. Len(Tail(queue)) = Len(queue) - 1
    BY <1>1, <1>2 DEF Take
  <2> QED  BY <1>1, <1>2, <2>1 DEF Take, QueueBounded
<1>3. ASSUME NEW c \in Callers, Send(c) PROVE QueueBounded'
  <2>1. Len(queue') = Len(queue) + 1 /\ Len(queue) < Capacity
    BY <1>1, <1>3 DEF Send
  <2> QED  BY <1>1, <2>1 DEF QueueBounded
<1>4. UNCHANGED queue => QueueBounded'
  BY <1>1 DEF QueueBounded
<1> QED
  BY <1>2, <1>3, <1>4
     DEF Next, vars, WorkerStep, SubmitStep, ShutdownStep, CallSubmit, CallShutdown, Finish, Exit,
         SendPanics, SubmitGivesUp, Close, Wait, Cancel, OnceDone, Return

\* The channel never holds more than its capacity.
LEMMA QueueBoundedHolds == Spec => []QueueBounded
<1>1. Init => QueueBounded
  BY CapacityType DEF Init, QueueBounded
<1> QED
  BY <1>1, QueueStaysBounded, InvHolds, PTL DEF Spec

\* What is accepted and not finished is in the channel or with a worker: at most
\* two tasks and one for each of them.
THEOREM BacklogHolds == Spec => []Backlog
<1>1. Inv /\ QueueBounded => Backlog
  <2> SUFFICES ASSUME Inv, QueueBounded PROVE Backlog
    OBVIOUS
  <2>1. TypeOK /\ accepted \ finished = InQueue \cup Running
    BY DEF Inv, EachTaskOnce
  <2>2. IsFiniteSet(InQueue) /\ Cardinality(InQueue) <= Len(queue)
    BY <2>1, QueueCardinality
  <2>3. IsFiniteSet(Running) /\ Cardinality(Running) <= Cardinality(Workers)
    BY <2>1, RunningCardinality
  <2>4. /\ Cardinality(InQueue \cup Running)
             = Cardinality(InQueue) + Cardinality(Running) - Cardinality(InQueue \cap Running)
        /\ IsFiniteSet(InQueue \cap Running)
    BY <2>2, <2>3, FS_Union, FS_Intersection
  <2>5. /\ Cardinality(InQueue) \in Nat /\ Cardinality(Running) \in Nat
        /\ Cardinality(InQueue \cap Running) \in Nat
    BY <2>2, <2>3, <2>4, FS_CardinalityType
  <2>6. Len(queue) \in Nat /\ Len(queue) <= 2 * Cardinality(Workers)
    BY <2>1 DEF QueueBounded, Capacity, TypeOK
  <2>7. Cardinality(InQueue \cup Running) <= 3 * Cardinality(Workers)
    BY <2>2, <2>3, <2>4, <2>5, <2>6, CapacityType
  <2>8. Cardinality(accepted \ finished) = Cardinality(InQueue \cup Running)
    BY <2>1
  <2> QED  BY <2>7, <2>8 DEF Backlog
<1> QED
  BY <1>1, QueueBoundedHolds, InvHolds, PTL

-----------------------------------------------------------------------------
(***************************************************************************)
(* The pool implements its contract: Take is Start, Send is Accept, Finish *)
(* and Close are themselves, Cancel is GoDown, and nothing else shows.     *)
(***************************************************************************)

\* The contract counts as the pool does.
LEMMA SameCardinality ==
  ASSUME NEW S
  PROVE  Contract!Cardinality(S) = Cardinality(S)
BY DEF Cardinality, Contract!Cardinality

\* A task is taken by a worker that has none, so that fewer than all were running.
LEMMA TakeStarts ==
  ASSUME Inv, NEW w \in Workers, Take(w)
  PROVE  Contract!Start(Head(queue))
<1> DEFINE t == Head(queue)
<1>1. /\ queue \in Seq(Tasks) /\ queue # <<>> /\ Distinct(queue)
      /\ InQueue = Elements(queue) /\ InQueue' = Elements(Tail(queue))
  BY DEF Inv, TypeOK, EachTaskOnce, Distinct, Elements, InQueue, Take
<1>2. t \in Tasks /\ t \in InQueue /\ InQueue' = InQueue \ {t}
  BY <1>1, TailOfQueue
<1>3. \A v \in Workers : running'[v] = IF v = w THEN t ELSE running[v]
  BY DEF Inv, TypeOK, Take
<1>4. Running' = Running \cup {t}
  <2>1. t # NoTask /\ running[w] = NoTask
    BY <1>2, PoolAssumption DEF Take
  <2> QED  BY <1>3, <2>1 DEF Running
<1>5. Cardinality(Running) < Cardinality(Workers)
  <2>1. /\ Cardinality(Workers \ {w}) = Cardinality(Workers) - 1
        /\ IsFiniteSet(Workers \ {w})
    BY PoolAssumption, FS_RemoveElement
  <2>2. IsFiniteSet(Running) /\ Cardinality(Running) <= Cardinality(Workers \ {w})
    <3>1. \A v \in Workers \ (Workers \ {w}) : running[v] = NoTask
      BY DEF Take
    <3> QED  BY <3>1, RunningCardinality DEF Inv
  <2>3. Cardinality(Running) \in Nat /\ Cardinality(Workers) \in Nat
    BY <2>2, CapacityType, FS_CardinalityType
  <2> QED  BY <2>1, <2>2, <2>3
<1>6. UNCHANGED <<closed, cancelled, finished>>
  BY DEF Take
<1> QED
  BY <1>2, <1>4, <1>5, <1>6, SameCardinality DEF Contract!Start

\* A task that is sent is new, and the channel has room for it.
LEMMA SendAccepts ==
  ASSUME Inv, NEW c \in Callers, Send(c)
  PROVE  arg[c] \in Tasks /\ Contract!Accept(arg[c])
<1>1. /\ queue \in Seq(Tasks) /\ Distinct(queue)
      /\ InQueue = Elements(queue) /\ InQueue' = Elements(Append(queue, arg[c]))
  BY DEF Inv, TypeOK, EachTaskOnce, Distinct, Elements, InQueue, Send
<1>2. arg[c] \in Tasks /\ arg[c] \notin InQueue \cup Running \cup finished
  BY DEF Inv, ArgsAreNew, TypeOK, EachTaskOnce, Send
<1>3. InQueue' = InQueue \cup {arg[c]}
  BY <1>1, <1>2, AppendToQueue
<1>4. Cardinality(InQueue) < 2 * Cardinality(Workers)
  <2>1. IsFiniteSet(InQueue) /\ Cardinality(InQueue) <= Len(queue)
    BY QueueCardinality DEF Inv
  <2>2. Cardinality(InQueue) \in Nat /\ Len(queue) \in Nat /\ Cardinality(Workers) \in Nat
    BY <1>1, <2>1, CapacityType, FS_CardinalityType
  <2> QED  BY <2>1, <2>2 DEF Send, Capacity
<1>5. ~closed /\ Running' = Running /\ UNCHANGED <<closed, cancelled, finished>>
  BY DEF Send, Running
<1> QED
  BY <1>2, <1>3, <1>4, <1>5, SameCardinality DEF Contract!Accept

\* A task that ends leaves its worker.
LEMMA FinishFinishes ==
  ASSUME Inv, NEW w \in Workers, Finish(w)
  PROVE  running[w] \in Tasks /\ Contract!Finish(running[w])
<1>1. running[w] \in Tasks /\ running[w] \in Running
  BY DEF Inv, TypeOK, Finish, Running
<1>2. \A v \in Workers : running'[v] = IF v = w THEN NoTask ELSE running[v]
  BY DEF Inv, TypeOK, Finish
<1>3. Running' = Running \ {running[w]}
  BY <1>2 DEF Running, Inv, EachTaskOnce, Finish
<1>4. InQueue' = InQueue /\ finished' = finished \cup {running[w]} /\ UNCHANGED <<closed, cancelled>>
  BY DEF InQueue, Finish
<1> QED
  BY <1>1, <1>3, <1>4 DEF Contract!Finish

\* The caller that ran the Once cancels when every worker has ended.
LEMMA CancelGoesDown ==
  ASSUME Inv, NEW c \in Callers, Cancel(c)
  PROVE  Contract!GoDown
<1>1. exited = Workers /\ once = "running"
  BY DEF Inv, OneShutdown, Cancel
<1>2. queue = <<>> /\ Running = {}
  BY <1>1, ExitedMeansDrained
<1>3. InQueue = {} /\ closed /\ ~cancelled
  BY <1>1, <1>2 DEF InQueue, Inv, OneShutdown
<1>4. InQueue' = InQueue /\ Running' = Running /\ cancelled' = TRUE /\ UNCHANGED <<closed, finished>>
  BY DEF Cancel, InQueue, Running
<1> QED
  BY <1>2, <1>3, <1>4 DEF Contract!GoDown

\* The caller that wins the Once closes the channel.
LEMMA CloseCloses ==
  ASSUME Inv, NEW c \in Callers, Close(c)
  PROVE  Contract!Close
<1>1. ~closed
  BY DEF Inv, OneShutdown, Close
<1>2. InQueue' = InQueue /\ Running' = Running /\ closed' = TRUE /\ UNCHANGED <<cancelled, finished>>
  BY DEF Close, InQueue, Running
<1> QED
  BY <1>1, <1>2 DEF Contract!Close

\* Every step of a goroutine is a step of the contract or does not show in it.
LEMMA StepKeepsContract == Inv /\ [Next]_vars => [Contract!Next]_(Contract!vars)
<1> SUFFICES ASSUME Inv, [Next]_vars
             PROVE  Contract!Next \/ UNCHANGED Contract!vars
  OBVIOUS
<1>1. ASSUME UNCHANGED <<queue, closed, cancelled, running, finished>>
      PROVE  UNCHANGED Contract!vars
  BY <1>1 DEF Contract!vars, InQueue, Running
<1>2. ASSUME NEW w \in Workers, Take(w) PROVE Contract!Next
  <2>1. Head(queue) \in Tasks
    BY <1>2 DEF Take, Inv, TypeOK
  <2> QED  BY <1>2, <2>1, TakeStarts DEF Contract!Next
<1>3. ASSUME NEW w \in Workers, Finish(w) PROVE Contract!Next
  BY <1>3, FinishFinishes DEF Contract!Next
<1>4. ASSUME NEW c \in Callers, Send(c) PROVE Contract!Next
  BY <1>4, SendAccepts DEF Contract!Next
<1>5. ASSUME NEW c \in Callers, Close(c) \/ Cancel(c) PROVE Contract!Next
  BY <1>5, CloseCloses, CancelGoesDown DEF Contract!Next
<1>6. CASE UNCHANGED vars
  BY <1>1, <1>6 DEF vars
<1>7. ASSUME NEW w \in Workers, WorkerStep(w)
      PROVE  Contract!Next \/ UNCHANGED Contract!vars
  BY <1>1, <1>2, <1>3, <1>7 DEF WorkerStep, Exit
<1>8. ASSUME NEW c \in Callers, SubmitStep(c) \/ ShutdownStep(c) \/ CallShutdown(c)
                                \/ \E t \in Tasks : CallSubmit(c, t)
      PROVE  Contract!Next \/ UNCHANGED Contract!vars
  BY <1>1, <1>4, <1>5, <1>8
     DEF SubmitStep, ShutdownStep, CallShutdown, CallSubmit, SendPanics, SubmitGivesUp,
         Wait, OnceDone, Return
<1> QED
  BY <1>6, <1>7, <1>8 DEF Next

\* The goroutines, the channel and the Once implement the contract of a bounded
\* pool, for any number of workers, callers and tasks.
THEOREM KeepsContractHolds == Spec => KeepsContract
<1>1. Init => Contract!Init
  BY DEF Init, Contract!Init, InQueue, Running
<1> QED
  BY <1>1, StepKeepsContract, InvHolds, PTL DEF Spec, KeepsContract, Contract!Spec
=============================================================================
