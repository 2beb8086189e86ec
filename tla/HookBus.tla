------------------------------ MODULE HookBus ------------------------------
(***************************************************************************)
(* The hook bus of internal/extensions/runtime.go (HookBus): handlers are   *)
(* registered for a hook with a priority (AddAction, AddFilter) and run in  *)
(* turn (Dispatch, ApplyFilter).  The lists are Go slices: append reuses    *)
(* the array under the list while it has room, the sort moves the elements  *)
(* of that array, and a range loop reads, up to the length the list had     *)
(* when the loop began, an array somebody may be sorting meanwhile.         *)
(*                                                                          *)
(* The bus has no lock, so it is modelled in one goroutine; what happens    *)
(* "meanwhile" is what the handler that is running does: it may register    *)
(* handlers and start other runs on the same hook.                          *)
(*                                                                          *)
(*   arrays  every array allocated so far (a slot not filled is NoHandler)  *)
(*   bus     per table, the slice header: an array and a length             *)
(*   added   per table, the handlers in the order of registration (history) *)
(*   runs    the Dispatch and ApplyFilter calls under way, innermost last;  *)
(*           "before", "grown" and "calls" of a run are history             *)
(***************************************************************************)
EXTENDS Integers, ListOps, SequencesExt

CONSTANTS
    Hooks,       \* the tables in use: "action", "filter"
    Handlers,    \* the handlers there are, each registered at most once per table
    Priority,    \* [Handlers -> Int]
    NoHandler,   \* the zero ActionHandler or FilterHandler of an unused slot
    MaxDepth     \* bound: runs inside runs
ASSUME BusAssumption == /\ Hooks \subseteq {"action", "filter"}
                        /\ Priority \in [Handlers -> Int]
                        /\ NoHandler \notin Handlers
                        /\ MaxDepth \in Nat
VARIABLES arrays, bus, added, runs
busVars == <<arrays, bus, added, runs>>

(* What a slice shows of its array. *)
Elements(slice) == IF slice.len = 0 THEN <<>> ELSE SubSeq(arrays[slice.array], 1, slice.len)
Registered(k) == Elements(bus[k])
Capacity(slice) == IF slice.array = 0 THEN 0 ELSE Len(arrays[slice.array])
Spare(slice) == Capacity(slice) - slice.len

(* Mutant: a sort that is not stable. *)
SortedAnyhow(list) ==
    LET precedes == {p \in (DOMAIN list) \X (DOMAIN list) :
                       \/ Priority[list[p[1]]] < Priority[list[p[2]]]
                       \/ Priority[list[p[1]]] = Priority[list[p[2]]] /\ p[1] > p[2]}
        order == Ordered(DOMAIN list, precedes)
    IN  [i \in DOMAIN list |-> list[order[i]]]
(* Mutant: the highest priority first. *)
SortedDown(list) ==
    LET precedes == {p \in (DOMAIN list) \X (DOMAIN list) :
                       \/ Priority[list[p[1]]] > Priority[list[p[2]]]
                       \/ Priority[list[p[1]]] = Priority[list[p[2]]] /\ p[1] < p[2]}
        order == Ordered(DOMAIN list, precedes)
    IN  [i \in DOMAIN list |-> list[order[i]]]
(* sort.SliceStable by Priority. *)
Sorted(list) ==
    LET precedes == {p \in (DOMAIN list) \X (DOMAIN list) :
                       \/ Priority[list[p[1]]] < Priority[list[p[2]]]
                       \/ Priority[list[p[1]]] = Priority[list[p[2]]] /\ p[1] < p[2]}
        order == Ordered(DOMAIN list, precedes)
    IN  [i \in DOMAIN list |-> list[order[i]]]

Padded(list, size) == [i \in 1..size |-> IF i \in DOMAIN list THEN list[i] ELSE NoHandler]

BusInit == /\ arrays = <<>>
        /\ bus = [k \in Hooks |-> [array |-> 0, len |-> 0]]
        /\ added = [k \in Hooks |-> <<>>]
        /\ runs = <<>>

(* Code runs on the bus from outside of it, or in the handler of the innermost run. *)
Outside == runs # <<>> => Last(runs).at = "handler"

(* AddAction, AddFilter: in the old array while it has a spare slot, else in a
   new one of twice the capacity. *)
Add(k, h) ==
    /\ Outside
    /\ h \notin ToSet(added[k])
    /\ LET list == Sorted(Append(Registered(k), h))
           size == IF bus[k].array = 0 THEN 1 ELSE 2 * Capacity(bus[k])
       IN  \/ /\ Spare(bus[k]) > 0
              /\ arrays' = [arrays EXCEPT ![bus[k].array] = Padded(list, Len(@))]
              /\ bus' = [bus EXCEPT ![k].len = @ + 1]
           \/ /\ Spare(bus[k]) = 0
              /\ arrays' = Append(arrays, Padded(list, size))
              /\ bus' = [bus EXCEPT ![k] = [array |-> Len(arrays) + 1, len |-> @.len + 1]]
    /\ added' = [added EXCEPT ![k] = Append(@, h)]
    /\ runs' = [i \in DOMAIN runs |-> IF runs[i].kind = k
                                      THEN [runs[i] EXCEPT !.grown = @ + 1] ELSE runs[i]]

(* Dispatch or ApplyFilter is entered: the range keeps the header of now. *)
StartRun(k) ==
    /\ Outside
    /\ Len(runs) < MaxDepth
    /\ runs' = Append(runs, [kind |-> k, slice |-> bus[k], at |-> "loop", next |-> 1,
                             current |-> <<>>,
                             calls |-> <<>>, before |-> Registered(k), grown |-> 0])
    /\ UNCHANGED <<arrays, bus, added>>

Innermost(run) == runs # <<>> /\ runs' = [runs EXCEPT ![Len(runs)] = run]

(* Mutant: a loop that counts, and reads the list there is now. *)
CallFromBus ==
    /\ runs # <<>>
    /\ LET run == Last(runs) IN
        /\ run.at = "loop" /\ run.next <= run.slice.len
        /\ Innermost([run EXCEPT !.at = "handler", !.next = @ + 1,
                                 !.calls = Append(@, arrays[bus[run.kind].array][run.next])])
    /\ UNCHANGED <<arrays, bus, added>>

(* The loop takes the next element of the array, as it is now, and calls it. *)
Call ==
    /\ runs # <<>>
    /\ LET run == Last(runs) IN
        /\ run.at = "loop" /\ run.next <= run.slice.len
        /\ Innermost([run EXCEPT !.at = "handler", !.next = @ + 1,
                                 !.calls = Append(@, arrays[run.slice.array][run.next])])
    /\ UNCHANGED <<arrays, bus, added>>

(* The handler returns without an error: a filter's value, seen as the filters
   it has been through, is what the next one gets; an action's payload is passed
   on as it was. *)
Return ==
    /\ runs # <<>>
    /\ LET run == Last(runs) IN
        /\ run.at = "handler"
        /\ Innermost([run EXCEPT !.at = "loop",
                                 !.current = IF run.kind = "filter" THEN Append(@, Last(run.calls)) ELSE @])
    /\ UNCHANGED <<arrays, bus, added>>

(* Mutant: the value of the last filter that worked is the answer. *)
FailKeepingValue ==
    /\ runs # <<>>
    /\ LET run == Last(runs) IN
        /\ run.at = "handler"
        /\ Innermost([run EXCEPT !.at = "failed"])
    /\ UNCHANGED <<arrays, bus, added>>

(* It returns an error, or a filter a value of another type: the run ends with
   the payload it was given. *)
Fail ==
    /\ runs # <<>>
    /\ LET run == Last(runs) IN
        /\ run.at = "handler"
        /\ Innermost([run EXCEPT !.at = "failed", !.current = <<>>])
    /\ UNCHANGED <<arrays, bus, added>>

(* The run is over. *)
RunOver(run) == \/ run.at = "failed"
                \/ run.at = "loop" /\ run.next > run.slice.len
EndRun == /\ runs # <<>>
          /\ RunOver(Last(runs))
          /\ runs' = Front(runs)
          /\ UNCHANGED <<arrays, bus, added>>

BusNext == \/ \E k \in Hooks : \/ StartRun(k)
                            \/ \E h \in Handlers : Add(k, h)
        \/ Call
        \/ Return
        \/ Fail
        \/ EndRun

BusSpec == BusInit /\ [][BusNext]_busVars
-----------------------------------------------------------------------------
(* Every slot of an array is a handler or free, and no slice is longer than its
   array. *)
BusTypeOK ==
    /\ \A a \in DOMAIN arrays : arrays[a] \in Seq(Handlers \cup {NoHandler})
    /\ \A k \in Hooks : bus[k].array \in 0..Len(arrays) /\ Spare(bus[k]) >= 0
    /\ \A i \in DOMAIN runs :
         /\ runs[i].kind \in Hooks
         /\ runs[i].at \in {"loop", "handler", "failed"}
         /\ runs[i].next \in 1..(runs[i].slice.len + 1)
         /\ runs[i].calls \in Seq(Handlers)

(* Types; and what is registered for a hook is every handler ever added, once, by priority
   and then by the order of registration, whichever array holds it and whoever
   is in the middle of a loop over that array. *)
RegisteredInOrder ==
    /\ BusTypeOK
    /\ \A k \in Hooks :
       LET list == Registered(k)
           time(h) == CHOOSE t \in DOMAIN added[k] : added[k][t] = h
       IN  /\ Len(list) = Len(added[k])
           /\ ToSet(list) = ToSet(added[k])
           /\ \A i, j \in DOMAIN list : i < j =>
                \/ Priority[list[i]] < Priority[list[j]]
                \/ Priority[list[i]] = Priority[list[j]] /\ time(list[i]) < time(list[j])

(* A run over an array that was full when it began, and one during which nothing
   was registered, calls what was registered at its beginning, in that order:
   the handlers it runs may register and dispatch as they like. *)
Snapshot ==
    \A i \in DOMAIN runs :
       LET run == runs[i] IN
       (run.grown = 0 \/ Spare(run.slice) = 0) => IsPrefix(run.calls, run.before)

(* One registration during a run may make it call a handler twice and leave
   another out, but the run goes on by priority, and leaves out at most one. *)
OneMoreIsOrdered ==
    \A i \in DOMAIN runs :
       LET run == runs[i] IN
       run.grown <= 1 =>
          /\ \A x, y \in DOMAIN run.calls : x < y => Priority[run.calls[x]] <= Priority[run.calls[y]]
          /\ (run.at # "failed" /\ RunOver(run)) => Cardinality(ToSet(run.before) \ ToSet(run.calls)) <= 1

(* A run that ends has been through as many handlers as were registered when it
   began, or has failed in the last it called; a filter then answers the payload
   as every one of them, in turn, has left it, or the payload it was given. *)
WholeOrNothing ==
    [][Len(runs') < Len(runs) =>
         LET run == Last(runs) IN
         \/ run.at = "failed" /\ run.current = <<>>
         \/ Len(run.calls) = Len(run.before) /\ (run.kind = "filter" => run.current = run.calls)]_busVars

(* What a handler that registers others may do to the runs under way, and no more. *)
RunsInOrder == Snapshot /\ OneMoreIsOrdered
=============================================================================
