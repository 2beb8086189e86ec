----------------------------- MODULE PluginRuntime -----------------------------
(***************************************************************************)
(* The runtime of compiled-in plugins: Activate lets the plugins of a list *)
(* register what they contribute, one after the other, and exposes it only *)
(* when all have succeeded; RegisterRoutes puts on a mux what is exposed   *)
(* at that moment.  Of what a plugin contributes (routes, capabilities,    *)
(* settings, hooks) only whose it is matters.                              *)
(***************************************************************************)
EXTENDS Naturals, Sequences, FiniteSets

CONSTANTS
  Plugins,         \* the plugins installed by NewRuntime, under distinct ids
  Lists,           \* the lists of ids hosts activate, which may name others
  MaxActivations   \* bound: activations in a behaviour

States == {"installed", "active", "inactive", "failed"}

Named(list) == {list[i] : i \in DOMAIN list}
Distinct(list) == \A i, j \in DOMAIN list : list[i] = list[j] => i = j

ASSUME RuntimeAssumption ==
  /\ \A list \in Lists : list \in Seq(Named(list)) /\ Distinct(list)
  /\ MaxActivations \in Nat

VARIABLES
  states,       \* the state of each plugin
  active,       \* the plugins whose contributions are exposed, in their order
  mux,          \* the plugins whose routes the host's mux serves
  ids,          \* the list that is being activated
  done,         \* how many of it have registered
  nextStates,   \* the states Activate is going to publish
  phase,        \* "idle", "activating", or how the last Activate ended
  lastOk,       \* ghost: the list of the last activation that succeeded
  dirty,        \* ghost: has one failed since?
  activations   \* activations so far

vars == <<states, active, mux, ids, done, nextStates, phase, lastOk, dirty, activations>>

Phases == {"idle", "activating", "ok", "failed", "unknown"}

Init ==
  /\ states = [p \in Plugins |-> "installed"]
  /\ active = <<>> /\ mux = <<>>
  /\ ids = <<>> /\ done = 0
  /\ nextStates = states
  /\ phase = "idle"
  /\ lastOk = <<>> /\ dirty = FALSE
  /\ activations = 0

-----------------------------------------------------------------------------
Activate(list) ==
  /\ phase # "activating"
  /\ activations < MaxActivations
  /\ activations' = activations + 1
  /\ phase' = "activating"
  /\ ids' = list /\ done' = 0
  /\ nextStates' = states
  /\ UNCHANGED <<states, active, mux, lastOk, dirty>>

\* The plugin whose turn it is.
Turn == phase = "activating" /\ done < Len(ids)

\* Mutant: a plugin registers with what is exposed already.
RegisterInPlace ==
  /\ Turn
  /\ ids[done + 1] \in Plugins
  /\ done' = done + 1
  /\ nextStates' = [nextStates EXCEPT ![ids[done + 1]] = "active"]
  /\ active' = SubSeq(ids, 1, done + 1)
  /\ UNCHANGED <<states, mux, ids, phase, lastOk, dirty, activations>>

Register ==
  /\ Turn
  /\ ids[done + 1] \in Plugins
  /\ done' = done + 1
  /\ nextStates' = [nextStates EXCEPT ![ids[done + 1]] = "active"]
  /\ UNCHANGED <<states, active, mux, ids, phase, lastOk, dirty, activations>>

\* What the failed plugin and those before it contributed is dropped with next;
\* their states are published.
RegisterFails ==
  /\ Turn
  /\ ids[done + 1] \in Plugins
  /\ nextStates' = [nextStates EXCEPT ![ids[done + 1]] = "failed"]
  /\ states' = nextStates'
  /\ phase' = "failed"
  /\ dirty' = TRUE
  /\ UNCHANGED <<active, mux, ids, done, lastOk, activations>>

\* Mutant: the states are published although the list was wrong.
UnknownPublishing ==
  /\ Turn
  /\ ids[done + 1] \notin Plugins
  /\ states' = nextStates
  /\ phase' = "unknown"
  /\ UNCHANGED <<active, mux, ids, done, nextStates, lastOk, dirty, activations>>

\* An id no plugin has: nothing is published.
Unknown ==
  /\ Turn
  /\ ids[done + 1] \notin Plugins
  /\ phase' = "unknown"
  /\ UNCHANGED <<states, active, mux, ids, done, nextStates, lastOk, dirty, activations>>

\* All have registered: what they contributed replaces what was exposed, and
\* plugins that were active and are not asked for any more become inactive.
Finish ==
  /\ phase = "activating" /\ done = Len(ids)
  /\ active' = ids
  /\ states' = [p \in Plugins |->
        IF p \notin Named(ids) /\ nextStates[p] = "active" THEN "inactive"
        ELSE nextStates[p]]
  /\ nextStates' = states'
  /\ phase' = "ok"
  /\ lastOk' = ids /\ dirty' = FALSE
  /\ UNCHANGED <<mux, ids, done, activations>>

\* The host registers the exposed routes on a new mux.
RegisterRoutes ==
  /\ phase # "activating"
  /\ mux' = active
  /\ UNCHANGED <<states, active, ids, done, nextStates, phase, lastOk, dirty, activations>>

Next ==
  \/ \E list \in Lists : Activate(list)
  \/ Register \/ RegisterFails \/ Unknown \/ Finish
  \/ RegisterRoutes

Spec == Init /\ [][Next]_vars

-----------------------------------------------------------------------------
\* The types of the variables; only installed plugins are ever exposed.
TypeOK ==
  /\ states \in [Plugins -> States] /\ nextStates \in [Plugins -> States]
  /\ active \in Seq(Plugins) /\ mux \in Seq(Plugins)
  /\ ids \in Lists \cup {<<>>} /\ done \in 0..Len(ids)
  /\ phase \in Phases
  /\ lastOk \in Lists \cup {<<>>} /\ dirty \in BOOLEAN
  /\ activations \in Nat

\* A failed activation rolls back: whatever its plugins contributed before one of
\* them failed, exposed is what the last successful one made of it.
FailureRollsBack == active = lastOk

\* The published states tell what is exposed, up to a failed activation: after a
\* success, and through lists with unknown ids, exactly the exposed plugins are
\* active.
StatesMatchExposure ==
  ~dirty => \A p \in Plugins : states[p] = "active" <=> p \in Named(active)

\* A mux never serves the routes of one plugin twice, which would make it panic.
RoutesOnce == Distinct(mux) /\ Distinct(active)

(***************************************************************************)
(* The inductive invariant: while a list is activated, the states to be    *)
(* published differ from the published ones in the plugins that registered *)
(* and in nothing else.                                                    *)
(***************************************************************************)
Prepared ==
  phase = "activating" =>
    \A p \in Plugins :
      nextStates[p] = IF \E i \in 1..done : ids[i] = p THEN "active" ELSE states[p]

RegisteredInstalled == phase = "activating" => \A i \in 1..done : ids[i] \in Plugins

\* Activations that succeed, fail or name unknown plugins leave the states, what is
\* exposed and the mux consistent: the parts above.
Inv ==
  /\ TypeOK /\ FailureRollsBack /\ StatesMatchExposure /\ RoutesOnce
  /\ Prepared /\ RegisteredInstalled

-----------------------------------------------------------------------------
\* "Active plugins only expose routes, settings, and hooks": what is exposed is
\* at every moment that of the plugins in the state active.
OnlyActiveExpose == \A p \in Named(active) : states[p] = "active"
=============================================================================
