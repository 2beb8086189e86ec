-------------------------- MODULE PluginRuntimeProofs --------------------------
(***************************************************************************)
(* PluginRuntime keeps its invariant for every set of plugins and whatever *)
(* lists of distinct ids are activated, in whatever order, and fail.       *)
(***************************************************************************)
EXTENDS PluginRuntime, TLAPS

\* A list whose ids are all installed is a sequence of plugins.
LEMMA InstalledList ==
  ASSUME NEW list \in Lists \cup {<<>>}, \A i \in 1..Len(list) : list[i] \in Plugins
  PROVE  list \in Seq(Plugins)
<1>1. list \in Seq(Named(list)) /\ DOMAIN list = 1..Len(list) /\ Len(list) \in Nat
  <2>1. CASE list \in Lists
    <3>1. list \in Seq(Named(list))
      BY <2>1, RuntimeAssumption
    <3> QED
      BY <3>1
  <2>2. CASE list = <<>>
    <3>1. <<>> \in Seq(Named(<<>>))
      OBVIOUS
    <3> QED
      BY <2>2, <3>1
  <2> QED
    BY <2>1, <2>2
<1>2. list = [i \in 1..Len(list) |-> list[i]]
  BY <1>1
<1> QED
  BY <1>1, <1>2

\* Before the first activation nothing is exposed.
LEMMA InitInv == Init => Inv
<1> SUFFICES ASSUME Init PROVE Inv
    OBVIOUS
<1>1. TypeOK
  <2>1. <<>> \in Seq(Plugins) /\ Len(<<>>) = 0
    OBVIOUS
  <2>2. 0 \in 0..0
    OBVIOUS
  <2>3. states \in [Plugins -> States] /\ nextStates \in [Plugins -> States]
    BY DEF Init, States
  <2> QED
    BY <2>1, <2>2, <2>3 DEF Init, TypeOK, Phases
<1>2. FailureRollsBack /\ StatesMatchExposure /\ RoutesOnce
  BY DEF Init, FailureRollsBack, StatesMatchExposure, RoutesOnce, Distinct, Named
<1>3. Prepared /\ RegisteredInstalled
  BY DEF Init, Prepared, RegisteredInstalled
<1> QED
  BY <1>1, <1>2, <1>3 DEF Inv

\* Steps that change neither the published states nor what is exposed.
LEMMA UnpublishedInv ==
  ASSUME Inv, (\E list \in Lists : Activate(list)) \/ Register \/ Unknown \/ RegisterRoutes
  PROVE  Inv'
<1>1. UNCHANGED <<states, active, lastOk, dirty>>
  BY DEF Activate, Register, Unknown, RegisterRoutes
<1>2. (FailureRollsBack /\ StatesMatchExposure /\ Distinct(active))'
  BY <1>1 DEF Inv, FailureRollsBack, StatesMatchExposure, RoutesOnce, Distinct, Named
<1>3. CASE \E list \in Lists : Activate(list)
  <2>1. PICK list \in Lists : Activate(list)
    BY <1>3
  <2>2. Len(list) \in Nat
    BY RuntimeAssumption
  <2>3. TypeOK'
    BY <1>1, <2>1, <2>2 DEF Inv, TypeOK, Activate, Phases
  <2>4. (RoutesOnce /\ Prepared /\ RegisteredInstalled)'
    BY <1>1, <2>1 DEF Inv, TypeOK, Activate, RoutesOnce, Distinct, Prepared, RegisteredInstalled
  <2> QED
    BY <1>2, <2>3, <2>4 DEF Inv
<1>4. CASE Register
  <2>1. /\ done \in 0..Len(ids) /\ Len(ids) \in Nat /\ done < Len(ids)
        /\ ids[done + 1] \in Plugins /\ done' = done + 1 /\ ids' = ids
        /\ phase = "activating"
        /\ \A p \in Plugins : nextStates'[p] = IF p = ids[done + 1] THEN "active" ELSE nextStates[p]
    BY <1>4, RuntimeAssumption DEF Inv, TypeOK, Register, Turn
  <2>2. TypeOK'
    BY <1>1, <1>4, <2>1 DEF Inv, TypeOK, Register, States
  <2>3. RegisteredInstalled'
    BY <2>1 DEF Inv, RegisteredInstalled
  <2>4. Prepared'
    <3> SUFFICES ASSUME NEW p \in Plugins
                 PROVE  nextStates'[p] = IF \E i \in 1..(done + 1) : ids[i] = p THEN "active"
                                                                              ELSE states[p]
      BY <1>1, <2>1 DEF Prepared
    <3>1. nextStates[p] = IF \E i \in 1..done : ids[i] = p THEN "active" ELSE states[p]
      BY <2>1 DEF Inv, Prepared
    <3>2. CASE p = ids[done + 1]
      BY <2>1, <3>2
    <3>3. CASE p # ids[done + 1]
      <4>1. (\E i \in 1..(done + 1) : ids[i] = p) <=> (\E i \in 1..done : ids[i] = p)
        BY <2>1, <3>3
      <4> QED
        BY <2>1, <3>1, <3>3, <4>1
    <3> QED
      BY <3>2, <3>3
  <2>5. RoutesOnce'
    BY <1>1, <1>4 DEF Inv, Register, RoutesOnce, Distinct
  <2> QED
    BY <1>2, <2>2, <2>3, <2>4, <2>5 DEF Inv
<1>5. CASE Unknown
  BY <1>1, <1>2, <1>5 DEF Inv, TypeOK, Phases, Unknown, RoutesOnce, Distinct, Prepared,
                          RegisteredInstalled
<1>6. CASE RegisterRoutes
  BY <1>1, <1>2, <1>6 DEF Inv, TypeOK, RegisterRoutes, RoutesOnce, Distinct, Prepared,
                          RegisteredInstalled
<1> QED
  BY <1>3, <1>4, <1>5, <1>6

\* A failed registration exposes nothing and takes nothing away.
LEMMA FailsInv ==
  ASSUME Inv, RegisterFails
  PROVE  Inv'
<1>1. TypeOK'
  BY DEF Inv, TypeOK, RegisterFails, Turn, States, Phases
<1>2. (FailureRollsBack /\ StatesMatchExposure)'
  BY DEF Inv, RegisterFails, FailureRollsBack, StatesMatchExposure
<1>3. RoutesOnce'
  BY DEF Inv, RegisterFails, RoutesOnce, Distinct
<1>4. (Prepared /\ RegisteredInstalled)'
  BY DEF RegisterFails, Prepared, RegisteredInstalled
<1> QED
  BY <1>1, <1>2, <1>3, <1>4 DEF Inv

\* A successful activation exposes its list, and its states say so.
LEMMA FinishInv ==
  ASSUME Inv, Finish
  PROVE  Inv'
<1>1. /\ ids \in Lists \cup {<<>>} /\ done = Len(ids) /\ phase = "activating"
      /\ active' = ids /\ lastOk' = ids /\ mux' = mux /\ ids' = ids
      /\ Len(ids) \in Nat /\ DOMAIN ids = 1..Len(ids)
  BY RuntimeAssumption DEF Inv, TypeOK, Finish
<1>2. \A i \in 1..Len(ids) : ids[i] \in Plugins
  BY <1>1 DEF Inv, RegisteredInstalled
<1>3. ids \in Seq(Plugins)
  BY <1>1, <1>2, InstalledList
<1>4. TypeOK'
  <2>1. states' \in [Plugins -> States] /\ nextStates' = states'
    BY DEF Inv, TypeOK, Finish, States
  <2>2. done' = done /\ done \in 0..Len(ids) /\ phase' = "ok" /\ dirty' = FALSE
        /\ activations' = activations
    BY DEF Inv, TypeOK, Finish
  <2> QED
    BY <1>1, <1>3, <2>1, <2>2 DEF Inv, TypeOK, Phases
<1>5. FailureRollsBack'
  BY <1>1 DEF FailureRollsBack
<1>6. \A p \in Plugins : p \in Named(ids) => nextStates[p] = "active"
  BY <1>1 DEF Inv, Prepared, Named
<1>7. StatesMatchExposure'
  <2>1. \A p \in Plugins :
          states'[p] = IF p \notin Named(ids) /\ nextStates[p] = "active" THEN "inactive"
                       ELSE nextStates[p]
    BY DEF Finish
  <2>2. Named(active)' = Named(ids)
    BY <1>1 DEF Named
  <2> QED
    BY <1>6, <2>1, <2>2 DEF StatesMatchExposure
<1>8. RoutesOnce'
  <2>1. Distinct(ids)
    BY <1>1, RuntimeAssumption DEF Distinct
  <2> QED
    BY <1>1, <2>1 DEF Inv, RoutesOnce, Distinct
<1>9. (Prepared /\ RegisteredInstalled)'
  BY DEF Finish, Prepared, RegisteredInstalled
<1> QED
  BY <1>4, <1>5, <1>7, <1>8, <1>9 DEF Inv

\* PluginRuntime.Inv: in particular a failed activation rolls back to what the
\* last successful one exposed.
THEOREM InvHolds == Spec => []Inv
<1>1. Inv /\ [Next]_vars => Inv'
  <2> SUFFICES ASSUME Inv, [Next]_vars PROVE Inv'
    OBVIOUS
  <2>1. CASE UNCHANGED vars
    BY <2>1 DEF vars, Inv, TypeOK, FailureRollsBack, StatesMatchExposure, RoutesOnce,
                Distinct, Named, Prepared, RegisteredInstalled
  <2>2. CASE Next
    BY <2>2, UnpublishedInv, FailsInv, FinishInv DEF Next
  <2> QED
    BY <2>1, <2>2
<1> QED
  BY InitInv, <1>1, PTL DEF Spec

\* Whatever registered before a plugin failed, exposed is what the last
\* successful activation made of it.
THEOREM FailureRollsBackHolds == Spec => []FailureRollsBack
<1>1. Inv => FailureRollsBack
  BY DEF Inv
<1> QED
  BY <1>1, InvHolds, PTL

\* Until an activation fails, a plugin is active exactly when it is exposed.
THEOREM StatesMatchExposureHolds == Spec => []StatesMatchExposure
<1>1. Inv => StatesMatchExposure
  BY DEF Inv
<1> QED
  BY <1>1, InvHolds, PTL
=============================================================================
