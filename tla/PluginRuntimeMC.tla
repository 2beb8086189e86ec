---------------------------- MODULE PluginRuntimeMC ----------------------------
(***************************************************************************)
(* The extensions: a small instance of PluginRuntime, with the two plugins *)
(* of the host and a third, and one of HookBus, with filters of three      *)
(* priorities.  The two share nothing, so a behaviour is about one of them *)
(* ("part"); to interleave them would only multiply their states.          *)
(***************************************************************************)
EXTENDS PluginRuntime, HookBus

MCPlugins == {"graphql", "operations", "demo"}

MCLists ==
  {<<"graphql", "operations">>, <<"operations", "demo">>, <<"demo">>, <<>>,
   <<"demo", "graphql">>, <<"demo", "missing">>}

CONSTANTS h1, h2, h3, h4, h5, h6, h7

SevenHandlers == {h1, h2, h3, h4, h5, h6, h7}
SevenLevels == [h \in SevenHandlers |-> IF h \in {h1, h2} THEN 0 ELSE IF h \in {h3, h4} THEN 1 ELSE 2]
Filters == {"filter"}

\* Handlers of one priority, which nothing else tells apart.
Symmetry == {p \in Permutations(SevenHandlers) :
               \A h \in SevenHandlers : SevenLevels[p[h]] = SevenLevels[h]}

VARIABLE part

MCInit == Init /\ BusInit /\ part \in {"plugins", "hooks"}

MCNext ==
  \/ part = "plugins" /\ Next /\ UNCHANGED <<busVars, part>>
  \/ part = "hooks" /\ BusNext /\ UNCHANGED <<vars, part>>

MCSpec == MCInit /\ [][MCNext]_<<vars, busVars, part>>
=============================================================================
