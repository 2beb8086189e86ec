----------------------------- MODULE MigrationsMC -----------------------------
(***************************************************************************)
(* Starting: a small instance of Migrations, and one of Host, which begins *)
(* where a process has opened the migrated file.  A behaviour is about one *)
(* of them ("part").                                                       *)
(***************************************************************************)
EXTENDS Migrations, Host

CONSTANTS p1, p2, h1, h2, s1, s2, r1, a, b

TwoHosts == {h1, h2}
TwoSeedRows == {s1, s2}
OneRow == {r1}
TwoTexts == {a, b}

Option(storage, seed, headless, mode) ==
  [storage |-> storage, seed |-> seed, headless |-> headless, mode |-> mode]

\* A public host that seeds, an admin host on the same file, and others.
MixedChoices ==
  {Option("file", TRUE, FALSE, "full"), Option("file", FALSE, FALSE, ""),
   Option("memory", TRUE, FALSE, "conformance"), Option("port", TRUE, TRUE, "full")}

VARIABLE part

MCInit == Init /\ HostInit /\ part \in {"migrations", "hosts"}

MCNext ==
  \/ part = "migrations" /\ Next /\ UNCHANGED <<hostVars, part>>
  \/ part = "hosts" /\ HostNext /\ UNCHANGED <<vars, part>>

MCSpec == MCInit /\ [][MCNext]_<<vars, hostVars, part>> /\ Fairness
=============================================================================
