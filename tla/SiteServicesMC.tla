----------------------------- MODULE SiteServicesMC -----------------------------
(***************************************************************************)
(* A small instance of SiteServices: tables of two rows, of which a list   *)
(* holds one; and one of OpsLog, with more requests than its lists have    *)
(* room for.  What a snapshot holds and what is remembered of it share no  *)
(* state: a behaviour is about one of them ("part").                       *)
(***************************************************************************)
EXTENDS SiteServices, OpsLog

CONSTANTS e1, i1, i2, c1

FourRequests == {e1, i1, i2, c1}
FourOps ==
  [r \in FourRequests |-> IF r = e1 THEN "export" ELSE IF r = c1 THEN "health" ELSE "import"]

VARIABLE part

MCInit == Init /\ LogInit /\ part \in {"services", "log"}

MCNext ==
  \/ part = "services" /\ Next /\ UNCHANGED <<logVars, part>>
  \/ part = "log" /\ LogNext /\ UNCHANGED <<vars, part>>

MCSpec == MCInit /\ [][MCNext]_<<vars, logVars, part>> /\ Fairness
=============================================================================
