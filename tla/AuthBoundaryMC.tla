----------------------------- MODULE AuthBoundaryMC -----------------------------
(***************************************************************************)
(* A small instance of AuthBoundary: an editor and a viewer log in, each    *)
(* under an identifier, and a third user is switched off.                   *)
(***************************************************************************)
EXTENDS AuthBoundary

CONSTANTS c1, c2, t1, ed, vi, gone, edId, viMail

MCUserOf == [i \in {edId, viMail} |-> IF i = edId THEN ed ELSE vi]
MCRolesOf == [u \in Users |-> IF u = vi THEN {"viewer"} ELSE {"editor"}]
MCPasswordOf == [u \in Users |-> IF u = ed THEN "one" ELSE "two"]
MCGrants == {{}, {"content.write"}}
=============================================================================
