------------------------------- MODULE ListingMC -------------------------------
(***************************************************************************)
(* A small instance of Listing, and one of PagingWidth, with ints of four  *)
(* bits.  They share ListOps, but no state: a behaviour is about one of    *)
(* them ("part").                                                          *)
(***************************************************************************)
EXTENDS Listing, PagingWidth

Draft == [status |-> "draft", matches |-> FALSE]
Public == [status |-> "published", matches |-> TRUE]

\* Every table of posts, beside a table of pages that is full to the limit, and
\* one that is empty.
MCInitialTables ==
  {[k \in Kinds |-> IF k = "post" THEN posts ELSE [i \in Ids |-> IF i <= n THEN Public ELSE NoRow]] :
     posts \in [Ids -> {NoRow, Draft, Public}], n \in {0, PageLimit}}

MCChanged == {Draft, Public}

CONSTANTS c1, c2
TwoClients == {c1, c2}
FewEntries == 0 .. 3

VARIABLE part

\* The widths of ints do not depend on the tables: one choice of them will do.
MCInit ==
  /\ Init /\ WidthInit /\ part \in {"lists", "width"}
  /\ part = "width" => \A k \in Kinds, i \in Ids : rows[k][i] = NoRow

MCNext ==
  \/ part = "lists" /\ Next /\ UNCHANGED <<widthVars, part>>
  \/ part = "width" /\ WidthNext /\ UNCHANGED <<vars, part>>

MCSpec == MCInit /\ [][MCNext]_<<vars, widthVars, part>>
=============================================================================
