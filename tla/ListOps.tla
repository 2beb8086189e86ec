-------------------------------- MODULE ListOps --------------------------------
(***************************************************************************)
(* What is done to lists: elements are put in an order, and a page is cut  *)
(* out of them.                                                            *)
(*                                                                         *)
(* listEnvelope of the REST API and List of the SQLite store cut the same  *)
(* slice out of what they listed.  A slice items[From:To] of Go is         *)
(* SubSeq(items, From + 1, To).  Page numbers are unbounded here.  Go's    *)
(* are 64 bits wide, so that this is the code as long as                   *)
(* page * perPage + total stays below 2^63.                                *)
(***************************************************************************)
EXTENDS Naturals, Sequences, FiniteSets

\* How many elements of S come before x in the order R, a set of pairs.
Rank(S, R, x) == Cardinality({y \in S : <<y, x>> \in R})

\* The elements of S, in the order R: ORDER BY, or a sort.
Ordered(S, R) == [n \in 1..Cardinality(S) |-> CHOOSE x \in S : Rank(S, R, x) = n - 1]

\* A loop that copies the elements of a list that are in S.
Kept(list, S) ==
  LET kept == {n \in DOMAIN list : list[n] \in S}
      order == Ordered(kept, {p \in kept \X kept : p[1] < p[2]})
  IN  [n \in DOMAIN order |-> list[order[n]]]

AtMost(n, limit) == IF n > limit THEN limit ELSE n

\* Mutant: the first page is page 0.
FromZeroBased(page, perPage, total) == AtMost(page * perPage, total)

From(page, perPage, total) == AtMost((page - 1) * perPage, total)

\* Mutant: the end of a page is the start of the next one.
ToInclusive(page, perPage, total) ==
  AtMost(From(page, perPage, total) + perPage + 1, total)

To(page, perPage, total) == AtMost(From(page, perPage, total) + perPage, total)

TotalPages(perPage, total) ==
  IF total > 0 THEN (total + perPage - 1) \div perPage ELSE 0
=============================================================================
