------------------------------ MODULE PagingWidth ------------------------------
(***************************************************************************)
(* listEnvelope with the integers it has: an int wraps around, and a slice *)
(* out of bounds panics.  Page numbers and sizes come from the client, and *)
(* every positive int is let through.  The panic unwinds the handler within *)
(* its transaction, whose deferred Rollback gives the one connection back; *)
(* net/http recovers from it and drops the client's connection.            *)
(*                                                                         *)
(* Half stands for 2^63, and is small here: what is modelled is how close  *)
(* the sums and products come to it.                                       *)
(***************************************************************************)
EXTENDS Integers

CONSTANTS
  Clients,
  Half,       \* ints are -Half .. Half - 1
  Totals,     \* how many entries a list may have
  NoClient
ASSUME WidthAssumption ==
  /\ Half \in Nat \ {0}
  /\ Totals \subseteq 0 .. Half - 1
  /\ NoClient \notin Clients

Ints == -Half .. Half - 1
Positive == 1 .. Half - 1

VARIABLES
  request,   \* what each client has asked for, and how that went
  conn       \* the client whose transaction has the connection
widthVars == <<request, conn>>

\* Exact arithmetic, and the pages it cuts.
Exact == INSTANCE ListOps

Wrap(n) == ((n + Half) % (2 * Half)) - Half

\* Division of Go truncates towards zero.
Quotient(n, d) == IF n >= 0 THEN n \div d ELSE -((-n) \div d)

Start(page, perPage, total) == Exact!AtMost(Wrap((page - 1) * perPage), total)

End(page, perPage, total) ==
  Exact!AtMost(Wrap(Start(page, perPage, total) + perPage), total)

\* Mutant: the last page is not counted when it is not full.
PagesFull(perPage, total) == IF total > 0 THEN Quotient(Wrap(total), perPage) ELSE 0

Pages(perPage, total) ==
  IF total > 0 THEN Quotient(Wrap(Wrap(total + perPage) - 1), perPage) ELSE 0

\* items[start:end]
InBounds(start, end, total) == 0 <= start /\ start <= end /\ end <= total

Idle == [at |-> "idle"]
Asked == [at : {"asked"}, page : Positive, perPage : Positive]
Outcomes == [at : {"panicked"}, page : Positive, perPage : Positive, total : Totals]
  \cup [at : {"answered"}, page : Positive, perPage : Positive, total : Totals,
        start : Nat, end : Nat, pages : Ints]
-----------------------------------------------------------------------------
WidthInit ==
  /\ request = [c \in Clients |-> Idle]
  /\ conn = NoClient

\* pagination, parsePositive: anything else is answered with 400.
Ask(c, page, perPage) ==
  /\ request[c] = Idle
  /\ request' = [request EXCEPT ![c] = [at |-> "asked", page |-> page, perPage |-> perPage]]
  /\ UNCHANGED conn

Begin(c) ==
  /\ request[c].at = "asked" /\ conn = NoClient
  /\ conn' = c
  /\ UNCHANGED request

\* The list is made, with as many entries as there are now, and the page cut out of it.
Cut(c, total) ==
  /\ conn = c /\ request[c].at = "asked"
  /\ LET page == request[c].page  perPage == request[c].perPage
         start == Start(page, perPage, total)  end == End(page, perPage, total)
     IN  request' = [request EXCEPT ![c] =
           IF InBounds(start, end, total)
           THEN [at |-> "answered", page |-> page, perPage |-> perPage, total |-> total,
                 start |-> start, end |-> end, pages |-> Pages(perPage, total)]
           ELSE [at |-> "panicked", page |-> page, perPage |-> perPage, total |-> total]]
  /\ UNCHANGED conn

\* The transaction is over, by Commit or by the deferred Rollback.
EndTx(c) ==
  /\ conn = c /\ request[c].at \in {"answered", "panicked"}
  /\ conn' = NoClient
  /\ UNCHANGED request

WidthNext ==
  \E c \in Clients :
    \/ \E page, perPage \in Positive : Ask(c, page, perPage)
    \/ Begin(c)
    \/ \E total \in Totals : Cut(c, total)
    \/ EndTx(c)

WidthSpec == WidthInit /\ [][WidthNext]_widthVars
-----------------------------------------------------------------------------
\* Types; and an answer is a slice of the list that is no longer than a page, also when
\* the page number has wrapped around.
WidthTypeOK ==
  /\ request \in [Clients -> {Idle} \cup Asked \cup Outcomes]
  /\ conn \in Clients \cup {NoClient}
  /\ \A c \in Clients : request[c].at = "answered" =>
       /\ InBounds(request[c].start, request[c].end, request[c].total)
       /\ request[c].end - request[c].start <= request[c].perPage

AsExact(r) ==
  /\ r.at = "answered"
  /\ r.start = Exact!From(r.page, r.perPage, r.total)
  /\ r.end = Exact!To(r.page, r.perPage, r.total)
  /\ r.pages = Exact!TotalPages(r.perPage, r.total)

Over(c) == request[c].at \in {"answered", "panicked"}

\* Whoever walks through the pages there are gets the right ones, however many entries a
\* page may have, as long as that number and the length of the list add up to an int; and
\* so does whoever asks for a page after them that does not begin beyond the last int.
WalksAreExact ==
  \A c \in Clients : Over(c) =>
    LET r == request[c]
        walked == r.page <= Exact!TotalPages(r.perPage, r.total)
        beyond == (r.page - 1) * r.perPage < Half
    IN  r.total + r.perPage < Half /\ (walked \/ beyond) => AsExact(r)
=============================================================================
