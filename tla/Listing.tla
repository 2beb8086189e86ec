------------------------------- MODULE Listing -------------------------------
(***************************************************************************)
(* A client walks through the pages of a REST list, or of a search, while  *)
(* others change the entries.  Every page is a request, and so a           *)
(* transaction, of its own: the list is made anew for each of them, and    *)
(* the pages of one walk come from different lists.                        *)
(***************************************************************************)
EXTENDS ListOps, SequencesExt

CONSTANTS
  Ids,         \* ids of posts and of pages, numbered in the order of ORDER BY id
  Statuses,    \* statuses of entries
  NoRow,       \* what a table holds for an id that has no row
  PageLimit,   \* the rows the store returns for a List without pagination: 50
  PerPages,    \* the per_page values clients ask for
  InitialTables,   \* what the tables hold when a walk begins
  Changed,     \* the rows others store meanwhile: nothing deletes a row
  MaxChanges   \* bound: changes in a behaviour

Kinds == {"post", "page"}

\* Of an entry: its status, and whether its text contains what is searched for.
Rows == [status : Statuses, matches : BOOLEAN]
Tables == [Kinds -> [Ids -> Rows \cup {NoRow}]]

\* The query of a walk: a list of one kind or, by search, of both; a status; and
\* a search with a non-empty text or without.
Queries ==
  [kinds : {<<"post">>, <<"page">>}, status : Statuses \cup {""},
   search : {FALSE}, perPage : PerPages]
  \cup [kinds : {<<"post", "page">>}, status : Statuses \cup {""},
        search : BOOLEAN, perPage : PerPages]

ASSUME ListingAssumption ==
  /\ Ids \subseteq Nat /\ IsFiniteSet(Ids)
  /\ NoRow \notin Rows
  /\ PageLimit \in Nat \ {0}
  /\ PerPages \subseteq Nat \ {0}
  /\ InitialTables \subseteq Tables
  /\ Changed \subseteq Rows
  /\ MaxChanges \in Nat

VARIABLES
  rows,      \* the tables posts and pages
  query,     \* what the client walks through
  page,      \* the page it asks for next
  pages,     \* total_pages of the last answer
  got,       \* the entries it received, as pairs of kind and id
  first,     \* ghost: the entries that were listed when the walk began
  left,      \* ghost: has an entry left the list since then?
  changes    \* changes so far

vars == <<rows, query, page, pages, got, first, left, changes>>

-----------------------------------------------------------------------------
\* Store.List without pagination: the first PageLimit rows in the order of ids.
Present(table) == {i \in Ids : table[i] # NoRow}
Stored(table) ==
  {i \in Present(table) : Cardinality({j \in Present(table) : j <= i}) <= PageLimit}

\* Entries as pairs of kind and id; kind after kind, and ids in the order of the store.
Entries == Kinds \X Ids
Order(q) ==
  {p \in Entries \X Entries :
     \/ \E m, n \in DOMAIN q.kinds : m < n /\ q.kinds[m] = p[1][1] /\ q.kinds[n] = p[2][1]
     \/ p[1][1] = p[2][1] /\ p[1][2] < p[2][2]}

\* Of the status asked for.
Fits(tables, q, e) == q.status \in {"", tables[e[1]][e[2]].status}

\* Mutant: a row of another status ends its table.
ListedPrefix(tables, q) ==
  Ordered({e \in Entries :
             /\ e[1] \in ToSet(q.kinds) /\ e[2] \in Stored(tables[e[1]])
             /\ \A j \in Stored(tables[e[1]]) : j <= e[2] => Fits(tables, q, <<e[1], j>>)}, Order(q))

\* ApplicationRepositories.List: table after table, those of the status asked for.
Listed(tables, q) ==
  Ordered({e \in Entries : /\ e[1] \in ToSet(q.kinds) /\ e[2] \in Stored(tables[e[1]])
                           /\ Fits(tables, q, e)}, Order(q))

\* listEnvelope: a page of items and the number of pages there are.
Envelope(items, p, perPage) ==
  [data |-> SubSeq(items, From(p, perPage, Len(items)) + 1, To(p, perPage, Len(items))),
   pages |-> TotalPages(perPage, Len(items))]

\* search filters the page it was given, and cuts the same page out of the rest.
Answer(tables, q, p) ==
  LET list == Envelope(Listed(tables, q), p, q.perPage)
      found == Kept(list.data, {e \in ToSet(list.data) : tables[e[1]][e[2]].matches})
  IN IF q.search THEN Envelope(found, p, q.perPage) ELSE list

-----------------------------------------------------------------------------
Init ==
  /\ rows \in InitialTables
  /\ query \in Queries
  /\ page = 1 /\ pages = 1
  /\ got = <<>>
  /\ first = ToSet(Listed(rows, query))
  /\ left = FALSE
  /\ changes = 0

\* Mutant: the client trusts the number of pages it learned first.
FetchFirstTotal ==
  /\ page <= pages
  /\ got' = got \o Answer(rows, query, page).data
  /\ pages' = IF page = 1 THEN Answer(rows, query, page).pages ELSE pages
  /\ page' = page + 1
  /\ UNCHANGED <<rows, query, first, left, changes>>

Fetch ==
  /\ page <= pages
  /\ got' = got \o Answer(rows, query, page).data
  /\ pages' = Answer(rows, query, page).pages
  /\ page' = page + 1
  /\ UNCHANGED <<rows, query, first, left, changes>>

\* Between two pages, an entry is created or changed.
Change ==
  /\ page > 1 /\ page <= pages
  /\ changes < MaxChanges
  /\ changes' = changes + 1
  /\ \E k \in Kinds, i \in Ids, row \in Changed :
       rows' = [rows EXCEPT ![k] = [rows[k] EXCEPT ![i] = row]]
  /\ left' = (left \/ ~(ToSet(Listed(rows, query)) \subseteq ToSet(Listed(rows', query))))
  /\ UNCHANGED <<query, page, pages, got, first>>

Next == Fetch \/ Change

Spec == Init /\ [][Next]_vars

Done == page > pages

-----------------------------------------------------------------------------
\* The types of the variables, and that pages come in at most their size.
TypeOK ==
  /\ rows \in Tables /\ query \in Queries
  /\ page \in Nat \ {0} /\ pages \in Nat
  /\ ToSet(got) \subseteq Entries
  /\ Len(got) <= (page - 1) * query.perPage
  /\ first \subseteq Entries
  /\ left \in BOOLEAN /\ changes \in 0..MaxChanges

\* A walk through a list nobody changes yields the list: no entry is missing at
\* the border of two pages, none comes twice, and the order is kept.
UnchangedWalkIsList ==
  Done /\ changes = 0 /\ ~query.search => got = Listed(rows, query)

\* As long as the tables fit the store's limit, that list is everything that was
\* asked for: each entry of the kinds and the status.
NothingHidden ==
  (\A k \in Kinds : Cardinality({i \in Ids : rows[k][i] # NoRow}) <= PageLimit) =>
    \A n \in DOMAIN query.kinds, i \in Ids :
      LET k == query.kinds[n] IN
      rows[k][i] # NoRow /\ query.status \in {"", rows[k][i].status} =>
        <<k, i>> \in ToSet(Listed(rows, query))

\* Entries that are added meanwhile, on pages the client has read or has yet to
\* read, do not make it miss one: only entries that leave the list do.
AdditionsMissNothing ==
  Done /\ ~left /\ ~query.search => first \subseteq ToSet(got)

\* A walk through an unchanged list, and a list below the limit, tell what there is.
ListsAreTrue == TypeOK /\ UnchangedWalkIsList /\ NothingHidden

-----------------------------------------------------------------------------
\* "List endpoints support page and per_page": a search, too, can be walked
\* through to its last match.
SearchFindsAll ==
  Done /\ changes = 0 /\ query.search =>
    {e \in first : rows[e[1]][e[2]].matches} \subseteq ToSet(got)
=============================================================================
