------------------------------- MODULE Content -------------------------------
(***************************************************************************)
(* The content entry, the content service and the two content tables, as   *)
(* operators on values.                                                    *)
(*                                                                         *)
(* A pair of tables is a function from a kind to a table, and a table is a *)
(* function from an id to an entry or NoEntry: tables["post"] stands for   *)
(* the SQLite table posts, tables["page"] for pages.  Times are natural    *)
(* numbers, and 0 is Go's zero time.  Of the text fields of an entry only  *)
(* the slug is kept: the service treats title, content, excerpt, author    *)
(* and metadata exactly alike.                                             *)
(***************************************************************************)
EXTENDS Naturals, FiniteSets

CONSTANTS
  Ids,         \* the record ids clients use, numbered in the order of ORDER BY id
  Slugs,       \* the non-empty slugs clients send
  Statuses,    \* the non-empty status strings that occur: nothing validates them
  PageLimit,   \* the rows a List without pagination returns: 50 in the code
  NoEntry      \* what a table holds for an id that has no row

Kinds == {"post", "page"}
Visibilities == {"public", "private", "password"}

ASSUME DomainAssumption ==
  /\ Ids \subseteq Nat /\ Ids # {}
  /\ PageLimit \in Nat \ {0}

ASSUME StatusAssumption ==
  /\ {"draft", "scheduled", "published", "archived", "trashed"} \subseteq Statuses
  /\ "" \notin Statuses

Entries ==
  [kind : Kinds \cup {""},
   status : Statuses \cup {""},
   visibility : Visibilities \cup {""},
   slug : Slugs \cup {""},
   createdAt : Nat, updatedAt : Nat, publishedAt : Nat, scheduledFor : Nat]

ASSUME NoEntryAssumption == NoEntry \notin Entries

Tables == [Kinds -> [Ids -> Entries \cup {NoEntry}]]

(***************************************************************************)
(* Validation and the repository adapter.                                  *)
(***************************************************************************)
Validate(e) == e.kind \in Kinds /\ e.status # "" /\ e.visibility # ""

\* Mutant: a record without a kind is taken for a post.
WithContentKindPost(e, k) == IF e.kind = "" THEN [e EXCEPT !.kind = "post"] ELSE e

\* A record stored without a kind (the seed, an import) gets its table's.
WithContentKind(e, k) == IF e.kind = "" THEN [e EXCEPT !.kind = k] ELSE e

\* The tables that have a row for id, of those whose SELECT succeeded: the
\* adapter turns every error of a SELECT into "no such row".
HomesOf(tables, id, readable) == {k \in readable : tables[k][id] # NoEntry}

\* Mutant: pages are looked for first.
HomePagesFirst(tables, id, readable) ==
  IF "page" \in HomesOf(tables, id, readable) THEN "page" ELSE "post"

Home(tables, id, readable) ==
  IF "post" \in HomesOf(tables, id, readable) THEN "post" ELSE "page"

Found(tables, id, readable) == HomesOf(tables, id, readable) # {}

\* Get looks among the posts first and among the pages only if it found none.
Get(tables, id, readable) ==
  LET k == Home(tables, id, readable) IN WithContentKind(tables[k][id], k)

\* Mutant: every entry is filed among the posts.
SaveAsPost(tables, id, e) ==
  [tables EXCEPT !["post"] = [tables["post"] EXCEPT ![id] = e]]

\* Save files the entry in the table of its kind and overwrites what is there.
Save(tables, id, e) ==
  [tables EXCEPT ![e.kind] = [tables[e.kind] EXCEPT ![id] = e]]

(***************************************************************************)
(* The content service: what each operation makes of an entry at time now. *)
(***************************************************************************)
Drafted(e, kind, now) ==
  [e EXCEPT !.kind = kind,
            !.status = "draft",
            !.visibility = IF e.visibility = "" THEN "public" ELSE e.visibility,
            !.createdAt = IF e.createdAt = 0 THEN now ELSE e.createdAt,
            !.updatedAt = now]

Published(e, now) ==
  [e EXCEPT !.status = "published", !.publishedAt = now,
            !.scheduledFor = 0, !.updatedAt = now]

Scheduled(e, at, now) ==
  [e EXCEPT !.status = "scheduled", !.scheduledFor = at, !.updatedAt = now]

WithStatus(e, status, now) == [e EXCEPT !.status = status, !.updatedAt = now]

\* A field of a patch counts when it is filled in.
Filled(sent, old) == IF sent = "" THEN old ELSE sent

\* Mutant: the patch, a zero value where nothing was sent, overwrites the time.
MergedWithTimes(e, patch, now) ==
  [e EXCEPT !.slug = Filled(patch.slug, e.slug),
            !.status = Filled(patch.status, e.status),
            !.updatedAt = patch.updatedAt]

\* mergeContent and mergePostEntry: only what the patch fills in, and none of
\* the times.
Merged(e, patch, now) ==
  [e EXCEPT !.slug = Filled(patch.slug, e.slug),
            !.status = Filled(patch.status, e.status),
            !.visibility = Filled(patch.visibility, e.visibility),
            !.updatedAt = now]

(***************************************************************************)
(* The public site shows the published, public entries of what List        *)
(* returns, which is the first PageLimit rows of the table in id order.    *)
(***************************************************************************)
Shown(e) == e.status = "published" /\ e.visibility = "public"

Listed(table) ==
  {i \in Ids : /\ table[i] # NoEntry
               /\ Cardinality({j \in Ids : j < i /\ table[j] # NoEntry}) < PageLimit}

Visible(tables) ==
  {p \in Kinds \X Ids : p[2] \in Listed(tables[p[1]]) /\ Shown(tables[p[1]][p[2]])}
=============================================================================
