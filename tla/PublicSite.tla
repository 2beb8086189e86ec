------------------------------- MODULE PublicSite -------------------------------
(***************************************************************************)
(* The public site (internal/delivery/publicsite, internal/permalinks): a   *)
(* visitor opens the front page, which links to the published posts, and   *)
(* follows one of the links, perhaps long after; meanwhile entries are     *)
(* created and changed.  A request is one transaction, and so one step.    *)
(*                                                                         *)
(* Every request of the public site stores the two built-in content types  *)
(* before it reads their permalink patterns, so that these are always the  *)
(* built-in ones, whatever an import has stored: /posts/{slug} and /{slug}. *)
(*                                                                         *)
(* A slug, and a path after its first slash, is text that is cut at its    *)
(* slashes: a sequence of segments, some of which may be empty ("a/" has    *)
(* the segments "a" and "").  Nothing checks a slug: it may be empty, begin *)
(* or end with slashes, have several segments, be shared, be the name of a *)
(* route, or hold what an address does not carry as it is.                 *)
(***************************************************************************)
EXTENDS Content, Sequences

CONSTANTS
  Names,        \* the segments that occur, but for the empty one
  Odd,          \* those of them that have another meaning in an address: with ?, #, \ or
                \* % in them (so %postname%, which EntryPath replaces, too), "." and ".."
  SegmentsOf,   \* the segments of each slug
  Requested,    \* what a server gets to see of the path of each link that is followed
  Reserved,     \* the first segments of the paths of other handlers
  Writes,       \* the entries others store, which carry the kind of their table
  NoAnswer

Blank == ""   \* the segment at either end, or between two slashes

Paths == Seq(Names \cup {Blank})

\* A text is the segments it is cut into, put together again: different texts have
\* different ones.
ASSUME SiteAssumption ==
  /\ Blank \notin Names /\ "posts" \in Names \ (Reserved \cup Odd)
  /\ SegmentsOf \in [Slugs \cup {""} -> Paths \ {<<>>}]
  /\ SegmentsOf[""] = <<Blank>>
  /\ \A s, t \in Slugs \cup {""} : SegmentsOf[s] = SegmentsOf[t] => s = t
  /\ Writes \subseteq Entries
  /\ \A e \in Writes : e.kind \in Kinds

VARIABLES
  tables,   \* the tables posts and pages
  links,    \* the links on the front page the visitor has open
  answer    \* the link the visitor followed last, and what came of it

vars == <<tables, links, answer>>

-----------------------------------------------------------------------------
(***************************************************************************)
(* Paths.                                                                  *)
(***************************************************************************)
First(ids) == CHOOSE i \in ids : \A j \in ids : i <= j
Final(ids) == CHOOSE i \in ids : \A j \in ids : j <= i

\* A path less the slashes at both its ends.
Trim(path) ==
  LET named == {n \in 1..Len(path) : path[n] # Blank}
  IN  IF named = {} THEN <<Blank>> ELSE SubSeq(path, First(named), Final(named))

\* Mutant: posts are linked to with the pattern of pages.
EntryPathOfPage(e) == Trim(SegmentsOf[e.slug])

EntryPath(e) == Trim((IF e.kind = "page" THEN <<>> ELSE <<"posts">>) \o SegmentsOf[e.slug])

LinkPaths == {EntryPath([kind |-> "post", slug |-> slug]) : slug \in Slugs \cup {""}}

\* An address carries the path as it is.
Carried(path) == \A n \in 1..Len(path) : path[n] \in Names \ Odd

\* A request has a path that is routed, and (decoded) one that the site looks at.
Requests == [route : Paths \ {<<>>}, path : Paths \ {<<>>}]

AsIs(path) == [route |-> path, path |-> path]

\* A browser cuts, escapes and resolves what it finds in a link, and net/http redirects
\* from some paths to others: nothing is known but of paths that mean just themselves.
ASSUME RequestAssumption ==
  /\ Requested \in [LinkPaths -> Requests]
  /\ \A path \in LinkPaths : Carried(path) => Requested[path] = AsIs(path)

\* The routes of the site take one segment, which may be empty, or two of which the
\* first is posts and the second is not empty.
Routed(request) ==
  LET route == request.route
  IN  /\ Len(route) = 1 \/ (Len(route) = 2 /\ route[1] = "posts" /\ route[2] # Blank)
      /\ route[1] \notin Reserved /\ request.path[1] \notin Reserved

Matches(kind, path) ==
  IF kind = "page" THEN Len(path) = 1 ELSE Len(path) > 1 /\ path[1] = "posts"

SlugIn(kind, path) == IF kind = "page" THEN path ELSE Trim(Tail(path))
-----------------------------------------------------------------------------
NotFound == [found |-> "nothing"]
HomePage == [found |-> "home"]

Links == [id : Ids, slug : Slugs \cup {""}, path : LinkPaths]
Pages == [found : {"entry"}, kind : Kinds, id : Ids] \cup {NotFound, HomePage}

\* Rows carry the kind of their table: nothing files one anywhere else.
TypeOK ==
  /\ tables \in Tables
  /\ \A k \in Kinds, i \in Ids : tables[k][i] # NoEntry => tables[k][i].kind = k
  /\ links \subseteq Links
  /\ answer = NoAnswer \/ answer \in [link : Links, page : Pages]
-----------------------------------------------------------------------------
(***************************************************************************)
(* Requests.                                                               *)
(***************************************************************************)
ShownIds(ts, k) == {i \in Listed(ts[k]) : Shown(ts[k][i])}

\* Mutant: the lookup goes over all that is listed, published or not.
WithSlugAny(ts, k, segments) ==
  {i \in Listed(ts[k]) : SegmentsOf[ts[k][i].slug] = segments}

\* Mutant: a slug is compared up to its first slash.
WithSlugCut(ts, k, segments) ==
  {i \in ShownIds(ts, k) : SegmentsOf[ts[k][i].slug][1] = segments[1]}

\* Slugs are compared as they are stored, slashes at their ends and all.
WithSlug(ts, k, segments) ==
  {i \in ShownIds(ts, k) : SegmentsOf[ts[k][i].slug] = segments}

\* Pages are looked for before posts, and of several entries the first listed is shown.
Assemble(ts, path) ==
  LET clean == Trim(path)
      Candidates ==
        {k \in Kinds : Matches(k, clean) /\ WithSlug(ts, k, SlugIn(k, clean)) # {}}
      kind == IF "page" \in Candidates THEN "page" ELSE "post"
  IN  CASE clean = <<Blank>> -> HomePage
        [] clean # <<Blank>> /\ Candidates = {} -> NotFound
        [] clean # <<Blank>> /\ Candidates # {} ->
             [found |-> "entry", kind |-> kind,
              id |-> First(WithSlug(ts, kind, SlugIn(kind, clean)))]

Serve(ts, request) == IF Routed(request) THEN Assemble(ts, request.path) ELSE NotFound

\* The REST API looks a slug up in the list of one kind, without any path.
BySlug(ts, k, slug) ==
  LET same == {i \in ShownIds(ts, k) : ts[k][i].slug = slug}
  IN  IF same = {} THEN NotFound ELSE [found |-> "entry", kind |-> k, id |-> First(same)]

Init ==
  /\ tables = [k \in Kinds |-> [i \in Ids |-> NoEntry]]
  /\ links = {}
  /\ answer = NoAnswer

OpenHome ==
  /\ links' = {[id |-> i, slug |-> tables["post"][i].slug, path |-> EntryPath(tables["post"][i])] :
                 i \in ShownIds(tables, "post")}
  /\ answer' = NoAnswer
  /\ UNCHANGED tables

Follow(link) ==
  /\ answer' = [link |-> link, page |-> Serve(tables, Requested[link.path])]
  /\ UNCHANGED <<tables, links>>

Change(i, e) ==
  /\ tables' = Save(tables, i, e)
  /\ UNCHANGED <<links, answer>>

Next ==
  \/ OpenHome
  \/ \E link \in links : Follow(link)
  \/ \E i \in Ids, e \in Writes : Change(i, e)

Spec == Init /\ [][Next]_vars
-----------------------------------------------------------------------------
(***************************************************************************)
(* Properties.                                                             *)
(***************************************************************************)
Unique(k, i) ==
  \A j \in ShownIds(tables, k) : tables[k][j].slug = tables[k][i].slug => j = i

Plain(k, slug) ==
  LET segments == SegmentsOf[slug]
  IN  Len(segments) = 1 /\ Carried(segments) /\ (k = "page" => segments[1] \notin Reserved)

\* The path of an entry leads to that entry, for every entry the site shows whose slug
\* is a single segment that addresses carry and that no other entry of its kind has: no
\* route, pattern or entry of the other kind is in the way.  A page must not have the
\* name of a reserved path.  When entries share a slug, or none has it, the site still
\* shows what the REST API returns for the slug, although the two search the entries
\* each in their own way.
EntriesReachable ==
  \A k \in Kinds :
    /\ \A i \in ShownIds(tables, k) :
         Plain(k, tables[k][i].slug) /\ Unique(k, i) =>
           Serve(tables, AsIs(EntryPath(tables[k][i])))
             = [found |-> "entry", kind |-> k, id |-> i]
    /\ \A slug \in Slugs :
         Plain(k, slug) =>
           Serve(tables, AsIs(EntryPath([kind |-> k, slug |-> slug])))
             = BySlug(tables, k, slug)

FollowedTruly ==
  answer' # answer /\ answer' # NoAnswer /\ answer'.page.found = "entry" =>
    LET p == answer'.page  e == tables[p.kind][p.id]
        link == answer'.link  meant == Trim(SegmentsOf[link.slug])
    IN  /\ e # NoEntry /\ Shown(e)
        /\ meant # <<Blank>> /\ Carried(link.path) =>
             p.kind = "post" /\ SegmentsOf[e.slug] = meant

\* However old the page with the link is, and whatever a browser makes of the link:
\* following it never leads to an entry that is not public at that moment.  And a link
\* with a path that addresses carry leads to no other entry than a post whose slug is
\* that of the linked post, less the slashes at its ends: the link of a post a/ may show
\* the post a.  It leads there or nowhere, and not to a page with the name.
LinksStayTrue == [][FollowedTruly]_vars
=============================================================================
