------------------------------ MODULE PublicSiteMC ------------------------------
(***************************************************************************)
(* What is seen of entries: small instances of                             *)
(*   PublicSite  two posts and two pages with slugs that are plain,        *)
(*               shared, empty, of two segments, the names of routes, with *)
(*               a slash at an end, or with an escaped one;                *)
(*   Surfaces    tables of two and three rows, of which a list returns     *)
(*               one, titles without an English text, and records that do  *)
(*               not decode;                                               *)
(*   AdminForms  a title in two languages, a slug that has been saved      *)
(*               through a form none, one or two times, an empty slug.     *)
(* They share operators, but no state: a behaviour is about one of them    *)
(* ("part").                                                               *)
(***************************************************************************)
EXTENDS PublicSite, Surfaces, AdminForms, TLC

MCSegments ==
  [s \in Slugs \cup {""} |->
     CASE s = "a/" -> <<"a", "">> [] s = "a/b" -> <<"a", "b">>
       [] OTHER -> <<s>>]

\* An escaped slash does not count for the routes, but the site sees it as a slash.
MCRequested ==
  [path \in LinkPaths |->
     CASE path = <<"posts", "a%2Fb">> -> [route |-> path, path |-> <<"posts", "a", "b">>]
       [] OTHER -> AsIs(path)]

Entry(kind, status, visibility, slug) ==
  [kind |-> kind, status |-> status, visibility |-> visibility, slug |-> slug,
   createdAt |-> 1, updatedAt |-> 1, publishedAt |-> 1, scheduledFor |-> 0]

\* A post has its slug behind /posts/, where no name is reserved; posts are hidden by
\* their status, and pages by their visibility.
MCWrites ==
  {Entry("post", "published", "public", s) : s \in (Slugs \ {"static"}) \cup {""}}
  \cup {Entry("page", "published", "public", s) : s \in {"a", "posts", "static"}}
  \cup {Entry("post", "trashed", "public", "a"), Entry("page", "published", "private", "a")}
-----------------------------------------------------------------------------
Foreign == [l \in Languages |-> IF l = "en" THEN "" ELSE l]

StoredRow(status, visibility, garbled) ==
  [status |-> status, visibility |-> visibility, title |-> Foreign, garbled |-> garbled]

MCWritten == {StoredRow("draft", "public", FALSE), StoredRow("trashed", "password", FALSE)}
MCImported == {StoredRow("published", "public", FALSE), StoredRow("published", "public", TRUE)}

Setting(value, public, garbled) == [value |-> value, public |-> public, garbled |-> garbled]

MCSavedSettings == {Setting("mine", FALSE, FALSE)}
MCImportedSettings == {Setting("blank", FALSE, FALSE), Setting("", TRUE, TRUE)}

MCMenuRows ==
  {[location |-> "primary", garbled |-> FALSE], [location |-> "footer", garbled |-> TRUE]}
-----------------------------------------------------------------------------
MCSlugJSON == "a" :> "{a}" @@ "{a}" :> "{{a}}" @@ "" :> "{}"

NewEntry(kind, status, slug, title, body) ==
  [kind |-> kind, status |-> status, slug |-> slug, title |-> title, body |-> body]

MCNewEntries ==
  {NewEntry("post", "draft", "a", [l \in Locales |-> "x"], "x"),
   NewEntry("", "published", "", NoTitle, ""),
   NewEntry("page", "published", "a", PlainTitle("x"), "x")}

CONSTANTS e1, e2
TwoEditors == {e1, e2}
Symmetry == Permutations(Editors)
-----------------------------------------------------------------------------
VARIABLE part

MCInit == Init /\ SurfacesInit /\ FormsInit /\ part \in {"site", "surfaces", "forms"}

MCNext ==
  \/ part = "site" /\ Next /\ UNCHANGED <<surfaceVars, formVars, part>>
  \/ part = "surfaces" /\ SurfacesNext /\ UNCHANGED <<vars, formVars, part>>
  \/ part = "forms" /\ FormsNext /\ UNCHANGED <<vars, surfaceVars, part>>

MCSpec == MCInit /\ [][MCNext]_<<vars, surfaceVars, formVars, part>>
=============================================================================
