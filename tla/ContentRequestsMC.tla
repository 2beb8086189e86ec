--------------------------- MODULE ContentRequestsMC ---------------------------
(***************************************************************************)
(* Small instances of ContentRequests.                                     *)
(***************************************************************************)
EXTENDS ContentRequests, TLC

CONSTANTS r1, r2

Blank ==
  [kind |-> "", status |-> "", visibility |-> "", slug |-> "",
   createdAt |-> 0, updatedAt |-> 0, publishedAt |-> 0, scheduledFor |-> 0]

Row(status, visibility, slug) ==
  [Blank EXCEPT !.status = status, !.visibility = visibility, !.slug = slug,
                !.createdAt = 1, !.updatedAt = 1]

\* The seed stores its rows without a kind: a post 1 and a page 2.
Seeded ==
  [EmptyTables EXCEPT !["post"][1] = Row("published", "public", "a"),
                      !["page"][2] = Row("published", "private", "b")]

MCInitialTables == {Seeded}

Ask(surface, op, kind, id, e) ==
  [surface |-> surface, op |-> op, kind |-> kind, id |-> id, entry |-> e]

Sent(status, visibility, slug) ==
  [Blank EXCEPT !.status = status, !.visibility = visibility, !.slug = slug]

\* REST and admin requests on both kinds and ids, operations of the service no route
\* calls (publish is part of a create, and archive is like trash), and the public reader.
MCInputs ==
  {Ask("rest", "create", "page", 1, Sent("published", "", "b")),
   Ask("bff", "create", "post", 2, Sent("published", "private", "a")),
   Ask("rest", "update", "page", 2, Sent("", "public", "")),
   Ask("bff", "update", "post", 1, Sent("", "", "b")),
   Ask("rest", "trash", "post", 1, Blank),
   Ask("service", "schedule", "post", 1, [Blank EXCEPT !.scheduledFor = 2]),
   Ask("service", "restore", "post", 1, Blank),
   Ask("public", "read", "post", 1, Blank)}

\* Few requests, of which one creates and publishes a page under an id that a post
\* may have: its second step then finds the post.
OddInputs ==
  {Ask("rest", "create", "page", 1, Sent("published", "", "a")),
   Ask("rest", "update", "post", 1, Sent("archived", "", "")),
   Ask("bff", "trash", "post", 1, Blank)}

Symmetry == Permutations({r1, r2})
=============================================================================
