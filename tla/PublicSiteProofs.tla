---------------------------- MODULE PublicSiteProofs ----------------------------
(***************************************************************************)
(* Every entry the site shows is found under its own path, whatever the    *)
(* entries, slugs and reserved names are, and links stay true to what they *)
(* said, however long they are kept.  Both come down to what slashes are   *)
(* trimmed from a path and what the rest is taken for; of the state they   *)
(* only need that rows carry the kind of their table.                      *)
(*                                                                         *)
(* The second part is about where else entries and settings are seen: each *)
(* surface shows what the next one shows, and a list that answers goes on  *)
(* to answer unless an import breaks it, since no row is ever deleted.     *)
(*                                                                         *)
(* The third part is about the screens editors keep open beside the site:  *)
(* they point at rows that are there, and a form saved late undoes only    *)
(* what others changed in fields its editor left alone.                    *)
(***************************************************************************)
EXTENDS PublicSite, Surfaces, AdminForms, SequenceTheorems, FiniteSetTheorems, TLAPS

\* The entries a lookup goes over are rows, with the kind of their table.
LEMMA ShownRows ==
  ASSUME TypeOK, NEW k \in Kinds, NEW i \in ShownIds(tables, k)
  PROVE  /\ i \in Ids
         /\ tables[k][i] \in Entries
         /\ tables[k][i] # NoEntry
         /\ tables[k][i].kind = k
         /\ tables[k][i].slug \in Slugs \cup {""}
         /\ Shown(tables[k][i])
<1>1. i \in Ids /\ tables[k][i] # NoEntry /\ Shown(tables[k][i])
  BY DEF ShownIds, Listed
<1>2. tables[k][i] \in Entries
  BY <1>1 DEF TypeOK, Tables
<1>3. tables[k][i].kind = k
  BY <1>1 DEF TypeOK
<1> QED
  BY <1>1, <1>2, <1>3 DEF Entries

\* The first of several numbers is one of them: the intervals from zero up to each of
\* them are finite, and one of these intervals has no other within it.
LEMMA FirstIsOne ==
  ASSUME NEW ids \in SUBSET Nat, ids # {}
  PROVE  First(ids) \in ids /\ \A j \in ids : First(ids) <= j
<1> DEFINE UpTo == {0 .. i : i \in ids}
<1>1. ids \subseteq Nat
  OBVIOUS
<1>2. UpTo \subseteq FiniteSubsetsOf(Nat) /\ UpTo # {}
  <2>1. \A i \in ids : 0 .. i \in SUBSET Nat /\ IsFiniteSet(0 .. i)
    BY <1>1, FS_Interval
  <2> QED
    BY <2>1 DEF FiniteSubsetsOf
<1>3. PICK I \in UpTo : \A J \in UpTo : <<J, I>> \notin StrictSubsetOrdering(Nat)
  <2> HIDE DEF UpTo
  <2> QED
    BY <1>2, FS_StrictSubsetOrderingWellFounded, WFMin
<1>4. PICK i \in ids : I = 0 .. i
  BY <1>3
<1>5. ASSUME NEW j \in ids PROVE i <= j
  <2>1. <<0 .. j, 0 .. i>> \notin StrictSubsetOrdering(Nat)
    BY <1>3, <1>4
  <2>2. 0 .. j \in SUBSET Nat /\ 0 .. i \in SUBSET Nat
    BY <1>1
  <2>3. ~(0 .. j \subseteq 0 .. i) \/ 0 .. j = 0 .. i
    BY <2>1, <2>2 DEF StrictSubsetOrdering
  <2>4. CASE ~(0 .. j \subseteq 0 .. i)
    BY <1>1, <2>4
  <2>5. CASE 0 .. j = 0 .. i
    <3>1. i \in 0 .. i /\ i \in Nat /\ j \in Nat
      BY <1>1
    <3> QED
      BY <2>5, <3>1
  <2> QED
    BY <2>3, <2>4, <2>5
<1> QED
  BY <1>5 DEF First

\* So is the last, if they are bounded: counted from the bound it is the first.
LEMMA FinalIsOne ==
  ASSUME NEW n \in Nat, NEW ids \in SUBSET (1..n), ids # {}
  PROVE  Final(ids) \in ids /\ \A j \in ids : j <= Final(ids)
<1> DEFINE back == {n - i : i \in ids}
<1>1. back \in SUBSET Nat /\ back # {}
  <2>1. \A i \in ids : n - i \in Nat
    OBVIOUS
  <2> QED  BY <2>1
<1>2. First(back) \in back /\ \A j \in back : First(back) <= j
  <2> HIDE DEF back
  <2> QED  BY <1>1, FirstIsOne
<1>3. PICK i \in ids : First(back) = n - i
  BY <1>2
<1>4. \A j \in ids : n - i <= n - j
  BY <1>2, <1>3
<1>5. \A j \in ids : j <= i
  BY <1>4
<1> QED
  BY <1>5 DEF Final

\* The segments that occur are not empty, and one of them is posts.
LEMMA Segments ==
  "posts" \in Names /\ "posts" \notin Reserved /\ Blank \notin Names /\ "posts" # Blank
BY SiteAssumption, Zenon

\* The length of a path.
LEMMA PathLength ==
  ASSUME NEW path \in Paths
  PROVE  Len(path) \in Nat /\ path \in Seq(Names \cup {Blank}) /\ (path # <<>> <=> Len(path) > 0)
<1>1. path \in Seq(Names \cup {Blank})
  BY DEF Paths
<1>2. Len(path) \in Nat /\ Len(<<>>) = 0
  BY <1>1, LenProperties, EmptySeq
<1>3. path # <<>> => Len(path) \in Nat \ {0}
  BY <1>1, EmptySeq
<1> QED
  BY <1>1, <1>2, <1>3

\* Nothing is trimmed from a path with no slashes at its ends.
LEMMA TrimNamed ==
  ASSUME NEW path \in Paths, path # <<>>, path[1] # Blank, path[Len(path)] # Blank
  PROVE  Trim(path) = path
<1> DEFINE named == {n \in 1..Len(path) : path[n] # Blank}
<1>1. Len(path) \in Nat \ {0} /\ path \in Seq(Names \cup {Blank})
  BY PathLength
<1>2. 1 \in named /\ Len(path) \in named /\ named \subseteq 1..Len(path)
  BY <1>1
<1> HIDE DEF named
<1>3. First(named) = 1
  <2>1. First(named) \in named /\ First(named) <= 1
    BY <1>1, <1>2, FirstIsOne
  <2>2. First(named) \in 1..Len(path)
    BY <1>2, <2>1
  <2> QED  BY <1>1, <2>1, <2>2
<1>4. Final(named) = Len(path)
  <2>1. Final(named) \in named /\ Len(path) <= Final(named)
    BY <1>1, <1>2, FinalIsOne
  <2>2. Final(named) \in 1..Len(path)
    BY <1>2, <2>1
  <2> QED  BY <1>1, <2>1, <2>2
<1>5. Trim(path) = SubSeq(path, 1, Len(path))
  BY <1>2, <1>3, <1>4 DEF Trim, named
<1> QED
  BY <1>1, <1>5, SubSeqFull

\* What stands behind posts in a path.
LEMMA BehindPosts ==
  ASSUME NEW segments \in Paths
  PROVE  LET path == <<"posts">> \o segments
         IN  /\ path \in Paths /\ path # <<>>
             /\ Len(path) = Len(segments) + 1
             /\ path[1] = "posts"
             /\ \A n \in 1..Len(segments) : path[n + 1] = segments[n]
<1> DEFINE path == <<"posts">> \o segments
<1>1. <<"posts">> \in Paths /\ Len(<<"posts">>) = 1 /\ <<"posts">>[1] = "posts"
  <2>1. "posts" \in Names \cup {Blank}
    BY Segments
  <2> QED  BY <2>1 DEF Paths
<1>2. /\ path \in Paths
      /\ Len(path) = 1 + Len(segments)
      /\ \A n \in 1 .. 1 + Len(segments) :
           path[n] = IF n <= 1 THEN <<"posts">>[n] ELSE segments[n - 1]
  BY <1>1, ConcatProperties DEF Paths
<1>3. Len(segments) \in Nat
  BY PathLength
<1> HIDE DEF path
<1>4. path # <<>>
  BY <1>2, <1>3, PathLength
<1>5. \A n \in 1..Len(segments) : path[n + 1] = segments[n]
  BY <1>2, <1>3
<1> QED
  BY <1>1, <1>2, <1>3, <1>4, <1>5 DEF path

\* A path of two segments, posts and another, is the path of the post with that slug.
LEMMA TwoSegments ==
  ASSUME NEW path \in Paths, Len(path) = 2, path[1] = "posts", path[2] # Blank
  PROVE  /\ Trim(path) = path /\ path # <<Blank>>
         /\ SlugIn("post", path) \in Paths
         /\ Len(SlugIn("post", path)) = 1 /\ SlugIn("post", path)[1] = path[2]
         /\ Matches("post", path) /\ ~Matches("page", path)
<1>1. path # <<>> /\ path # <<Blank>> /\ path[Len(path)] # Blank
  <2>1. path # <<>>
    <3>1. Len(path) > 0
      OBVIOUS
    <3> QED  BY <3>1, PathLength, Zenon
  <2>2. path # <<Blank>>
    BY Segments
  <2> QED  BY <2>1, <2>2
<1>2. Trim(path) = path
  BY <1>1, Segments, TrimNamed
<1>3. Tail(path) \in Paths /\ Len(Tail(path)) = 1 /\ Tail(path)[1] = path[2]
  <2>1. path \in Seq(Names \cup {Blank})
    BY DEF Paths
  <2>2. /\ Tail(path) \in Seq(Names \cup {Blank}) /\ Len(Tail(path)) = Len(path) - 1
        /\ \A i \in 1..Len(Tail(path)) : Tail(path)[i] = path[i + 1]
    BY <1>1, <2>1, HeadTailProperties
  <2>3. Tail(path) \in Paths
    BY <2>2 DEF Paths
  <2>4. Len(Tail(path)) = 1
    BY <2>2
  <2>5. Tail(path)[1] = path[2]
    <3>1. \A i \in 1..1 : Tail(path)[i] = path[i + 1]
      BY <2>2, <2>4
    <3> QED  BY <3>1
  <2> QED  BY <2>3, <2>4, <2>5
<1> DEFINE slug == Tail(path)
<1> HIDE DEF slug
<1>4. slug \in Paths /\ Len(slug) = 1 /\ slug[1] = path[2]
  BY <1>3 DEF slug
<1>5. Trim(slug) = slug
  <2>1. slug # <<>>
    BY <1>4, PathLength
  <2> QED  BY <1>4, <2>1, TrimNamed
<1>6. SlugIn("post", path) = slug
  BY <1>5 DEF SlugIn, slug
<1>7. Matches("post", path) /\ ~Matches("page", path)
  BY DEF Matches
<1> QED
  BY <1>1, <1>2, <1>4, <1>6, <1>7

\* The path of a link to a post, when it is two segments, is looked up as the slug of
\* the post less the slashes at its ends.
LEMMA LinkedSlug ==
  ASSUME NEW segments \in Paths, Trim(segments) # <<Blank>>,
         NEW path, path = Trim(<<"posts">> \o segments), Carried(path), Len(path) \in {1, 2}
  PROVE  /\ Trim(path) = path
         /\ SlugIn("post", path) = Trim(segments)
         /\ ~Matches("page", path)
<1> DEFINE whole == <<"posts">> \o segments
           named == {n \in 1..Len(whole) : whole[n] # Blank}
           inner == {n \in 1..Len(segments) : segments[n] # Blank}
<1>1. /\ whole \in Paths /\ Len(whole) = Len(segments) + 1 /\ whole[1] = "posts"
      /\ \A n \in 1..Len(segments) : whole[n + 1] = segments[n]
      /\ Len(segments) \in Nat
  BY BehindPosts, PathLength
<1> HIDE DEF whole
<1>2. /\ 1 \in named /\ named \subseteq 1..Len(whole) /\ Len(whole) \in Nat
      /\ \A n \in inner : n + 1 \in named
  BY <1>1, Segments
<1>3. First(named) = 1
  <2> HIDE DEF named
  <2>1. First(named) \in named /\ First(named) <= 1
    BY <1>2, FirstIsOne
  <2>2. First(named) \in 1..Len(whole)
    BY <1>2, <2>1
  <2> QED  BY <1>2, <2>1, <2>2
<1>4. Final(named) \in named /\ \A n \in named : n <= Final(named)
  <2> HIDE DEF named
  <2> QED  BY <1>2, FinalIsOne
<1>5. path = SubSeq(whole, 1, Final(named))
  <2>1. named # {}
    BY <1>2
  <2> QED  BY <1>3, <2>1 DEF Trim, whole
<1>6. /\ path \in Paths /\ Len(path) = Final(named)
      /\ \A n \in 1..Final(named) : path[n] = whole[n]
  <2>1. Final(named) \in 1..Len(whole) /\ whole \in Seq(Names \cup {Blank})
    BY <1>1, <1>4 DEF Paths
  <2>2. \A n \in 1..Final(named) : whole[n] \in Names \cup {Blank}
    BY <1>1, <2>1, ElementOfSeq
  <2> HIDE DEF named
  <2>3. /\ SubSeq(whole, 1, Final(named)) \in Seq(Names \cup {Blank})
        /\ Len(SubSeq(whole, 1, Final(named))) = Final(named)
        /\ \A n \in 1..Final(named) : SubSeq(whole, 1, Final(named))[n] = whole[n]
    BY <1>1, <2>1, <2>2, SubSeqProperties
  <2> QED  BY <1>5, <2>3 DEF Paths
<1>7. inner # {}
  BY DEF Trim
<1>8. Final(named) = 2 /\ inner = {1}
  <2>1. \A n \in inner : n + 1 <= Final(named) /\ n \in Nat \ {0}
    BY <1>1, <1>2, <1>4
  <2>2. Final(named) = 2
    <3>1. PICK n \in inner : TRUE
      BY <1>7
    <3>2. n \in Nat \ {0} /\ n + 1 <= Final(named) /\ Final(named) \in {1, 2}
      <4> HIDE DEF named, inner
      <4> QED  BY <1>6, <2>1
    <3> HIDE DEF named, inner
    <3> QED  BY <3>2
  <2>3. \A n \in inner : n = 1
    BY <2>1, <2>2
  <2> QED  BY <1>7, <2>2, <2>3
<1>9. Len(path) = 2 /\ path[1] = "posts" /\ path[2] = segments[1] /\ path[2] # Blank
  <2>0. Len(path) = 2 /\ path[1] = whole[1] /\ path[2] = whole[2]
    <3> HIDE DEF named, inner
    <3> QED  BY <1>6, <1>8
  <2>1. 1 \in 1..Len(segments) /\ segments[1] # Blank
    BY <1>8
  <2>2. whole[2] = segments[1]
    BY <1>1, <2>1
  <2> HIDE DEF named, inner
  <2> QED  BY <1>1, <2>0, <2>1, <2>2
<1>10. /\ Trim(path) = path /\ ~Matches("page", path)
       /\ SlugIn("post", path) \in Paths
       /\ Len(SlugIn("post", path)) = 1 /\ SlugIn("post", path)[1] = segments[1]
  BY <1>6, <1>9, TwoSegments
<1>11. Trim(segments) \in Paths /\ Len(Trim(segments)) = 1 /\ Trim(segments)[1] = segments[1]
  <2>1. First(inner) = 1 /\ Final(inner) = 1
    <3> HIDE DEF inner
    <3>1. {1} \in SUBSET (1..1) /\ {1} # {} /\ {1} \in SUBSET Nat /\ 1 \in Nat
      OBVIOUS
    <3>2. First({1}) \in {1} /\ Final({1}) \in {1}
      BY <3>1, FirstIsOne, FinalIsOne
    <3> QED  BY <1>8, <3>2
  <2>2. Trim(segments) = SubSeq(segments, 1, 1)
    BY <1>7, <2>1 DEF Trim
  <2>3. 1 \in 1..Len(segments) /\ segments \in Seq(Names \cup {Blank})
    BY <1>8 DEF Paths
  <2>4. \A n \in 1..1 : segments[n] \in Names \cup {Blank}
    BY <2>3, ElementOfSeq
  <2>5. /\ SubSeq(segments, 1, 1) \in Seq(Names \cup {Blank})
        /\ Len(SubSeq(segments, 1, 1)) = 1
        /\ SubSeq(segments, 1, 1)[1] = segments[1]
    BY <2>4, SubSeqProperties
  <2> QED  BY <2>2, <2>5 DEF Paths
<1>12. SlugIn("post", path) = Trim(segments)
  <2>1. \A n \in 1..1 : SlugIn("post", path)[n] = Trim(segments)[n]
    BY <1>10, <1>11
  <2> QED  BY <1>10, <1>11, <2>1, SeqEqual DEF Paths
<1> QED
  BY <1>10, <1>12
-----------------------------------------------------------------------------
\* A lookup finds shown entries of the table it goes over.
LEMMA LookupFinds ==
  ASSUME TypeOK, NEW k \in Kinds, NEW segments, WithSlug(tables, k, segments) # {}
  PROVE  /\ First(WithSlug(tables, k, segments)) \in ShownIds(tables, k)
         /\ SegmentsOf[tables[k][First(WithSlug(tables, k, segments))].slug] = segments
<1>1. WithSlug(tables, k, segments) \in SUBSET Ids
  BY DEF WithSlug, ShownIds, Listed
<1>2. First(WithSlug(tables, k, segments)) \in WithSlug(tables, k, segments)
  BY <1>1, FirstIsOne, DomainAssumption
<1> QED
  BY <1>2 DEF WithSlug

\* The lookups of the site and of the REST API go over the same entries.
LEMMA SameEntries ==
  ASSUME TypeOK, NEW k \in Kinds, NEW slug \in Slugs \cup {""}
  PROVE  WithSlug(tables, k, SegmentsOf[slug])
           = {i \in ShownIds(tables, k) : tables[k][i].slug = slug}
<1>1. ASSUME NEW j \in ShownIds(tables, k)
      PROVE  SegmentsOf[tables[k][j].slug] = SegmentsOf[slug] <=> tables[k][j].slug = slug
  <2>1. tables[k][j].slug \in Slugs \cup {""}
    BY ShownRows
  <2> QED
    BY <2>1, SiteAssumption
<1> QED
  BY <1>1 DEF WithSlug

\* What a path is taken for that only one kind has a use for.
LEMMA AssembleOne ==
  ASSUME NEW k \in Kinds, NEW path, Trim(path) = path, path # <<Blank>>,
         \A l \in Kinds : Matches(l, path) <=> l = k
  PROVE  Assemble(tables, path) =
           IF WithSlug(tables, k, SlugIn(k, path)) = {} THEN NotFound
           ELSE [found |-> "entry", kind |-> k,
                 id |-> First(WithSlug(tables, k, SlugIn(k, path)))]
<1> DEFINE Candidates ==
             {l \in Kinds : Matches(l, path) /\ WithSlug(tables, l, SlugIn(l, path)) # {}}
<1>1. CASE WithSlug(tables, k, SlugIn(k, path)) = {}
  <2>1. Candidates = {}
    BY <1>1, Zenon
  <2> QED
    BY <1>1, <2>1 DEF Assemble
<1>2. CASE WithSlug(tables, k, SlugIn(k, path)) # {}
  <2>1. Candidates = {k}
    BY <1>2, Zenon
  <2>2. k = IF "page" \in Candidates THEN "page" ELSE "post"
    BY <2>1 DEF Kinds
  <2> HIDE DEF Candidates
  <2>3. Candidates # {}
    BY <2>1
  <2> QED
    BY <1>2, <2>2, <2>3 DEF Assemble, Candidates
<1> QED
  BY <1>1, <1>2

\* The path to a plain slug of a kind is routed, and read as that slug of that kind only.
LEMMA PlainPath ==
  ASSUME NEW k \in Kinds, NEW segments \in Paths, Len(segments) = 1, Carried(segments),
         k = "page" => segments[1] \notin Reserved,
         NEW path, path = Trim((IF k = "page" THEN <<>> ELSE <<"posts">>) \o segments)
  PROVE  /\ Trim(path) = path /\ path # <<Blank>>
         /\ Routed(AsIs(path)) /\ SlugIn(k, path) = segments
         /\ \A l \in Kinds : Matches(l, path) <=> l = k
<1>1. segments[1] # Blank /\ segments # <<>> /\ segments \in Seq(Names \cup {Blank})
  <2>1. segments[1] \in Names
    BY DEF Carried
  <2> QED  BY <2>1, Segments, PathLength
<1>2. Trim(segments) = segments
  BY <1>1, TrimNamed
<1>3. CASE k = "page"
  <2>1. path = segments
    BY <1>1, <1>2, <1>3, ConcatEmptySeq
  <2>2. Routed(AsIs(path))
    BY <1>3, <2>1 DEF Routed, AsIs
  <2>3. Matches("page", path) /\ ~Matches("post", path) /\ SlugIn("page", path) = path
    <3>1. Len(path) = 1 /\ ~(Len(path) > 1)
      <4>1. Len(path) = 1
        BY <2>1, Zenon
      <4>2. \A n : n = 1 => ~(n > 1)
        OBVIOUS
      <4> QED  BY <4>1, <4>2, Zenon
    <3>2. "page" # "post"
      OBVIOUS
    <3> QED  BY <3>1, <3>2, Zenon DEF Matches, SlugIn
  <2> QED
    BY <1>1, <1>2, <1>3, <2>1, <2>2, <2>3 DEF Kinds
<1>4. CASE k = "post"
  <2> DEFINE whole == <<"posts">> \o segments
  <2>1. whole \in Paths /\ Len(whole) = 2 /\ whole[1] = "posts" /\ whole[2] = segments[1]
    <3>1. 1 \in 1..Len(segments)
      OBVIOUS
    <3>2. \A n \in 1..Len(segments) : whole[n + 1] = segments[n]
      BY BehindPosts
    <3>3. whole[2] = segments[1]
      BY <3>1, <3>2
    <3> QED  BY <3>3, BehindPosts
  <2>2. path = Trim(whole)
    BY <1>4
  <2> HIDE DEF whole
  <2>3. /\ path = whole /\ Trim(path) = path /\ path # <<Blank>>
        /\ SlugIn("post", path) \in Paths /\ Len(SlugIn("post", path)) = 1
        /\ SlugIn("post", path)[1] = segments[1]
        /\ Matches("post", path) /\ ~Matches("page", path)
    BY <1>1, <2>1, <2>2, TwoSegments
  <2>4. SlugIn("post", path) = segments
    BY <2>3, SeqEqual DEF Paths
  <2>5. Routed(AsIs(path))
    BY <1>1, <2>1, <2>3, Segments DEF Routed, AsIs
  <2> QED
    BY <1>4, <2>3, <2>4, <2>5 DEF Kinds
<1> QED
  BY <1>3, <1>4 DEF Kinds

\* The path of a plain slug leads to what a lookup of the slug finds.
LEMMA PlainServed ==
  ASSUME NEW k \in Kinds, NEW slug, SegmentsOf[slug] \in Paths, Plain(k, slug)
  PROVE  Serve(tables, AsIs(EntryPath([kind |-> k, slug |-> slug]))) =
           IF WithSlug(tables, k, SegmentsOf[slug]) = {} THEN NotFound
           ELSE [found |-> "entry", kind |-> k, id |-> First(WithSlug(tables, k, SegmentsOf[slug]))]
<1> DEFINE segments == SegmentsOf[slug]
           path == EntryPath([kind |-> k, slug |-> slug])
<1>1. /\ segments \in Paths /\ Len(segments) = 1 /\ Carried(segments)
      /\ k = "page" => segments[1] \notin Reserved
  BY DEF Plain
<1>2. path = Trim((IF k = "page" THEN <<>> ELSE <<"posts">>) \o segments)
  BY DEF EntryPath
<1> HIDE DEF segments, path
<1>3. /\ Trim(path) = path /\ path # <<Blank>>
      /\ Routed(AsIs(path)) /\ SlugIn(k, path) = segments
      /\ \A l \in Kinds : Matches(l, path) <=> l = k
  BY <1>1, <1>2, PlainPath
<1>4. Serve(tables, AsIs(path)) = Assemble(tables, path)
  BY <1>3 DEF Serve, AsIs
<1> QED
  BY <1>3, <1>4, AssembleOne DEF path, segments

\* The site answers the path of a plain slug as the REST API answers the slug.
LEMMA ServedAsBySlug ==
  ASSUME TypeOK, NEW k \in Kinds, NEW slug \in Slugs \cup {""}, Plain(k, slug)
  PROVE  Serve(tables, AsIs(EntryPath([kind |-> k, slug |-> slug]))) = BySlug(tables, k, slug)
<1>1. WithSlug(tables, k, SegmentsOf[slug]) = {i \in ShownIds(tables, k) : tables[k][i].slug = slug}
  BY SameEntries
<1>2. SegmentsOf[slug] \in Paths
  BY SiteAssumption
<1> QED
  BY <1>1, <1>2, PlainServed, Zenon DEF BySlug

\* The rows that have the kind of their table lead from their path to themselves.
LEMMA ReachableIfTyped == TypeOK => EntriesReachable
<1> SUFFICES ASSUME TypeOK, NEW k \in Kinds, NEW i \in ShownIds(tables, k),
                    Plain(k, tables[k][i].slug), Unique(k, i)
             PROVE  Serve(tables, AsIs(EntryPath(tables[k][i])))
                      = [found |-> "entry", kind |-> k, id |-> i]
  BY ServedAsBySlug DEF EntriesReachable
<1> DEFINE slug == tables[k][i].slug
           same == {j \in ShownIds(tables, k) : tables[k][j].slug = slug}
<1>1. i \in Ids /\ tables[k][i].kind = k /\ slug \in Slugs \cup {""}
  BY ShownRows
<1>2. EntryPath(tables[k][i]) = EntryPath([kind |-> k, slug |-> slug])
  BY <1>1 DEF EntryPath
<1>3. Serve(tables, AsIs(EntryPath([kind |-> k, slug |-> slug]))) = BySlug(tables, k, slug)
  BY <1>1, ServedAsBySlug
<1>4. same = {i}
  BY DEF Unique
<1>5. First({i}) = i
  <2>1. {i} \in SUBSET Nat /\ {i} # {}
    BY <1>1, DomainAssumption
  <2>2. First({i}) \in {i}
    BY <2>1, FirstIsOne
  <2> QED
    BY <2>2
<1> HIDE DEF same
<1>6. BySlug(tables, k, slug) = [found |-> "entry", kind |-> k, id |-> First(same)]
  BY <1>4 DEF BySlug, same
<1> QED
  BY <1>2, <1>3, <1>4, <1>5, <1>6
-----------------------------------------------------------------------------
\* Of two kinds, the one a path of the site is looked up as.
LEMMA ServedEntry ==
  ASSUME TypeOK, NEW request, Serve(tables, request).found = "entry"
  PROVE  \E k \in Kinds :
           /\ Routed(request)
           /\ Matches(k, Trim(request.path))
           /\ WithSlug(tables, k, SlugIn(k, Trim(request.path))) # {}
           /\ Serve(tables, request) =
                [found |-> "entry", kind |-> k,
                 id |-> First(WithSlug(tables, k, SlugIn(k, Trim(request.path))))]
<1> DEFINE clean == Trim(request.path)
           Candidates ==
             {l \in Kinds : Matches(l, clean) /\ WithSlug(tables, l, SlugIn(l, clean)) # {}}
           kind == IF "page" \in Candidates THEN "page" ELSE "post"
<1>1. Routed(request) /\ Serve(tables, request) = Assemble(tables, request.path)
  BY DEF Serve, NotFound
<1>2. clean # <<Blank>> /\ Candidates # {}
  BY <1>1 DEF Assemble, NotFound, HomePage
<1>3. kind \in Candidates
  BY <1>2 DEF Kinds
<1>4. Serve(tables, request) =
        [found |-> "entry", kind |-> kind,
         id |-> First(WithSlug(tables, kind, SlugIn(kind, clean)))]
  BY <1>1, <1>2 DEF Assemble
<1> HIDE DEF kind
<1> QED
  BY <1>1, <1>3, <1>4

\* What is served is a page of the types declared.
LEMMA ServedType ==
  ASSUME TypeOK, NEW request
  PROVE  Serve(tables, request) \in Pages
<1>1. CASE Serve(tables, request) \in {NotFound, HomePage}
  BY <1>1 DEF Pages
<1>2. CASE Serve(tables, request) \notin {NotFound, HomePage}
  <2>1. Serve(tables, request).found = "entry"
    BY <1>2 DEF Serve, Assemble
  <2>2. PICK k \in Kinds :
          /\ WithSlug(tables, k, SlugIn(k, Trim(request.path))) # {}
          /\ Serve(tables, request) =
               [found |-> "entry", kind |-> k,
                id |-> First(WithSlug(tables, k, SlugIn(k, Trim(request.path))))]
    BY <2>1, ServedEntry
  <2>3. First(WithSlug(tables, k, SlugIn(k, Trim(request.path)))) \in Ids
    BY <2>2, LookupFinds, ShownRows
  <2> QED
    BY <2>2, <2>3 DEF Pages
<1> QED
  BY <1>1, <1>2

\* What every link of the page a visitor has open says of its post.
LinksWellFormed ==
  \A l \in links : l.path = EntryPath([kind |-> "post", slug |-> l.slug])

\* The types of the state, and that the links are those the front page makes.
SiteInv == TypeOK /\ LinksWellFormed

\* With no entries there are no links.
LEMMA InitInv == Init => SiteInv
<1> SUFFICES ASSUME Init PROVE SiteInv
  OBVIOUS
<1>1. tables \in Tables
  BY DEF Init, Tables
<1>2. \A k \in Kinds, i \in Ids : tables[k][i] = NoEntry
  BY DEF Init
<1> QED
  BY <1>1, <1>2 DEF Init, SiteInv, TypeOK, LinksWellFormed

\* No step makes a link or files a row in any other way.
LEMMA NextInv == SiteInv /\ [Next]_vars => SiteInv'
<1> SUFFICES ASSUME SiteInv, [Next]_vars PROVE SiteInv'
  OBVIOUS
<1> USE DEF SiteInv
<1>1. CASE OpenHome
  <2>1. ASSUME NEW i \in ShownIds(tables, "post")
        PROVE  LET e == tables["post"][i]
               IN  /\ [id |-> i, slug |-> e.slug, path |-> EntryPath(e)] \in Links
                   /\ EntryPath(e) = EntryPath([kind |-> "post", slug |-> e.slug])
    <3> DEFINE e == tables["post"][i]
    <3>1. i \in Ids /\ e.kind = "post" /\ e.slug \in Slugs \cup {""}
      BY ShownRows DEF Kinds
    <3>2. EntryPath(e) = EntryPath([kind |-> "post", slug |-> e.slug])
      BY <3>1 DEF EntryPath
    <3>3. EntryPath(e) \in LinkPaths
      BY <3>1, <3>2 DEF LinkPaths
    <3> HIDE DEF e
    <3> QED
      BY <3>1, <3>2, <3>3 DEF Links, e
  <2>2. links' \subseteq Links /\ LinksWellFormed'
    <3>1. \A l \in links' : \E i \in ShownIds(tables, "post") :
            l = [id |-> i, slug |-> tables["post"][i].slug, path |-> EntryPath(tables["post"][i])]
      BY <1>1 DEF OpenHome
    <3>2. \A l \in links' : l \in Links /\ l.path = EntryPath([kind |-> "post", slug |-> l.slug])
      BY <2>1, <3>1
    <3> QED  BY <3>2 DEF LinksWellFormed
  <2> QED
    BY <1>1, <2>2 DEF OpenHome, TypeOK
<1>2. ASSUME NEW link \in links, Follow(link) PROVE SiteInv'
  <2>1. link \in Links
    BY DEF TypeOK
  <2>2. Serve(tables, Requested[link.path]) \in Pages
    BY ServedType
  <2> QED
    BY <1>2, <2>1, <2>2 DEF Follow, TypeOK, LinksWellFormed
<1>3. ASSUME NEW i \in Ids, NEW e \in Writes, Change(i, e) PROVE SiteInv'
  <2>1. e \in Entries /\ e.kind \in Kinds
    BY SiteAssumption
  <2>2. tables' = [tables EXCEPT ![e.kind] = [tables[e.kind] EXCEPT ![i] = e]]
    BY <1>3 DEF Change, Save
  <2>3. tables' \in Tables
    BY <2>1, <2>2 DEF TypeOK, Tables
  <2>4. \A k \in Kinds, j \in Ids : tables'[k][j] = IF k = e.kind /\ j = i THEN e ELSE tables[k][j]
    BY <2>1, <2>2 DEF TypeOK, Tables
  <2>5. \A k \in Kinds, j \in Ids : tables'[k][j] # NoEntry => tables'[k][j].kind = k
    BY <2>4 DEF TypeOK
  <2> QED
    BY <1>3, <2>3, <2>5 DEF Change, TypeOK, LinksWellFormed
<1>4. CASE UNCHANGED vars
  BY <1>4 DEF vars, TypeOK, LinksWellFormed
<1> QED
  BY <1>1, <1>2, <1>3, <1>4 DEF Next

\* The invariant of the site, for any entries, slugs and reserved names.
THEOREM SiteInvHolds == Spec => []SiteInv
BY InitInv, NextInv, PTL DEF Spec

\* The types of the entries, of the link a visitor followed and of what it was shown.
THEOREM TypeOKHolds == Spec => []TypeOK
<1>1. SiteInv => TypeOK
  BY DEF SiteInv
<1> QED
  BY <1>1, SiteInvHolds, PTL

\* The path of every entry that is shown, if its slug is its own and a single segment,
\* leads to it, in every state; and for every such slug the site shows what the REST API
\* returns.
THEOREM EntriesReachableHolds == Spec => []EntriesReachable
<1>1. SiteInv => EntriesReachable
  BY ReachableIfTyped DEF SiteInv
<1> QED
  BY <1>1, SiteInvHolds, PTL

\* A link, however old, leads to no entry but a public one, whatever is asked for in its
\* stead; and when its path is asked for as it is, to a post with the slug the link was
\* made from, less the slashes at its ends.
THEOREM LinksStayTrueHolds == Spec => LinksStayTrue
<1>1. SiteInv /\ [Next]_vars => [FollowedTruly]_vars
  <2> SUFFICES ASSUME SiteInv, Next, answer' # answer, answer' # NoAnswer,
                      answer'.page.found = "entry"
               PROVE  LET p == answer'.page  e == tables[p.kind][p.id]
                          link == answer'.link  meant == Trim(SegmentsOf[link.slug])
                      IN  /\ e # NoEntry /\ Shown(e)
                          /\ meant # <<Blank>> /\ Carried(link.path) =>
                               p.kind = "post" /\ SegmentsOf[e.slug] = meant
    BY DEF FollowedTruly
  <2> DEFINE p == answer'.page
  <2>1. PICK link \in links : Follow(link)
    BY DEF Next, OpenHome, Change
  <2> DEFINE request == Requested[link.path]
  <2>2. answer'.link = link /\ p = Serve(tables, request)
    BY <2>1 DEF Follow
  <2>3. /\ TypeOK
        /\ link.path = EntryPath([kind |-> "post", slug |-> link.slug])
        /\ link.slug \in Slugs \cup {""} /\ link.path \in LinkPaths
    BY DEF SiteInv, LinksWellFormed, TypeOK, Links
  <2> HIDE DEF request
  <2>4. PICK k \in Kinds :
          /\ Routed(request)
          /\ Matches(k, Trim(request.path))
          /\ WithSlug(tables, k, SlugIn(k, Trim(request.path))) # {}
          /\ p = [found |-> "entry", kind |-> k,
                  id |-> First(WithSlug(tables, k, SlugIn(k, Trim(request.path))))]
    BY <2>2, <2>3, ServedEntry
  <2>5. /\ p.kind = k /\ p.id \in ShownIds(tables, k)
        /\ SegmentsOf[tables[k][p.id].slug] = SlugIn(k, Trim(request.path))
    <3> DEFINE found == WithSlug(tables, k, SlugIn(k, Trim(request.path)))
    <3>1. /\ First(found) \in ShownIds(tables, k)
          /\ SegmentsOf[tables[k][First(found)].slug] = SlugIn(k, Trim(request.path))
      BY <2>3, <2>4, LookupFinds
    <3>2. p.kind = k /\ p.id = First(found)
      BY <2>4
    <3> QED
      BY <3>1, <3>2
  <2> HIDE DEF p
  <2>6. tables[k][p.id] # NoEntry /\ Shown(tables[k][p.id])
    BY <2>3, <2>5, ShownRows
  <2>7. ASSUME Trim(SegmentsOf[link.slug]) # <<Blank>>, Carried(link.path)
        PROVE  k = "post" /\ SegmentsOf[tables[k][p.id].slug] = Trim(SegmentsOf[link.slug])
    <3>0. request = AsIs(link.path)
      BY <2>3, <2>7, RequestAssumption DEF request
    <3>1. request.route = link.path /\ request.path = link.path
      BY <3>0 DEF AsIs
    <3>2. SegmentsOf[link.slug] \in Paths
      BY <2>3, SiteAssumption
    <3>3. link.path = Trim(<<"posts">> \o SegmentsOf[link.slug])
      BY <2>3 DEF EntryPath
    <3>4. Len(link.path) \in {1, 2}
      BY <2>4, <3>1 DEF Routed
    <3>5. /\ Trim(link.path) = link.path
          /\ SlugIn("post", link.path) = Trim(SegmentsOf[link.slug])
          /\ ~Matches("page", link.path)
      BY <2>7, <3>2, <3>3, <3>4, LinkedSlug
    <3> QED
      BY <2>4, <2>5, <3>1, <3>5 DEF Kinds
  <2> QED
    BY <2>2, <2>5, <2>6, <2>7 DEF p
<1> QED
  BY <1>1, SiteInvHolds, PTL DEF Spec, LinksStayTrue

-----------------------------------------------------------------------------

\* Keys are numbered, there are finitely many, and a list returns at least one row.
LEMMA Numbered == Limit \in Nat \ {0} /\ Keys \subseteq Nat /\ IsFiniteSet(Keys)
BY SurfacesAssumption

\* The rows before a row are as many as there are, and more rows are not fewer.
LEMMA RowsBefore ==
  ASSUME NEW i \in Nat, NEW more \in SUBSET Nat, NEW less \in SUBSET more,
         \A j \in more : j < i
  PROVE  /\ IsFiniteSet(more)
         /\ Cardinality(less) \in Nat /\ Cardinality(more) \in Nat
         /\ Cardinality(less) <= Cardinality(more)
<1>1. IsFiniteSet(0 .. i)
  BY FS_Interval
<1>2. more \in SUBSET (0 .. i)
  OBVIOUS
<1>3. IsFiniteSet(more)
  BY <1>1, <1>2, FS_Subset
<1> QED
  BY <1>3, FS_Subset, FS_CardinalityType

\* A list that answers goes on to answer when no row goes and none becomes unreadable: a
\* row it lists then was on the list before.
LEMMA StillDecodes ==
  ASSUME NEW S \in SUBSET Nat, NEW old, NEW new, DOMAIN old = S, DOMAIN new = S,
         \A j \in S : old[j] # None => new[j] # None,
         \A j \in S : new[j] # None /\ new[j].garbled => old[j] # None /\ old[j].garbled,
         Decodes(old)
  PROVE  Decodes(new)
<1> SUFFICES ASSUME NEW i \in FirstRows(new), new[i].garbled PROVE FALSE
  BY DEF Decodes
<1> DEFINE more == {j \in S : j < i /\ new[j] # None}
           less == {j \in S : j < i /\ old[j] # None}
<1>1. i \in S /\ new[i] # None /\ Cardinality(more) < Limit
  BY DEF FirstRows
<1>2. old[i] # None /\ old[i].garbled
  BY <1>1
<1>3. more \in SUBSET Nat /\ less \in SUBSET more /\ \A j \in more : j < i
  OBVIOUS
<1> HIDE DEF more, less
<1>4. Cardinality(less) \in Nat /\ Cardinality(more) \in Nat /\ Cardinality(less) <= Cardinality(more)
  BY <1>1, <1>3, RowsBefore
<1>5. Cardinality(less) < Limit
  BY <1>1, <1>4, Numbered
<1>6. less = {j \in DOMAIN old : j < i /\ old[j] # None}
  BY DEF less
<1>7. i \in DOMAIN old
  BY <1>1
<1>8. i \in FirstRows(old)
  BY <1>2, <1>5, <1>6, <1>7 DEF FirstRows
<1> QED
  BY <1>2, <1>8 DEF Decodes

\* A setting that is there is listed, as long as there are no more than a list returns.
LEMMA AllListed ==
  ASSUME SurfacesTypeOK, Cardinality({x \in Keys : settings[x] # None}) <= Limit,
         NEW key \in Keys, settings[key] # None
  PROVE  key \in FirstRows(settings)
<1> DEFINE all == {x \in Keys : settings[x] # None}
           before == {x \in Keys : x < key /\ settings[x] # None}
<1>1. IsFiniteSet(all)
  <2>1. all \in SUBSET Keys
    OBVIOUS
  <2> HIDE DEF all
  <2> QED
    BY <2>1, Numbered, FS_Subset
<1>2. before \in SUBSET all /\ key \in all /\ key \notin before
  BY Numbered
<1>3. Cardinality(all) <= Limit
  OBVIOUS
<1> HIDE DEF all
<1>9. before = {x \in DOMAIN settings : x < key /\ settings[x] # None}
  BY DEF SurfacesTypeOK
<1>4. before # all
  BY <1>2
<1>5. Cardinality(before) < Cardinality(all)
  <2> HIDE DEF before
  <2>1. IsFiniteSet(before) /\ Cardinality(before) <= Cardinality(all) /\ Cardinality(before) # Cardinality(all)
    BY <1>1, <1>2, <1>4, FS_Subset
  <2> QED
    BY <1>1, <2>1, FS_CardinalityType
<1>6. Cardinality(before) < Limit
  <2>1. Cardinality(before) \in Nat /\ Cardinality(all) \in Nat
    BY <1>1, <1>2, FS_Subset, FS_CardinalityType
  <2> QED
    BY <1>3, <1>5, <2>1, Numbered
<1>7. DOMAIN settings = Keys
  BY DEF SurfacesTypeOK
<1> HIDE DEF before
<1> QED
  BY <1>6, <1>7, <1>9 DEF FirstRows

\* The front page that was shown is that of the rows there are, and what the service saved
\* is there, and public if the registry says so.
HomeIsCurrent ==
  home # None =>
    /\ Decodes(content["post"])
    /\ DOMAIN home.titles = SiteList("post")

SavedIsPublic ==
  \A key \in saved : settings[key] # None /\ (key \in Registered => settings[key].public)

\* The inductive invariant of the surfaces.
SurfacesInv == SurfacesTypeOK /\ HomeIsCurrent /\ SavedIsPublic

\* What the site takes from a setting is a text.
LEMMA FromPublicTyped ==
  ASSUME SurfacesTypeOK, NEW key \in Keys, NEW default \in Values
  PROVE  FromPublic(key, default) \in Values
<1>1. DOMAIN settings = Keys /\ (settings[key] # None => settings[key] \in Settings)
  BY DEF SurfacesTypeOK
<1>2. key \in Public => settings[key] \in Settings
  BY <1>1 DEF Public, FirstRows
<1> QED
  BY <1>2 DEF FromPublic, Settings

\* Every step keeps the invariant.
LEMMA SurfacesNextInv == SurfacesInv /\ [SurfacesNext]_surfaceVars => SurfacesInv'
<1> SUFFICES ASSUME SurfacesInv, [SurfacesNext]_surfaceVars PROVE SurfacesInv'
  OBVIOUS
<1> USE DEF SurfacesInv
<1>1. CASE UNCHANGED surfaceVars
  BY <1>1, ZenonT(40) DEF surfaceVars, SurfacesTypeOK, HomeIsCurrent, SavedIsPublic, Decodes, FirstRows, SiteList
<1>2. ASSUME NEW k \in Kinds, NEW i \in Ids, NEW row \in Written \cup Imported, StoreEntry(k, i, row)
      PROVE  SurfacesInv'
  <2>1. row \in StoredRows
    BY SurfacesAssumption
  <2>2. SurfacesTypeOK'
    BY <1>2, <2>1 DEF StoreEntry, SurfacesTypeOK
  <2> QED
    BY <1>2, <2>2 DEF StoreEntry, HomeIsCurrent, SavedIsPublic
<1>3. ASSUME NEW key \in Keys, NEW row \in SavedSettings, SaveSetting(key, row)
      PROVE  SurfacesInv'
  <2> DEFINE new == IF key \in Registered THEN [row EXCEPT !.public = TRUE] ELSE row
  <2>1. row \in Settings
    BY SurfacesAssumption
  <2>2. new \in Settings /\ (key \in Registered => new.public) /\ new # None
    BY <2>1, SurfacesAssumption DEF Settings
  <2>3. settings' = [settings EXCEPT ![key] = new]
    BY <1>3 DEF SaveSetting
  <2> HIDE DEF new
  <2>4. SurfacesTypeOK'
    BY <1>3, <2>2, <2>3 DEF SaveSetting, SurfacesTypeOK
  <2>5. SavedIsPublic'
    BY <1>3, <2>2, <2>3 DEF SaveSetting, SavedIsPublic, SurfacesTypeOK
  <2> QED
    BY <1>3, <2>4, <2>5 DEF SaveSetting, HomeIsCurrent
<1>4. ASSUME NEW key \in Keys, NEW row \in ImportedSettings, ImportSetting(key, row)
      PROVE  SurfacesInv'
  <2>1. row \in Settings
    BY SurfacesAssumption
  <2>2. SurfacesTypeOK'
    BY <1>4, <2>1 DEF ImportSetting, SurfacesTypeOK
  <2>3. SavedIsPublic'
    BY <1>4 DEF ImportSetting, SavedIsPublic, SurfacesTypeOK
  <2> QED
    BY <1>4, <2>2, <2>3 DEF ImportSetting, HomeIsCurrent
<1>5. ASSUME NEW m \in MenuIds, NEW row \in MenuRows, StoreMenu(m, row)
      PROVE  SurfacesInv'
  <2>1. row \in Menus
    BY SurfacesAssumption
  <2>2. SurfacesTypeOK'
    BY <1>5, <2>1 DEF StoreMenu, SurfacesTypeOK
  <2> QED
    BY <1>5, <2>2 DEF StoreMenu, HomeIsCurrent, SavedIsPublic
<1>6. ASSUME ShowHome PROVE SurfacesInv'
  <2>1. PICK titles \in [SiteList("post") -> TitleTexts \cup {Untitled}] :
          home' = [site |-> FromPublic(TitleKey, DefaultTitle),
                   theme |-> Resolve(FromPublic(ThemeKey, DefaultTheme)),
                   menu |-> Primary, titles |-> titles]
    BY <1>6 DEF ShowHome
  <2>2. UNCHANGED <<content, settings, menus, saved>> /\ Decodes(content["post"])
    BY <1>6 DEF ShowHome, SiteUp
  <2>3. home'.site = FromPublic(TitleKey, DefaultTitle) /\ home'.site \in Values
    BY <2>1, FromPublicTyped, SurfacesAssumption DEF Registered
  <2>4. home'.theme \in Themes
    BY <2>1, SurfacesAssumption DEF Resolve
  <2>5. SurfacesTypeOK'
    BY <2>2, <2>3, <2>4 DEF SurfacesTypeOK
  <2>6. DOMAIN home'.titles = SiteList("post")
    BY <2>1
  <2>7. Decodes(content["post"])' /\ SiteList("post")' = SiteList("post")
    BY <2>2 DEF Decodes, FirstRows, SiteList
  <2>8. HomeIsCurrent'
    BY <2>6, <2>7 DEF HomeIsCurrent
  <2> QED
    BY <2>2, <2>5, <2>8 DEF SavedIsPublic
<1> QED
  BY <1>1, <1>2, <1>3, <1>4, <1>5, <1>6 DEF SurfacesNext

\* The invariant holds in every state.
LEMMA SurfacesInvHolds == SurfacesSpec => []SurfacesInv
<1>1. SurfacesInit => SurfacesInv
  <2>1. SurfacesInit => SurfacesTypeOK
    BY DEF SurfacesInit, SurfacesTypeOK
  <2> QED
    BY <2>1 DEF SurfacesInit, SurfacesInv, HomeIsCurrent, SavedIsPublic
<1> QED
  BY <1>1, SurfacesNextInv, PTL DEF SurfacesSpec

\* Each surface shows what the next one shows, and a row that a list shows decodes.
LEMMA Nested ==
  ASSUME SurfacesInv
  PROVE  SurfacesAgree
<1>1. DOMAIN content = Kinds /\ \A k \in Kinds : DOMAIN content[k] = Ids
  BY DEF SurfacesInv, SurfacesTypeOK
<1>2. \A k \in Kinds : SiteList(k) \subseteq PublicRecords(k) /\ PublicRecords(k) \subseteq RestList(k)
  BY DEF SiteList, PublicRecords, RestList
<1>3. ASSUME NEW k \in Kinds, Decodes(content[k]), NEW i \in RestList(k)
      PROVE  RestGet(k, i) \/ (k = "page" /\ RestGet("post", i))
  <2>1. content[k][i] # None /\ ~content[k][i].garbled
    BY <1>3 DEF RestList, Decodes, FirstRows
  <2> QED
    BY <2>1 DEF RestGet, Kinds
<1>4. ASSUME home # None, NEW i \in DOMAIN home.titles
      PROVE  i \in PublicRecords("post") /\ RestGet("post", i)
  <2>1. i \in SiteList("post") /\ Decodes(content["post"])
    BY <1>4 DEF SurfacesInv, HomeIsCurrent
  <2>2. i \in PublicRecords("post") /\ i \in RestList("post")
    BY <1>2, <2>1 DEF Kinds
  <2> QED
    BY <1>3, <2>1, <2>2 DEF Kinds
<1> QED
  BY <1>2, <1>3, <1>4 DEF SurfacesAgree

\* What the service saved under a key of the registry is listed, and it is public.
LEMMA SavedShown ==
  ASSUME SurfacesInv
  PROVE  SavedSettingsReachSite
<1> SUFFICES ASSUME Cardinality({key \in Keys : settings[key] # None}) <= Limit,
                    NEW key \in saved \cap Registered, NEW default \in Values,
                    settings[key].value # ""
             PROVE  FromPublic(key, default) = settings[key].value
  BY DEF SavedSettingsReachSite
<1>1. key \in Keys /\ settings[key] # None /\ settings[key].public
  BY DEF SurfacesInv, SurfacesTypeOK, SavedIsPublic
<1>2. key \in FirstRows(settings)
  BY <1>1, AllListed DEF SurfacesInv
<1> QED
  BY <1>1, <1>2 DEF FromPublic, Public

\* What is stored is what is shown.
THEOREM ShownAsStoredHolds == SurfacesSpec => []ShownAsStored
<1>1. SurfacesInv => ShownAsStored
  BY Nested, SavedShown DEF SurfacesInv, ShownAsStored
<1> QED
  BY <1>1, SurfacesInvHolds, PTL

\* No row is ever deleted.
LEMMA RowsStay ==
  ASSUME SurfacesInv, [SurfacesNext]_surfaceVars
  PROVE  /\ \A k \in Kinds, i \in Ids : content[k][i] # None => content'[k][i] # None
         /\ \A key \in Keys : settings[key] # None => settings'[key] # None
<1> USE DEF SurfacesInv, SurfacesTypeOK
<1>1. CASE UNCHANGED <<content, settings>>
  BY <1>1
<1>2. ASSUME NEW h \in Kinds, NEW x \in Ids, NEW row \in Written \cup Imported, StoreEntry(h, x, row)
      PROVE  /\ \A k \in Kinds, i \in Ids : content[k][i] # None => content'[k][i] # None
             /\ UNCHANGED settings
  <2>1. row # None
    BY SurfacesAssumption
  <2> QED
    BY <1>2, <2>1 DEF StoreEntry
<1>3. ASSUME NEW x \in Keys, NEW row \in Settings, UNCHANGED content,
             settings' = [settings EXCEPT ![x] = row]
      PROVE  /\ \A key \in Keys : settings[key] # None => settings'[key] # None
             /\ UNCHANGED content
  <2>1. row # None
    BY SurfacesAssumption
  <2> QED
    BY <1>3, <2>1
<1>4. ASSUME NEW x \in Keys, NEW row \in SavedSettings, SaveSetting(x, row)
      PROVE  \E new \in Settings : settings' = [settings EXCEPT ![x] = new] /\ UNCHANGED content
  <2>1. row \in Settings
    BY SurfacesAssumption
  <2>2. (IF x \in Registered THEN [row EXCEPT !.public = TRUE] ELSE row) \in Settings
    BY <2>1 DEF Settings
  <2> QED
    BY <1>4, <2>2 DEF SaveSetting
<1>5. ASSUME NEW x \in Keys, NEW row \in ImportedSettings, ImportSetting(x, row)
      PROVE  \E new \in Settings : settings' = [settings EXCEPT ![x] = new] /\ UNCHANGED content
  BY <1>5, SurfacesAssumption DEF ImportSetting
<1>6. (ShowHome \/ (\E m \in MenuIds, row \in MenuRows : StoreMenu(m, row)) \/ UNCHANGED surfaceVars)
        => UNCHANGED <<content, settings>>
  BY DEF ShowHome, StoreMenu, surfaceVars
<1> QED
  BY <1>1, <1>2, <1>3, <1>4, <1>5, <1>6 DEF SurfacesNext

\* A list that answers fails only when a record that does not decode is imported.
THEOREM OnlyImportsBreakListsHolds == SurfacesSpec => OnlyImportsBreakLists
<1> DEFINE A == Garbled' \subseteq Garbled =>
             /\ \A k \in Kinds : Decodes(content[k]) => Decodes(content[k])'
             /\ SiteUp => SiteUp'
<1>1. ASSUME SurfacesInv, SurfacesInv', [SurfacesNext]_surfaceVars, Garbled' \subseteq Garbled
      PROVE  /\ \A k \in Kinds : Decodes(content[k]) => Decodes(content'[k])
             /\ Decodes(settings) => Decodes(settings')
  <2>1. /\ \A k \in Kinds : DOMAIN content[k] = Ids /\ DOMAIN content'[k] = Ids
        /\ DOMAIN settings = Keys /\ DOMAIN settings' = Keys
        /\ Ids \subseteq Nat /\ Keys \subseteq Nat
    BY <1>1, DomainAssumption, SurfacesAssumption DEF SurfacesInv, SurfacesTypeOK
  <2>2. ASSUME NEW k \in Kinds, NEW j \in Ids, content'[k][j] # None, content'[k][j].garbled
        PROVE  content[k][j] # None /\ content[k][j].garbled
    <3>1. <<k, j>> \in Garbled'
      BY <2>2 DEF Garbled
    <3>2. <<k, j>> \in Garbled
      BY <1>1, <3>1
    <3>3. k # "setting"
      BY DEF Kinds
    <3> QED
      BY <3>2, <3>3 DEF Garbled
  <2>3. ASSUME NEW j \in Keys, settings'[j] # None, settings'[j].garbled
        PROVE  settings[j] # None /\ settings[j].garbled
    <3>1. <<"setting", j>> \in Garbled'
      BY <2>3 DEF Garbled
    <3>2. <<"setting", j>> \in Garbled
      BY <1>1, <3>1
    <3>3. "setting" \notin Kinds
      BY DEF Kinds
    <3> QED
      BY <3>2, <3>3 DEF Garbled
  <2>4. ASSUME NEW k \in Kinds, Decodes(content[k]) PROVE Decodes(content'[k])
    BY <1>1, <2>1, <2>2, <2>4, RowsStay, StillDecodes
  <2>5. ASSUME Decodes(settings) PROVE Decodes(settings')
    BY <1>1, <2>1, <2>3, <2>5, RowsStay, StillDecodes
  <2> QED
    BY <2>4, <2>5
<1>2. (\A k \in Kinds : Decodes(content[k])' <=> Decodes(content'[k])) /\ (Decodes(settings)' <=> Decodes(settings'))
  BY DEF Decodes, FirstRows
<1>3. SurfacesInv /\ SurfacesInv' /\ [SurfacesNext]_surfaceVars => [A]_surfaceVars
  BY <1>1, <1>2 DEF SiteUp, Kinds
<1> QED
  BY <1>3, SurfacesInvHolds, PTL DEF SurfacesSpec, OnlyImportsBreakLists

-----------------------------------------------------------------------------

\* What is read under an id is the row of one of the tables, with the kind of that table:
\* the row of a post, if there is one.
LEMMA StoredRow ==
  ASSUME FormsTypeOK, NEW id \in Ids, Found(stored, id, Kinds)
  PROVE  LET k == Home(stored, id, Kinds)
         IN  /\ k \in Kinds
             /\ k = "post" <=> stored["post"][id] # NoEntry
             /\ stored[k][id] \in EntryRows
             /\ Stored(stored, id) \in EntryRows
             /\ Stored(stored, id).kind = k
             /\ \A f \in Fields : Stored(stored, id)[f] = stored[k][id][f]
<1> DEFINE k == Home(stored, id, Kinds)
<1>1. k \in Kinds /\ stored[k][id] # NoEntry /\ (k = "post" <=> stored["post"][id] # NoEntry)
  BY DEF Found, HomesOf, Home, Kinds
<1>2. stored[k][id] \in EntryRows /\ stored[k][id].kind \in {k, ""}
  BY <1>1, ZenonT(40) DEF FormsTypeOK
<1>3. Stored(stored, id) = WithContentKind(stored[k][id], k)
  BY DEF Stored, Get
<1> HIDE DEF k
<1>4. WithContentKind(stored[k][id], k) \in EntryRows
  BY <1>1, <1>2 DEF WithContentKind, EntryRows
<1>5. WithContentKind(stored[k][id], k).kind = k
  BY <1>1, <1>2 DEF WithContentKind, EntryRows
<1>6. \A f \in Fields : WithContentKind(stored[k][id], k)[f] = stored[k][id][f]
  BY <1>2 DEF WithContentKind, EntryRows, Fields
<1> QED
  BY <1>1, <1>2, <1>3, <1>4, <1>5, <1>6 DEF k

\* A write puts one row, of its table's kind, and takes none away.
Puts(k, id, row) ==
  /\ stored' \in [Kinds -> [Ids -> EntryRows \cup {NoEntry}]]
  /\ \A h \in Kinds, i \in Ids : stored'[h][i] # NoEntry => stored'[h][i].kind \in {h, ""}
  /\ stored'[k][id] = row
  /\ \A h \in Kinds, i \in Ids : h # k \/ i # id => stored'[h][i] = stored[h][i]
  /\ \A h \in Kinds, i \in Ids : stored[h][i] # NoEntry => stored'[h][i] # NoEntry

\* A row put into the table of a kind, of that kind or of none, is such a write.
LEMMA PutsRow ==
  ASSUME FormsTypeOK, NEW k \in Kinds, NEW id \in Ids, NEW row \in EntryRows, row.kind \in {k, ""},
         stored' = [stored EXCEPT ![k] = [stored[k] EXCEPT ![id] = row]]
  PROVE  Puts(k, id, row)
<1>1. row # NoEntry
  BY FormsAssumption
<1> QED
  BY <1>1 DEF FormsTypeOK, Puts

\* So is a save of an entry (Repository.Save), which goes to the table of its kind.
LEMMA SavePuts ==
  ASSUME FormsTypeOK, NEW id \in Ids, NEW row \in EntryRows, row.kind \in Kinds,
         stored' = Save(stored, id, row)
  PROVE  Puts(row.kind, id, row)
<1>1. stored' = [stored EXCEPT ![row.kind] = [stored[row.kind] EXCEPT ![id] = row]]
  BY DEF Save
<1> QED
  BY <1>1, PutsRow

\* What a field of a patch or of a form may be set to is of the field's type.
LEMMA TypedField ==
  ASSUME NEW f \in Fields, NEW value \in Typeable(f), NEW row \in EntryRows
  PROVE  /\ [row EXCEPT ![f] = value] \in EntryRows
         /\ [row EXCEPT ![f] = value].kind = row.kind
         /\ \A g \in Fields : [row EXCEPT ![f] = value][g] = IF g = f THEN value ELSE row[g]
<1>1. CASE f = "title"
  <2>1. value \in Titles
    BY <1>1 DEF Typeable, PlainTitle, NoTitle, Titles
  <2> QED
    BY <1>1, <2>1 DEF EntryRows, Fields
<1>2. CASE f = "slug"
  <2>1. value \in SlugTexts \cup {""}
    BY <1>2, FormsAssumption DEF Typeable
  <2> QED
    BY <1>2, <2>1 DEF EntryRows, Fields
<1>3. CASE f = "body"
  <2>1. value \in Texts \cup {""}
    BY <1>3 DEF Typeable
  <2> QED
    BY <1>3, <2>1 DEF EntryRows, Fields
<1>4. CASE f = "status"
  <2>1. value \in Statuses
    BY <1>4, FormsAssumption DEF Typeable
  <2> QED
    BY <1>4, <2>1 DEF EntryRows, Fields
<1> QED
  BY <1>1, <1>2, <1>3, <1>4 DEF Fields

\* The merge of a form: the title as sent, and of the other fields what is filled in.
LEMMA MergedRow ==
  ASSUME NEW old \in EntryRows, NEW sent \in EntryRows
  PROVE  LET new == MergePostEntry(old, sent)
         IN  /\ new \in EntryRows
             /\ new.kind = old.kind
             /\ new.title = sent.title
             /\ \A f \in Fields \ {"title"} : new[f] = IF sent[f] = "" THEN old[f] ELSE sent[f]
<1> DEFINE new == MergePostEntry(old, sent)
<1>1. \A f \in {"slug", "body", "status"} : Filled(sent[f], old[f]) \in {sent[f], old[f]}
  BY DEF Filled
<1>2. new \in EntryRows
  BY <1>1 DEF MergePostEntry, EntryRows
<1>3. new.kind = old.kind /\ new.title = sent.title
  BY DEF MergePostEntry, EntryRows
<1>4. new.slug = Filled(sent.slug, old.slug) /\ new.body = Filled(sent.body, old.body)
      /\ new.status = Filled(sent.status, old.status)
  BY DEF MergePostEntry, EntryRows
<1> QED
  BY <1>2, <1>3, <1>4 DEF Filled, Fields

\* What a form holds is what was read, but for what its editor typed, and what has become of
\* the post since is noted.
FormsAreOld ==
  \A e \in Editors : HasForm(e) =>
    /\ \A f \in Fields : screen[e].read[f] # stored["post"][screen[e].id][f] => f \in changed[e]
    /\ screen[e].read.slug \in DOMAIN SlugJSON
    /\ \A f \in Fields \ screen[e].typed : screen[e].shown[f] = Shows(screen[e].read)[f]

\* The inductive invariant of the screens.
FormsInv == ScreensStayTrue /\ FormsAreOld

\* A screen is a form, a list, or closed, and which it is can be seen from its view.
LEMMA FormTyped ==
  ASSUME FormsTypeOK, NEW e \in Editors
  PROVE  /\ HasForm(e) <=> screen[e] \in Forms
         /\ screen[e] # NoScreen /\ ~HasForm(e) <=> screen[e] \in Lists
BY ScreenAssumption DEF FormsTypeOK, HasForm, Lists, Forms

\* What a write leaves of the screens, of which it may close one: nothing they show is
\* taken away, and what it changes under a form is noted.
LEMMA WriteInv ==
  ASSUME FormsInv, NEW k \in Kinds, NEW id \in Ids, NEW row \in EntryRows, Puts(k, id, row),
         Note(stored'), writes' \in 0 .. MaxWrites,
         screen' = screen \/ \E e \in Editors : screen' = [screen EXCEPT ![e] = NoScreen]
  PROVE  FormsInv'
<1> USE DEF FormsInv, ScreensStayTrue
<1>1. \A e \in Editors : screen'[e] \in {screen[e], NoScreen}
  BY DEF FormsTypeOK
<1>2. screen' \in [Editors -> Lists \cup Forms \cup {NoScreen}]
  BY DEF FormsTypeOK
<1>3. changed' \in [Editors -> SUBSET Fields]
  BY DEF Note, Differing, FormsTypeOK
<1>4. FormsTypeOK'
  BY <1>2, <1>3 DEF FormsTypeOK, Puts
<1>5. \A i \in Ids : stored["post"][i] # NoEntry => stored'["post"][i] # NoEntry
  BY DEF Puts, Kinds
<1>6. ASSUME NEW e \in Editors, (screen[e] # NoScreen)'
      PROVE  /\ screen'[e] = screen[e] /\ screen[e] # NoScreen
             /\ HasForm(e)' <=> HasForm(e)
  BY <1>1, <1>6 DEF HasForm
<1>7. ASSUME NEW e \in Editors, (screen[e] # NoScreen)'
      PROVE  \A i \in IF HasForm(e) THEN {screen[e].id} ELSE screen[e].ids : i \in Ids
  <2>1. CASE HasForm(e)
    BY <1>6, <1>7, <2>1, FormTyped DEF Forms
  <2>2. CASE ~HasForm(e)
    BY <1>6, <1>7, <2>2, FormTyped DEF Lists
  <2> QED  BY <2>1, <2>2
<1>8. ScreensStayTrue'
  BY <1>4, <1>5, <1>6, <1>7
<1>9. ASSUME NEW e \in Editors, HasForm(e)'
      PROVE  /\ \A f \in Fields : screen'[e].read[f] # stored'["post"][screen'[e].id][f] => f \in changed'[e]
             /\ screen'[e].read.slug \in DOMAIN SlugJSON
             /\ \A f \in Fields \ screen'[e].typed : screen'[e].shown[f] = Shows(screen'[e].read)[f]
  <2>1. screen'[e] # NoScreen
    BY <1>9 DEF HasForm
  <2>2. screen'[e] = screen[e] /\ HasForm(e)
    BY <1>6, <1>9, <2>1
  <2>3. changed'[e] = changed[e] \cup Differing(stored["post"][screen[e].id], stored'["post"][screen[e].id])
    BY <2>2 DEF Note
  <2>4. \A f \in Fields : screen[e].read[f] # stored'["post"][screen[e].id][f] => f \in changed'[e]
    BY <2>2, <2>3 DEF Differing, FormsAreOld
  <2> QED
    BY <2>2, <2>4 DEF FormsAreOld
<1> QED
  BY <1>8, <1>9 DEF FormsAreOld

\* A step of an editor that writes nothing touches no screen but the editor's.
LEMMA ReadInv ==
  ASSUME FormsInv, NEW e \in Editors, NEW s \in Lists \cup Forms \cup {NoScreen},
         UNCHANGED <<stored, writes>>, screen' = [screen EXCEPT ![e] = s],
         NEW c \in SUBSET Fields, changed' = [changed EXCEPT ![e] = c],
         s \in Lists => \A i \in s.ids : stored["post"][i] # NoEntry,
         s \in Forms =>
           /\ stored["post"][s.id] # NoEntry
           /\ \A f \in Fields : s.read[f] # stored["post"][s.id][f] => f \in c
           /\ s.read.slug \in DOMAIN SlugJSON
           /\ \A f \in Fields \ s.typed : s.shown[f] = Shows(s.read)[f]
  PROVE  FormsInv'
<1> USE DEF FormsInv, ScreensStayTrue
<1>1. FormsTypeOK'
  BY DEF FormsTypeOK
<1>2. screen'[e] = s /\ changed'[e] = c
      /\ \A d \in Editors \ {e} : screen'[d] = screen[d] /\ changed'[d] = changed[d]
  BY DEF FormsTypeOK
<1>3. /\ HasForm(e)' <=> s \in Forms
      /\ s # NoScreen /\ s \notin Forms => s \in Lists
  BY <1>2, ScreenAssumption DEF HasForm, Lists, Forms
<1>4. \A d \in Editors \ {e} : HasForm(d)' <=> HasForm(d)
  BY <1>2 DEF HasForm
<1>5. ScreensStayTrue'
  BY <1>1, <1>2, <1>3, <1>4
<1>6. FormsAreOld'
  BY <1>2, <1>3, <1>4 DEF FormsAreOld
<1> QED
  BY <1>5, <1>6

\* The bound on writes is a number.
LEMMA BoundIsNat == MaxWrites \in Nat
BY FormsAssumption

\* At first there is nothing stored and nothing open.
LEMMA FormsInitInv == FormsInit => FormsInv
<1> SUFFICES ASSUME FormsInit PROVE FormsInv
  OBVIOUS
<1>1. /\ stored \in [Kinds -> [Ids -> EntryRows \cup {NoEntry}]]
      /\ \A k \in Kinds, i \in Ids : stored[k][i] = NoEntry
  BY DEF FormsInit
<1>2. /\ screen \in [Editors -> Lists \cup Forms \cup {NoScreen}]
      /\ changed \in [Editors -> SUBSET Fields]
      /\ writes = 0
  BY DEF FormsInit
<1>3. \A e \in Editors : screen[e] = NoScreen
  BY DEF FormsInit
<1>4. FormsTypeOK
  <2>1. writes \in 0 .. MaxWrites
    BY <1>2, BoundIsNat
  <2>2. \A k \in Kinds, i \in Ids : stored[k][i] # NoEntry => stored[k][i].kind \in {k, ""}
    BY <1>1
  <2> QED
    BY <1>1, <1>2, <2>1, <2>2 DEF FormsTypeOK
<1>5. FormsAreOld
  BY <1>3 DEF FormsAreOld, HasForm
<1> QED
  BY <1>3, <1>4, <1>5 DEF FormsInv, ScreensStayTrue

\* A list is opened on rows that are there.
LEMMA OpenListInv ==
  ASSUME FormsInv, NEW e \in Editors, OpenList(e)
  PROVE  FormsInv'
<1>1. \A i \in Listed(stored["post"]) : i \in Ids /\ stored["post"][i] # NoEntry
  BY DEF Listed
<1>2. [view |-> "list", ids |-> Listed(stored["post"])] \in Lists
  BY <1>1 DEF Lists
<1> DEFINE s == [view |-> "list", ids |-> Listed(stored["post"])]
<1>3. s \in Lists /\ s \notin Forms /\ s.ids = Listed(stored["post"])
  BY <1>2 DEF Lists, Forms
<1>4. /\ UNCHANGED <<stored, writes>>
      /\ screen' = [screen EXCEPT ![e] = s] /\ changed' = [changed EXCEPT ![e] = {}]
  BY DEF OpenList
<1> HIDE DEF s
<1> QED
  BY <1>1, <1>3, <1>4, ReadInv

\* A form is opened on what its post says now, with the slug shown as JSON.
LEMMA OpenFormInv ==
  ASSUME FormsInv, NEW e \in Editors, NEW id \in Ids, OpenForm(e, id)
  PROVE  FormsInv'
<1> DEFINE read == Stored(stored, id)
           s == [view |-> "form", id |-> id, read |-> read, shown |-> Shows(read), typed |-> {}]
<1>1. read \in EntryRows /\ stored["post"][id] # NoEntry
      /\ \A f \in Fields : read[f] = stored["post"][id][f]
  BY StoredRow DEF OpenForm, FormsInv, ScreensStayTrue
<1>2. read.slug \in DOMAIN SlugJSON
  BY DEF OpenForm
<1>3. Shows(read) \in EntryRows
  BY <1>1, <1>2, FormsAssumption DEF Shows, EntryRows
<1>4. s \in Forms
  BY <1>1, <1>3 DEF Forms
<1>5. s \notin Lists
  BY DEF Lists
<1>6. screen' = [screen EXCEPT ![e] = s] /\ changed' = [changed EXCEPT ![e] = {}] /\ UNCHANGED <<stored, writes>>
  BY DEF OpenForm
<1>7. /\ s.id = id /\ s.read = read /\ s.shown = Shows(read) /\ s.typed = {}
  OBVIOUS
<1> HIDE DEF s, read
<1> QED
  BY <1>1, <1>2, <1>4, <1>5, <1>6, <1>7, ReadInv

\* Closing a screen changes nothing else.
LEMMA CloseInv ==
  ASSUME FormsInv, NEW e \in Editors, Close(e)
  PROVE  FormsInv'
<1>1. NoScreen \notin Lists \cup Forms
  BY ScreenAssumption
<1> QED
  BY <1>1, ReadInv DEF Close

\* Typing into a field changes what the form shows in it, and marks it as typed.
LEMMA TypeStep ==
  ASSUME FormsInv, NEW e \in Editors, NEW f \in Fields, NEW value \in Typeable(f), Type(e, f, value)
  PROVE  /\ FormsInv'
         /\ screen'[e] \in Forms
<1> DEFINE shown == [screen[e].shown EXCEPT ![f] = value]
           s == [screen[e] EXCEPT !.shown = shown, !.typed = {f}]
<1>1. FormsTypeOK /\ HasForm(e) /\ screen[e] \in Forms /\ screen[e].typed = {}
  BY FormTyped DEF Type, FormsInv, ScreensStayTrue
<1>2. shown \in EntryRows /\ \A g \in Fields : shown[g] = IF g = f THEN value ELSE screen[e].shown[g]
  BY <1>1, TypedField DEF Forms
<1> HIDE DEF shown
<1>3. /\ s \in Forms
      /\ s.id = screen[e].id /\ s.read = screen[e].read /\ s.shown = shown /\ s.typed = {f}
  BY <1>1, <1>2 DEF Forms
<1>4. screen' = [screen EXCEPT ![e] = s] /\ UNCHANGED <<stored, changed, writes>>
  BY <1>1 DEF Type, FormsTypeOK, shown
<1> HIDE DEF s
<1>5. s \notin Lists
  BY <1>3 DEF Lists, Forms
<1>6. /\ stored["post"][s.id] # NoEntry
      /\ \A g \in Fields : s.read[g] # stored["post"][s.id][g] => g \in changed[e]
      /\ s.read.slug \in DOMAIN SlugJSON
      /\ \A g \in Fields \ s.typed : s.shown[g] = Shows(s.read)[g]
  <2>1. stored["post"][s.id] # NoEntry
    BY <1>1, <1>3, ScreenAssumption DEF FormsInv, ScreensStayTrue
  <2> QED
    BY <1>1, <1>2, <1>3, <2>1 DEF FormsInv, FormsAreOld
<1>7. changed[e] \in SUBSET Fields /\ changed' = [changed EXCEPT ![e] = changed[e]]
  BY <1>1, <1>4 DEF FormsTypeOK
<1>8. FormsInv'
  BY <1>3, <1>4, <1>5, <1>6, <1>7, ReadInv
<1>9. screen'[e] = s
  BY <1>1, <1>4 DEF FormsTypeOK
<1> QED
  BY <1>3, <1>8, <1>9

\* What post.update does, when it does anything: it merges the form into the post.
LEMMA SubmitPuts ==
  ASSUME FormsInv, NEW e \in Editors, Submit(e)
  PROVE  LET id == screen[e].id  new == MergePostEntry(Stored(stored, id), screen[e].shown)
         IN  /\ screen[e] \in Forms /\ id \in Ids
             /\ Stored(stored, id) \in EntryRows
             /\ \A f \in Fields : Stored(stored, id)[f] = stored["post"][id][f]
             /\ new \in EntryRows
             /\ Puts("post", id, new)
<1> DEFINE id == screen[e].id
           old == Stored(stored, id)
           new == MergePostEntry(old, screen[e].shown)
<1>1. FormsTypeOK /\ screen[e] \in Forms /\ Found(stored, id, Kinds) /\ old.kind = "post"
      /\ stored' = Save(stored, id, new)
  BY FormTyped DEF Submit, FormsInv, ScreensStayTrue
<1>2. id \in Ids /\ screen[e].shown \in EntryRows
  BY <1>1 DEF Forms
<1>3. old \in EntryRows /\ \A f \in Fields : old[f] = stored["post"][id][f]
  BY <1>1, <1>2, StoredRow
<1> HIDE DEF id, old
<1>4. new \in EntryRows /\ new.kind = "post"
  BY <1>1, <1>2, <1>3, MergedRow
<1> HIDE DEF new
<1>5. Puts("post", id, new)
  BY <1>1, <1>2, <1>4, SavePuts DEF Kinds
<1> QED
  BY <1>1, <1>2, <1>3, <1>4, <1>5 DEF id, old, new

\* What post.trash does: the row a list offers is a post.
LEMMA TrashPuts ==
  ASSUME FormsInv, NEW e \in Editors, NEW id \in Ids, TrashRow(e, id)
  PROVE  /\ screen[e] \in Lists
         /\ \E row \in EntryRows : Puts("post", id, row)
<1> DEFINE old == Stored(stored, id)
           new == [old EXCEPT !.status = "trashed"]
<1>1. FormsTypeOK /\ Found(stored, id, Kinds) /\ stored' = Save(stored, id, new)
  BY DEF TrashRow, FormsInv, ScreensStayTrue
<1>2. screen[e] # NoScreen /\ ~HasForm(e) /\ id \in screen[e].ids
  BY DEF TrashRow, HasForm
<1>3. stored["post"][id] # NoEntry
  BY <1>2 DEF FormsInv, ScreensStayTrue
<1>4. old \in EntryRows /\ old.kind = "post"
  BY <1>1, <1>3, StoredRow
<1> HIDE DEF old
<1>5. new \in EntryRows /\ new.kind = "post"
  BY <1>4, StatusAssumption DEF EntryRows
<1> HIDE DEF new
<1>6. Puts("post", id, new)
  BY <1>1, <1>5, SavePuts DEF Kinds
<1> QED
  BY <1>1, <1>2, <1>5, <1>6, FormTyped

\* A step counts as one more write within the bound.
LEMMA Counted ==
  ASSUME FormsInv, writes < MaxWrites, writes' = writes + 1
  PROVE  writes' \in 0 .. MaxWrites
<1>1. writes \in 0 .. MaxWrites
  BY DEF FormsInv, ScreensStayTrue, FormsTypeOK
<1> QED
  BY <1>1, BoundIsNat

\* Saving a form keeps the invariant: the other screens see what it changed.
LEMMA SubmitInv ==
  ASSUME FormsInv, NEW e \in Editors, Submit(e)
  PROVE  FormsInv'
<1>1. Note(stored') /\ screen' = [screen EXCEPT ![e] = NoScreen] /\ writes' \in 0 .. MaxWrites
  BY Counted DEF Submit
<1> QED
  BY <1>1, SubmitPuts, WriteInv DEF Kinds

\* So does trashing a row of a list: the post stays, with another status.
LEMMA TrashInv ==
  ASSUME FormsInv, NEW e \in Editors, NEW id \in Ids, TrashRow(e, id)
  PROVE  FormsInv'
<1>1. Note(stored') /\ screen' = [screen EXCEPT ![e] = NoScreen] /\ writes' \in 0 .. MaxWrites
  BY Counted DEF TrashRow
<1> QED
  BY <1>1, TrashPuts, WriteInv DEF Kinds

\* So does the update of a field by another client (Service.Update).
LEMMA PatchInv ==
  ASSUME FormsInv, NEW id \in Ids, NEW f \in Fields, NEW value \in Patchable(f), Patch(id, f, value)
  PROVE  FormsInv'
<1> DEFINE old == Stored(stored, id)
           new == [old EXCEPT ![f] = value]
<1>1. FormsTypeOK /\ Found(stored, id, Kinds) /\ stored' = Save(stored, id, new)
      /\ Note(stored') /\ screen' = screen /\ writes' \in 0 .. MaxWrites
  BY Counted DEF Patch, FormsInv, ScreensStayTrue
<1>2. value \in Typeable(f)
  BY DEF Patchable
<1>3. old \in EntryRows /\ old.kind \in Kinds
  BY <1>1, StoredRow
<1> HIDE DEF old
<1>4. new \in EntryRows /\ new.kind \in Kinds
  BY <1>2, <1>3, TypedField
<1> HIDE DEF new
<1>5. Puts(new.kind, id, new)
  BY <1>1, <1>4, SavePuts
<1> QED
  BY <1>1, <1>4, <1>5, WriteInv

\* So does a whole entry written by another client, new or in place of an old one.
LEMMA EntryWriteInv ==
  ASSUME FormsInv, NEW k \in Kinds, NEW id \in EntryIds, NEW row \in NewEntries, Write(k, id, row)
  PROVE  FormsInv'
<1>1. id \in Ids /\ row \in EntryRows
  BY FormsAssumption
<1>2. Note(stored') /\ screen' = screen /\ writes' \in 0 .. MaxWrites
  BY Counted DEF Write
<1>3. Puts(k, id, row)
  BY <1>1, PutsRow DEF Write, FormsInv, ScreensStayTrue
<1> QED
  BY <1>1, <1>2, <1>3, WriteInv

\* Every step of an editor or another client keeps the invariant.
LEMMA FormsNextInv == FormsInv /\ [FormsNext]_formVars => FormsInv'
<1> SUFFICES ASSUME FormsInv, [FormsNext]_formVars PROVE FormsInv'
  OBVIOUS
<1>1. CASE UNCHANGED formVars
  BY <1>1 DEF formVars, FormsInv, ScreensStayTrue, FormsTypeOK, FormsAreOld, HasForm
<1>2. CASE \E e \in Editors : EditorStep(e)
  <2>1. PICK e \in Editors : EditorStep(e)
    BY <1>2
  <2> QED
    BY <2>1, OpenListInv, OpenFormInv, TypeStep, SubmitInv, TrashInv, CloseInv DEF EditorStep
<1>3. CASE \E id \in Ids, f \in Fields : \E v \in Patchable(f) : Patch(id, f, v)
  BY <1>3, PatchInv
<1>4. CASE \E k \in Kinds, id \in EntryIds, row \in NewEntries : Write(k, id, row)
  BY <1>4, EntryWriteInv
<1> QED
  BY <1>1, <1>2, <1>3, <1>4 DEF FormsNext

\* The invariant holds in every state.
LEMMA FormsInvHolds == FormsSpec => []FormsInv
BY FormsInitInv, FormsNextInv, PTL DEF FormsSpec

\* A list or a form that is open points at rows that are there, however long it stays open
\* and whatever is written meanwhile: no operation deletes a row.
THEOREM ScreensStayTrueHolds == FormsSpec => []ScreensStayTrue
<1>1. FormsInv => ScreensStayTrue
  BY DEF FormsInv
<1> QED
  BY <1>1, FormsInvHolds, PTL

\* A screen is left by saving the form, by trashing a row of the list, or by closing it.
LEMMA LeavingStep ==
  ASSUME FormsInv, FormsNext, NEW e \in Editors, Leaves(e)
  PROVE  Submit(e) \/ Close(e) \/ \E id \in Ids : TrashRow(e, id)
<1>0. screen \in [Editors -> Lists \cup Forms \cup {NoScreen}]
  BY DEF FormsInv, ScreensStayTrue, FormsTypeOK
<1>1. ASSUME NEW d \in Editors, OpenList(d) \/ \E id \in Ids : OpenForm(d, id)
      PROVE  FALSE
  BY <1>0, <1>1, ScreenAssumption DEF OpenList, OpenForm, Leaves
<1>2. ASSUME NEW d \in Editors, NEW f \in Fields, NEW v \in Typeable(f), Type(d, f, v)
      PROVE  FALSE
  <2>1. screen'[d] # NoScreen
    BY <1>2, TypeStep, ScreenAssumption
  <2>2. d # e => screen'[e] = screen[e]
    BY <1>0, <1>2 DEF Type
  <2> QED
    BY <2>1, <2>2 DEF Leaves
<1>3. ASSUME NEW d \in Editors, Submit(d) \/ Close(d) \/ \E id \in Ids : TrashRow(d, id)
      PROVE  d = e
  BY <1>0, <1>3 DEF Submit, Close, TrashRow, Leaves
<1>4. ASSUME \/ \E id \in Ids, f \in Fields : \E v \in Patchable(f) : Patch(id, f, v)
             \/ \E k \in Kinds, id \in EntryIds, row \in NewEntries : Write(k, id, row)
      PROVE  FALSE
  BY <1>4 DEF Patch, Write, Leaves
<1>5. PICK d \in Editors : EditorStep(d)
  BY <1>4 DEF FormsNext
<1> QED
  BY <1>1, <1>2, <1>3, <1>5 DEF EditorStep

\* An editor who leaves a form merges it into the post, or changes nothing.
LEMMA LeavingForm ==
  ASSUME FormsInv, FormsNext, NEW e \in Editors, Leaves(e), HasForm(e)
  PROVE  Submit(e) \/ UNCHANGED stored
<1>1. ASSUME NEW id \in Ids, TrashRow(e, id) PROVE FALSE
  BY <1>1 DEF TrashRow, HasForm
<1> QED
  BY <1>1, LeavingStep DEF Close

\* post.update and post.trash reach no page; a form saved late undoes what others changed in
\* the fields it was not typed into, and nothing else but the slug; an empty field clears no
\* text but the title.
THEOREM SavesAreTheEditorsHolds == FormsSpec => SavesAreTheEditors
<1> DEFINE TouchPosts == \A e \in Editors : Leaves(e) => stored'["page"] = stored["page"]
           Undo == \A e \in Editors : HasForm(e) /\ Leaves(e) =>
             /\ \A f \in Fields \ (screen[e].typed \cup {"slug"}) : Undone(e, f)
             /\ "slug" \notin screen[e].typed =>
                  stored'["post"][screen[e].id].slug
                    \in {stored["post"][screen[e].id].slug, SlugJSON[screen[e].read.slug]}
           Clear == \A e \in Editors : HasForm(e) /\ Leaves(e) =>
             \A f \in Fields \ {"title"} :
               stored'["post"][screen[e].id][f] = "" => stored["post"][screen[e].id][f] = ""
<1>1. ASSUME FormsInv, FormsNext, NEW e \in Editors, Leaves(e)
      PROVE  stored'["page"] = stored["page"]
  <2>1. ASSUME NEW id \in Ids, NEW row \in EntryRows, Puts("post", id, row)
        PROVE  stored'["page"] = stored["page"]
    <3>1. stored["page"] \in [Ids -> EntryRows \cup {NoEntry}]
          /\ stored'["page"] \in [Ids -> EntryRows \cup {NoEntry}]
      BY <1>1, <2>1 DEF Puts, FormsInv, ScreensStayTrue, FormsTypeOK, Kinds
    <3>2. \A i \in Ids : stored'["page"][i] = stored["page"][i]
      BY <2>1 DEF Puts, Kinds
    <3> QED
      BY <3>1, <3>2
  <2>2. CASE Submit(e)
    BY <1>1, <2>1, <2>2, SubmitPuts
  <2>3. CASE \E id \in Ids : TrashRow(e, id)
    BY <1>1, <2>1, <2>3, TrashPuts
  <2>4. CASE Close(e)
    BY <2>4 DEF Close
  <2> QED
    BY <1>1, <2>2, <2>3, <2>4, LeavingStep
<1>2. ASSUME FormsInv, FormsNext, NEW e \in Editors, HasForm(e), Leaves(e)
      PROVE  \/ UNCHANGED stored
             \/ \E new \in EntryRows :
                  /\ stored'["post"][screen[e].id] = new
                  /\ new.title = screen[e].shown.title
                  /\ \A f \in Fields \ {"title"} :
                       new[f] = IF screen[e].shown[f] = "" THEN stored["post"][screen[e].id][f]
                                ELSE screen[e].shown[f]
  <2>1. CASE UNCHANGED stored
    BY <2>1
  <2>2. CASE Submit(e)
    <3> DEFINE id == screen[e].id
               old == Stored(stored, id)
               new == MergePostEntry(old, screen[e].shown)
    <3>1. /\ screen[e] \in Forms /\ id \in Ids /\ old \in EntryRows
          /\ \A f \in Fields : old[f] = stored["post"][id][f]
          /\ new \in EntryRows /\ Puts("post", id, new)
      BY <1>2, <2>2, SubmitPuts
    <3>2. screen[e].shown \in EntryRows
      BY <3>1 DEF Forms
    <3>3. /\ new.title = screen[e].shown.title
          /\ \A f \in Fields \ {"title"} :
               new[f] = IF screen[e].shown[f] = "" THEN old[f] ELSE screen[e].shown[f]
      BY <3>1, <3>2, MergedRow
    <3>4. stored'["post"][id] = new
      BY <3>1 DEF Puts
    <3>5. \A f \in Fields \ {"title"} :
            new[f] = IF screen[e].shown[f] = "" THEN stored["post"][id][f] ELSE screen[e].shown[f]
      BY <3>1, <3>3
    <3> HIDE DEF new
    <3> QED
      BY <3>1, <3>3, <3>4, <3>5
  <2>3. Submit(e) \/ UNCHANGED stored
    BY <1>2, LeavingForm
  <2> QED
    BY <2>1, <2>2, <2>3
<1>3. ASSUME FormsInv, FormsNext, NEW e \in Editors, HasForm(e), Leaves(e)
      PROVE  /\ \A f \in Fields \ (screen[e].typed \cup {"slug"}) : Undone(e, f)
             /\ "slug" \notin screen[e].typed =>
                  stored'["post"][screen[e].id].slug
                    \in {stored["post"][screen[e].id].slug, SlugJSON[screen[e].read.slug]}
  <2>1. CASE UNCHANGED stored
    BY <2>1 DEF Undone
  <2>2. ASSUME NEW new \in EntryRows,
               stored'["post"][screen[e].id] = new,
               new.title = screen[e].shown.title,
               \A f \in Fields \ {"title"} :
                 new[f] = IF screen[e].shown[f] = "" THEN stored["post"][screen[e].id][f]
                          ELSE screen[e].shown[f]
        PROVE  /\ \A f \in Fields \ (screen[e].typed \cup {"slug"}) : Undone(e, f)
               /\ "slug" \notin screen[e].typed =>
                    new.slug \in {stored["post"][screen[e].id].slug, SlugJSON[screen[e].read.slug]}
    <3>1. screen[e].read \in EntryRows
      BY <1>3, FormTyped DEF FormsInv, ScreensStayTrue, Forms
    <3>2. /\ \A f \in Fields \ {"slug"} : Shows(screen[e].read)[f] = screen[e].read[f]
          /\ Shows(screen[e].read).slug = SlugJSON[screen[e].read.slug]
      BY <3>1 DEF Shows, EntryRows, Fields
    <3>3. \A f \in Fields \ screen[e].typed : screen[e].shown[f] = Shows(screen[e].read)[f]
      BY <1>3 DEF FormsInv, FormsAreOld
    <3>4. \A f \in Fields : screen[e].read[f] # stored["post"][screen[e].id][f] => f \in changed[e]
      BY <1>3 DEF FormsInv, FormsAreOld
    <3>5. "slug" \in Fields \ {"title"} /\ "title" \in Fields
      BY DEF Fields
    <3>6. ASSUME NEW f \in Fields \ (screen[e].typed \cup {"slug"}) PROVE Undone(e, f)
      <4>1. new[f] \in {stored["post"][screen[e].id][f], screen[e].read[f]}
        BY <2>2, <3>2, <3>3, <3>6
      <4> QED
        BY <2>2, <3>4, <3>6, <4>1 DEF Undone
    <3>7. "slug" \notin screen[e].typed =>
            new.slug \in {stored["post"][screen[e].id].slug, SlugJSON[screen[e].read.slug]}
      BY <2>2, <3>2, <3>3, <3>5
    <3> QED
      BY <3>6, <3>7
  <2> QED
    BY <1>2, <1>3, <2>1, <2>2
<1>4. ASSUME FormsInv, FormsNext, NEW e \in Editors, HasForm(e), Leaves(e),
             NEW f \in Fields \ {"title"}, stored'["post"][screen[e].id][f] = ""
      PROVE  stored["post"][screen[e].id][f] = ""
  <2>1. CASE UNCHANGED stored
    BY <1>4, <2>1
  <2>2. ASSUME NEW new \in EntryRows,
               stored'["post"][screen[e].id] = new,
               new[f] = IF screen[e].shown[f] = "" THEN stored["post"][screen[e].id][f]
                        ELSE screen[e].shown[f]
        PROVE  stored["post"][screen[e].id][f] = ""
    BY <1>4, <2>2
  <2> QED
    BY <1>2, <1>4, <2>1, <2>2
<1>5. FormsInv /\ [FormsNext]_formVars => [TouchPosts /\ Undo /\ Clear]_formVars
  <2> HIDE DEF TouchPosts, Undo, Clear
  <2> SUFFICES ASSUME FormsInv, FormsNext PROVE TouchPosts /\ Undo /\ Clear
    OBVIOUS
  <2>1. TouchPosts
    BY <1>1 DEF TouchPosts
  <2>2. Undo
    BY <1>3 DEF Undo
  <2>3. Clear
    BY <1>4 DEF Clear
  <2> QED
    BY <2>1, <2>2, <2>3
<1>6. SavesAreTheEditors <=> [][TouchPosts /\ Undo /\ Clear]_formVars
  <2>1. [TouchPosts /\ Undo /\ Clear]_formVars
          <=> [TouchPosts]_formVars /\ [Undo]_formVars /\ [Clear]_formVars
    OBVIOUS
  <2> QED
    BY <2>1, PTL DEF SavesAreTheEditors, EditorsTouchPosts, OldFormsUndo, NothingCleared
<1> QED
  BY <1>5, <1>6, FormsInvHolds, PTL DEF FormsSpec
=============================================================================
