------------------------------ MODULE ListProofs ------------------------------
(***************************************************************************)
(* Proofs about lists.  They are sorted as they should be and cut into     *)
(* consecutive pages, of any length and with pages of any size (ListOps),  *)
(* with ints of any width as long as what they count fits (PagingWidth);   *)
(* a client may walk through a list that grows (Listing), and a run of     *)
(* handlers through one that is sorted meanwhile (HookBus).                *)
(***************************************************************************)
EXTENDS Listing, PagingWidth, HookBus, FiniteSetTheorems, SequenceTheorems, TLAPS

(***************************************************************************)
(* Putting elements in an order.                                           *)
(***************************************************************************)
\* R orders the elements of S, all of them.
StrictOrder(S, R) ==
  /\ \A x \in S : <<x, x>> \notin R
  /\ \A x, y \in S : x = y \/ <<x, y>> \in R \/ <<y, x>> \in R
  /\ \A x, y, z \in S : <<x, y>> \in R /\ <<y, z>> \in R => <<x, z>> \in R

\* As many elements may come before one as there are others.
LEMMA RankType ==
  ASSUME NEW S, IsFiniteSet(S), NEW R, StrictOrder(S, R), NEW x \in S
  PROVE  Cardinality(S) \in Nat /\ Rank(S, R, x) \in 0 .. Cardinality(S) - 1
<1> DEFINE below == {y \in S : <<y, x>> \in R}
<1>1. x \notin below /\ below \subseteq S
  BY DEF StrictOrder
<1>2. below \subseteq S \ {x}
  BY <1>1
<1>3. IsFiniteSet(S \ {x}) /\ Cardinality(S \ {x}) = Cardinality(S) - 1 /\ Cardinality(S) \in Nat
  BY FS_RemoveElement, FS_CardinalityType
<1>4. Cardinality(below) \in Nat /\ Cardinality(below) <= Cardinality(S) - 1
  <2> HIDE DEF below
  <2> QED
    BY <1>2, <1>3, FS_Subset, FS_CardinalityType
<1> QED
  BY <1>3, <1>4 DEF Rank

\* What comes later has more before it.
LEMMA RankIncreases ==
  ASSUME NEW S, IsFiniteSet(S), NEW R, StrictOrder(S, R), NEW x \in S, NEW y \in S, <<x, y>> \in R
  PROVE  Rank(S, R, x) < Rank(S, R, y)
<1> DEFINE belowX == {z \in S : <<z, x>> \in R}
           belowY == {z \in S : <<z, y>> \in R}
<1>1. belowX \subseteq belowY /\ x \in belowY /\ x \notin belowX
  BY DEF StrictOrder
<1>2. belowY \subseteq S
  OBVIOUS
<1>3. Cardinality(belowX) < Cardinality(belowY)
  <2> HIDE DEF belowX, belowY
  <2>1. IsFiniteSet(belowY)
    BY <1>2, FS_Subset
  <2>2. IsFiniteSet(belowX) /\ Cardinality(belowX) <= Cardinality(belowY) /\ Cardinality(belowX) # Cardinality(belowY)
    BY <1>1, <2>1, FS_Subset
  <2> QED
    BY <2>1, <2>2, FS_CardinalityType
<1> QED
  BY <1>3 DEF Rank

\* Each rank is that of one element.
LEMMA RankTaken ==
  ASSUME NEW S, IsFiniteSet(S), NEW R, StrictOrder(S, R)
  PROVE  /\ \A x, y \in S : Rank(S, R, x) = Rank(S, R, y) => x = y
         /\ \A n \in 1 .. Cardinality(S) : \E x \in S : Rank(S, R, x) = n - 1
<1> DEFINE size == Cardinality(S)
           rank == [x \in S |-> Rank(S, R, x)]
<1>1. size \in Nat
  BY FS_CardinalityType
<1>2. ASSUME NEW x \in S, NEW y \in S, x # y
      PROVE  Rank(S, R, x) # Rank(S, R, y)
  <2>1. <<x, y>> \in R \/ <<y, x>> \in R
    BY <1>2 DEF StrictOrder
  <2>2. Rank(S, R, x) \in Int /\ Rank(S, R, y) \in Int
    BY RankType
  <2> QED
    BY <2>1, <2>2, RankIncreases
<1>3. rank \in [S -> 0 .. size - 1]
  BY RankType
<1>4. rank \in Injection(S, 0 .. size - 1)
  BY <1>2, <1>3 DEF Injection, IsInjective
<1>5. IsFiniteSet(0 .. size - 1) /\ Cardinality(0 .. size - 1) = size
  <2>1. 0 \in Int /\ size - 1 \in Int /\ (0 > size - 1 <=> size = 0) /\ size - 1 - 0 + 1 = size
    BY <1>1
  <2> HIDE DEF size
  <2>2. /\ IsFiniteSet(0 .. size - 1)
        /\ Cardinality(0 .. size - 1) = IF 0 > size - 1 THEN 0 ELSE size - 1 - 0 + 1
    BY <2>1, FS_Interval
  <2> QED
    BY <2>1, <2>2
<1>6. rank \in Surjection(S, 0 .. size - 1)
  BY <1>4, <1>5, FS_Injection
<1>7. \A n \in 1 .. size : n - 1 \in 0 .. size - 1
  BY <1>1
<1>8. \A r \in 0 .. size - 1 : \E x \in S : rank[x] = r
  <2> HIDE DEF rank
  <2> QED
    BY <1>6 DEF Surjection
<1>9. ASSUME NEW n \in 1 .. size PROVE \E x \in S : Rank(S, R, x) = n - 1
  <2>1. PICK x \in S : rank[x] = n - 1
    BY <1>7, <1>8, Zenon
  <2> QED
    BY <2>1
<1> QED
  BY <1>2, <1>9

\* A sorted list has the elements of the set, each where as many come before it as its
\* position says.
LEMMA OrderedIs ==
  ASSUME NEW S, IsFiniteSet(S), NEW R, StrictOrder(S, R)
  PROVE  /\ Cardinality(S) \in Nat
         /\ Ordered(S, R) \in Seq(S) /\ Len(Ordered(S, R)) = Cardinality(S)
         /\ \A n \in 1 .. Cardinality(S) : Ordered(S, R)[n] \in S /\ Rank(S, R, Ordered(S, R)[n]) = n - 1
         /\ \A x \in S : Rank(S, R, x) + 1 \in 1 .. Cardinality(S) /\ Ordered(S, R)[Rank(S, R, x) + 1] = x
<1> DEFINE size == Cardinality(S)
<1>1. size \in Nat
  BY FS_CardinalityType
<1>2. ASSUME NEW n \in 1 .. size
      PROVE  Ordered(S, R)[n] \in S /\ Rank(S, R, Ordered(S, R)[n]) = n - 1
  <2>1. \E x \in S : Rank(S, R, x) = n - 1
    BY RankTaken
  <2>2. Ordered(S, R)[n] = CHOOSE x \in S : Rank(S, R, x) = n - 1
    BY DEF Ordered
  <2> QED
    BY <2>1, <2>2
<1>3. Ordered(S, R) \in [1 .. size -> S]
  BY <1>2 DEF Ordered
<1>4. Ordered(S, R) \in Seq(S) /\ Len(Ordered(S, R)) = size
  BY <1>1, <1>3
<1>5. ASSUME NEW x \in S
      PROVE  Rank(S, R, x) + 1 \in 1 .. size /\ Ordered(S, R)[Rank(S, R, x) + 1] = x
  <2>1. Rank(S, R, x) \in 0 .. size - 1
    BY RankType
  <2>2. Rank(S, R, x) + 1 \in 1 .. size /\ Rank(S, R, x) + 1 - 1 = Rank(S, R, x)
    BY <1>1, <2>1
  <2> DEFINE n == Rank(S, R, x) + 1
             y == Ordered(S, R)[n]
  <2>3. y \in S /\ Rank(S, R, y) = n - 1
    BY <1>2, <2>2
  <2>4. Rank(S, R, y) = Rank(S, R, x)
    <3> HIDE DEF y
    <3> QED
      BY <2>1, <2>2, <2>3
  <2>5. y = x
    <3> HIDE DEF y
    <3> QED
      BY <2>3, <2>4, RankTaken
  <2> QED
    BY <2>2, <2>5
<1> QED
  BY <1>1, <1>2, <1>4, <1>5

\* And it has them in the order.
LEMMA OrderedAscends ==
  ASSUME NEW S, IsFiniteSet(S), NEW R, StrictOrder(S, R),
         NEW m \in 1 .. Cardinality(S), NEW n \in 1 .. Cardinality(S)
  PROVE  m < n <=> <<Ordered(S, R)[m], Ordered(S, R)[n]>> \in R
<1> DEFINE x == Ordered(S, R)[m]
           y == Ordered(S, R)[n]
<1>1. x \in S /\ y \in S /\ Rank(S, R, x) = m - 1 /\ Rank(S, R, y) = n - 1 /\ Cardinality(S) \in Nat
  BY OrderedIs
<1> HIDE DEF x, y
<1>2. <<x, y>> \in R => m < n
  BY <1>1, RankIncreases
<1>3. <<y, x>> \in R => n < m
  BY <1>1, RankIncreases
<1>4. x = y \/ <<x, y>> \in R \/ <<y, x>> \in R
  BY <1>1 DEF StrictOrder
<1> QED
  BY <1>1, <1>2, <1>3, <1>4 DEF x, y

-----------------------------------------------------------------------------
(***************************************************************************)
(* Pages.                                                                  *)
(***************************************************************************)
\* A page is a slice of the list, of at most perPage items: what Go's slice
\* expression items[start:end] requires, and what a client may expect.
THEOREM PageInBounds ==
  ASSUME NEW p \in Nat \ {0}, NEW perPage \in Nat \ {0}, NEW total \in Nat
  PROVE  /\ From(p, perPage, total) \in 0..total
         /\ To(p, perPage, total) \in From(p, perPage, total)..total
         /\ To(p, perPage, total) - From(p, perPage, total) <= perPage
<1>1. (p - 1) * perPage \in Nat
  OBVIOUS
<1> QED
  BY <1>1 DEF From, To, AtMost

\* A page begins where the one before it ended, so that no item is skipped
\* between them, and the first one begins at the beginning.
THEOREM PagesAdjoin ==
  ASSUME NEW p \in Nat \ {0}, NEW perPage \in Nat \ {0}, NEW total \in Nat
  PROVE  /\ From(1, perPage, total) = 0
         /\ From(p + 1, perPage, total) = To(p, perPage, total)
<1>1. (p - 1) * perPage \in Nat
  OBVIOUS
<1>2. p * perPage = (p - 1) * perPage + perPage
  OBVIOUS
<1>3. (p + 1) - 1 = p /\ (1 - 1) * perPage = 0
  OBVIOUS
<1> QED
  BY <1>1, <1>2, <1>3 DEF From, To, AtMost

\* What dividing with remainder means for the number of pages.
LEMMA PagesByDivision ==
  ASSUME NEW perPage \in Nat \ {0}, NEW total \in Nat \ {0}
  PROVE  /\ TotalPages(perPage, total) \in Nat \ {0}
         /\ total <= TotalPages(perPage, total) * perPage
         /\ (TotalPages(perPage, total) - 1) * perPage < total
<1> DEFINE q == (total + perPage - 1) \div perPage
<1>1. q \in Nat
  OBVIOUS
<1>2. /\ q * perPage <= total + perPage - 1
      /\ total + perPage - 1 < q * perPage + perPage
  OBVIOUS
<1>3. q # 0
  BY <1>1, <1>2
<1>4. (q - 1) * perPage = q * perPage - perPage
  BY <1>1
<1>5. q * perPage \in Nat
  BY <1>1
<1> HIDE DEF q
<1>6. TotalPages(perPage, total) = q
  BY DEF TotalPages, q
<1> QED
  BY <1>1, <1>2, <1>3, <1>4, <1>5, <1>6

\* total_pages is right: the last page ends at the end of the list, every page
\* up to it has something on it, and the pages after it are empty.
THEOREM TotalPagesExact ==
  ASSUME NEW perPage \in Nat \ {0}, NEW total \in Nat, NEW p \in Nat \ {0}
  PROVE  From(p, perPage, total) < To(p, perPage, total)
           <=> p <= TotalPages(perPage, total)
<1> DEFINE n == TotalPages(perPage, total)
<1>1. CASE total = 0
  BY <1>1 DEF From, To, AtMost, TotalPages
<1>2. CASE total # 0
  <2>1. n \in Nat \ {0} /\ total <= n * perPage /\ (n - 1) * perPage < total
    BY <1>2, PagesByDivision
  <2>2. (p - 1) * perPage \in Nat
    OBVIOUS
  <2>3. From(p, perPage, total) < To(p, perPage, total) <=> (p - 1) * perPage < total
    BY <2>2 DEF From, To, AtMost
  <2> HIDE DEF n
  <2>4. ASSUME p <= n PROVE (p - 1) * perPage <= (n - 1) * perPage
    BY <2>1, <2>4
  <2>5. ASSUME p > n PROVE (p - 1) * perPage >= n * perPage
    BY <2>1, <2>5
  <2>6. (n - 1) * perPage \in Int /\ n * perPage \in Int
    BY <2>1
  <2> QED
    BY <2>1, <2>2, <2>3, <2>4, <2>5, <2>6 DEF n
<1> QED
  BY <1>1, <1>2

-----------------------------------------------------------------------------
(***************************************************************************)
(* Ints that wrap around.                                                  *)
(***************************************************************************)

\* Wrapping yields an int, leaves an int alone, and never makes a number greater
\* that is not below the least int.
LEMMA WrapLemma ==
  ASSUME NEW n \in Int
  PROVE  /\ Wrap(n) \in Ints
         /\ n \in Ints => Wrap(n) = n
         /\ n >= -Half => Wrap(n) <= n
<1> DEFINE m == 2 * Half
           x == n + Half
<1>1. Half \in Nat \ {0} /\ m \in Nat \ {0} /\ x \in Int
  BY WidthAssumption
<1>2. x % m \in 0 .. m - 1 /\ x = m * (x \div m) + (x % m) /\ x \div m \in Int
  <2> HIDE DEF m, x
  <2> QED  BY <1>1
<1>3. x >= 0 => x \div m >= 0 /\ x % m <= x
  <2> HIDE DEF m, x
  <2>1. x >= 0 => x \div m >= 0
    BY <1>1
  <2> DEFINE k == x \div m
             rest == x % m
  <2>2. k \in Int /\ rest \in Int /\ x = m * k + rest /\ (x >= 0 => k >= 0)
    BY <1>1, <1>2, <2>1
  <2> HIDE DEF k, rest
  <2>3. k >= 0 => m * k >= 0
    BY <1>1, <2>2
  <2>4. m * k \in Int
    BY <1>1, <2>2
  <2> QED  BY <1>1, <2>2, <2>3, <2>4 DEF k, rest
<1>4. x \in 0 .. m - 1 => x % m = x
  <2> HIDE DEF m, x
  <2> SUFFICES ASSUME x \in 0 .. m - 1 PROVE x % m = x
    OBVIOUS
  <2>1. x \div m = 0
    BY <1>1
  <2> QED  BY <1>1, <1>2, <2>1
<1>5. Wrap(n) = (x % m) - Half
  BY DEF Wrap
<1> QED
  BY <1>1, <1>2, <1>3, <1>4, <1>5 DEF Ints

\* Division yields an int, and is the usual one of a natural number.
LEMMA QuotientLemma ==
  ASSUME NEW n \in Ints, NEW d \in Positive
  PROVE  Quotient(n, d) \in Ints /\ (n >= 0 => Quotient(n, d) = n \div d)
<1>1. Half \in Nat \ {0} /\ n \in Int /\ d \in Nat \ {0}
  BY WidthAssumption DEF Ints, Positive
<1>2. n >= 0 => n \div d \in 0 .. n
  BY <1>1
<1>3. n < 0 => (-n) \div d \in 0 .. -n
  BY <1>1
<1> QED
  BY <1>1, <1>2, <1>3 DEF Quotient, Ints

\* What a page that begins at an int is cut to, with sizes that add up to an int.
LEMMA CutExact ==
  ASSUME NEW p \in Positive, NEW perPage \in Positive, NEW total \in Totals,
         total + perPage < Half,
         p <= TotalPages(perPage, total) \/ (p - 1) * perPage < Half
  PROVE  /\ Start(p, perPage, total) = From(p, perPage, total)
         /\ End(p, perPage, total) = To(p, perPage, total)
         /\ Pages(perPage, total) = TotalPages(perPage, total)
<1>1. /\ Half \in Nat \ {0} /\ p \in Nat \ {0} /\ perPage \in Nat \ {0}
      /\ total \in Nat /\ total < Half
  BY WidthAssumption DEF Positive
<1>2. (p - 1) * perPage \in Nat
  BY <1>1
<1>3. (p - 1) * perPage < Half
  <2>1. CASE p <= TotalPages(perPage, total)
    <3>1. total # 0
      BY <1>1, <2>1 DEF TotalPages
    <3>2. TotalPages(perPage, total) \in Nat \ {0} /\ (TotalPages(perPage, total) - 1) * perPage < total
      BY <1>1, <3>1, PagesByDivision
    <3> DEFINE n == TotalPages(perPage, total)
    <3>3. p <= n /\ n \in Nat \ {0} /\ (n - 1) * perPage < total
      BY <2>1, <3>2
    <3> HIDE DEF n
    <3>4. (p - 1) * perPage <= (n - 1) * perPage /\ (n - 1) * perPage \in Int
      BY <1>1, <3>3
    <3> QED  BY <1>1, <1>2, <3>3, <3>4
  <2> QED  BY <2>1
<1>4. Wrap((p - 1) * perPage) = (p - 1) * perPage
  BY <1>1, <1>2, <1>3, WrapLemma DEF Ints
<1>5. Start(p, perPage, total) = From(p, perPage, total)
  BY <1>4 DEF Start, From, AtMost, Exact!AtMost
<1>6. Start(p, perPage, total) \in 0 .. total
  BY <1>1, <1>5, PageInBounds
<1>7. Wrap(Start(p, perPage, total) + perPage) = Start(p, perPage, total) + perPage
  BY <1>1, <1>6, WrapLemma DEF Ints
<1>8. End(p, perPage, total) = To(p, perPage, total)
  BY <1>5, <1>7 DEF End, To, AtMost, Exact!AtMost
<1>9. Pages(perPage, total) = TotalPages(perPage, total)
  <2>1. CASE total = 0
    BY <2>1 DEF Pages, TotalPages
  <2>2. CASE total # 0
    <3>1. Wrap(total + perPage) = total + perPage
      BY <1>1, WrapLemma DEF Ints
    <3>2. total + perPage - 1 \in Ints /\ total + perPage - 1 >= 0
      BY <1>1 DEF Ints
    <3>3. Wrap(total + perPage - 1) = total + perPage - 1
      BY <1>1, <3>2, WrapLemma
    <3>4. Quotient(total + perPage - 1, perPage) = (total + perPage - 1) \div perPage
      BY <3>2, QuotientLemma
    <3> QED  BY <1>1, <2>2, <3>1, <3>3, <3>4 DEF Pages, TotalPages
  <2> QED  BY <2>1, <2>2
<1> QED
  BY <1>5, <1>8, <1>9

\* A slice that is in bounds is no longer than a page, whatever has wrapped around.
LEMMA CutTyped ==
  ASSUME NEW p \in Positive, NEW perPage \in Positive, NEW total \in Totals
  PROVE  /\ Pages(perPage, total) \in Ints
         /\ InBounds(Start(p, perPage, total), End(p, perPage, total), total) =>
              /\ Start(p, perPage, total) \in Nat /\ End(p, perPage, total) \in Nat
              /\ End(p, perPage, total) - Start(p, perPage, total) <= perPage
<1> DEFINE start == Start(p, perPage, total)
           end == End(p, perPage, total)
<1>1. /\ Half \in Nat \ {0} /\ p \in Nat \ {0} /\ perPage \in Nat \ {0}
      /\ total \in Nat /\ total < Half
  BY WidthAssumption DEF Positive
<1>2. (p - 1) * perPage \in Int
  BY <1>1
<1>3. Wrap((p - 1) * perPage) \in Int
  BY <1>2, WrapLemma, <1>1 DEF Ints
<1>4. start \in Int
  BY <1>1, <1>3 DEF Start, Exact!AtMost
<1>5. Wrap(start + perPage) \in Int /\ (start >= 0 => Wrap(start + perPage) <= start + perPage)
  BY <1>1, <1>4, WrapLemma DEF Ints
<1>6. end \in Int /\ end <= Wrap(start + perPage)
  BY <1>1, <1>5 DEF End, Exact!AtMost
<1>7. Pages(perPage, total) \in Ints
  <2>1. Wrap(total + perPage) \in Int
    BY <1>1, WrapLemma DEF Ints
  <2>2. Wrap(Wrap(total + perPage) - 1) \in Ints
    BY <2>1, WrapLemma
  <2>3. 0 \in Ints
    BY <1>1 DEF Ints
  <2> QED  BY <2>2, <2>3, QuotientLemma DEF Pages
<1> QED
  BY <1>1, <1>4, <1>5, <1>6, <1>7 DEF InBounds
-----------------------------------------------------------------------------
WidthInv == WidthTypeOK /\ WalksAreExact

\* The page is cut right, of a request that fits.
LEMMA CutInv ==
  ASSUME WidthInv, NEW c \in Clients, NEW total \in Totals, Cut(c, total)
  PROVE  WidthInv'
<1> DEFINE p == request[c].page
           perPage == request[c].perPage
           start == Start(p, perPage, total)
           end == End(p, perPage, total)
           new == IF InBounds(start, end, total)
                  THEN [at |-> "answered", page |-> p, perPage |-> perPage, total |-> total,
                        start |-> start, end |-> end, pages |-> Pages(perPage, total)]
                  ELSE [at |-> "panicked", page |-> p, perPage |-> perPage, total |-> total]
<1>1. p \in Positive /\ perPage \in Positive
  BY DEF WidthInv, WidthTypeOK, Cut, Idle, Asked, Outcomes
<1>2. request' = [request EXCEPT ![c] = new] /\ UNCHANGED conn
  BY DEF Cut
<1>3. \A d \in Clients : request'[d] = IF d = c THEN new ELSE request[d]
  BY <1>2 DEF WidthInv, WidthTypeOK
<1>4. /\ Pages(perPage, total) \in Ints
      /\ InBounds(start, end, total) => start \in Nat /\ end \in Nat /\ end - start <= perPage
  BY <1>1, CutTyped
<1>5. WidthTypeOK'
  <2> HIDE DEF p, perPage, start, end
  <2>1. new \in Outcomes
    BY <1>1, <1>4 DEF Outcomes
  <2>2. new.at = "answered" => InBounds(new.start, new.end, new.total) /\ new.end - new.start <= new.perPage
    BY <1>4
  <2> HIDE DEF new
  <2>3. request' \in [Clients -> {Idle} \cup Asked \cup Outcomes]
    BY <1>2, <2>1 DEF WidthInv, WidthTypeOK
  <2> QED  BY <1>2, <1>3, <2>2, <2>3 DEF WidthInv, WidthTypeOK
<1>6. WalksAreExact'
  <2>1. ASSUME total + perPage < Half,
               p <= Exact!TotalPages(perPage, total) \/ (p - 1) * perPage < Half
        PROVE  AsExact(new)
    <3>1. /\ Exact!From(p, perPage, total) = From(p, perPage, total)
          /\ Exact!To(p, perPage, total) = To(p, perPage, total)
          /\ Exact!TotalPages(perPage, total) = TotalPages(perPage, total)
      BY DEF From, To, AtMost, TotalPages, Exact!From, Exact!To, Exact!AtMost, Exact!TotalPages
    <3>2. /\ start = From(p, perPage, total) /\ end = To(p, perPage, total)
          /\ Pages(perPage, total) = TotalPages(perPage, total)
      <4> HIDE DEF p, perPage
      <4> QED  BY <1>1, <2>1, <3>1, CutExact
    <3>3. InBounds(start, end, total)
      <4>1. p \in Nat \ {0} /\ perPage \in Nat \ {0} /\ total \in Nat
        BY <1>1, WidthAssumption DEF Positive
      <4> HIDE DEF p, perPage, start, end
      <4>2. From(p, perPage, total) \in 0 .. total /\ To(p, perPage, total) \in From(p, perPage, total) .. total
        BY <4>1, PageInBounds
      <4> QED  BY <3>2, <4>1, <4>2 DEF InBounds
    <3> HIDE DEF p, perPage, start, end
    <3> QED  BY <3>1, <3>2, <3>3 DEF AsExact
  <2>2. new.page = p /\ new.perPage = perPage /\ new.total = total
    OBVIOUS
  <2> HIDE DEF p, perPage, new
  <2> SUFFICES ASSUME NEW d \in Clients, Over(d)',
                      request'[d].total + request'[d].perPage < Half,
                      \/ request'[d].page <= Exact!TotalPages(request'[d].perPage, request'[d].total)
                      \/ (request'[d].page - 1) * request'[d].perPage < Half
               PROVE  AsExact(request'[d])
    BY DEF WalksAreExact
  <2>3. CASE d = c
    BY <1>3, <2>1, <2>2, <2>3
  <2>4. CASE d # c
    BY <1>3, <2>4 DEF WidthInv, WalksAreExact, Over
  <2> QED  BY <2>3, <2>4
<1> QED
  BY <1>5, <1>6 DEF WidthInv

\* Every step keeps the answers right: only a cut makes one.
LEMMA WidthStep == WidthInv /\ [WidthNext]_widthVars => WidthInv'
<1> SUFFICES ASSUME WidthInv, [WidthNext]_widthVars PROVE WidthInv'
  OBVIOUS
<1>1. ASSUME NEW c \in Clients, NEW p \in Positive, NEW perPage \in Positive, Ask(c, p, perPage)
      PROVE  WidthInv'
  <2> DEFINE new == [at |-> "asked", page |-> p, perPage |-> perPage]
  <2>1. new \in Asked /\ new.at = "asked"
    BY DEF Asked
  <2>2. request' = [request EXCEPT ![c] = new] /\ UNCHANGED conn
    BY <1>1 DEF Ask
  <2> HIDE DEF new
  <2>3. \A d \in Clients : request'[d] = IF d = c THEN new ELSE request[d]
    BY <2>2 DEF WidthInv, WidthTypeOK
  <2>4. WidthTypeOK'
    BY <2>1, <2>2, <2>3 DEF WidthInv, WidthTypeOK
  <2>5. WalksAreExact'
    BY <2>1, <2>3 DEF WidthInv, WalksAreExact, Over
  <2> QED  BY <2>4, <2>5 DEF WidthInv
<1>2. ASSUME NEW c \in Clients, Begin(c) \/ EndTx(c) PROVE WidthInv'
  <2>1. request' = request /\ conn' \in Clients \cup {NoClient}
    BY <1>2 DEF Begin, EndTx
  <2> QED  BY <2>1 DEF WidthInv, WidthTypeOK, WalksAreExact, Over
<1>3. CASE UNCHANGED widthVars
  BY <1>3 DEF widthVars, WidthInv, WidthTypeOK, WalksAreExact, Over
<1> QED
  BY <1>1, <1>2, <1>3, CutInv DEF WidthNext

\* Whoever walks through the pages gets the right ones, and no slice is longer than a
\* page, for ints of any width, pages of any size, and lists that change as they like.
THEOREM WidthInvHolds == WidthSpec => [](WidthTypeOK /\ WalksAreExact)
<1>1. WidthInit => WidthInv
  <2> SUFFICES ASSUME WidthInit PROVE WidthInv
    OBVIOUS
  <2>1. \A c \in Clients : request[c].at = "idle"
    BY DEF WidthInit, Idle
  <2>2. WidthTypeOK
    BY <2>1 DEF WidthInit, WidthTypeOK
  <2>3. WalksAreExact
    BY <2>1 DEF WalksAreExact, Over
  <2> QED  BY <2>2, <2>3 DEF WidthInv
<1> QED
  BY <1>1, WidthStep, PTL DEF WidthSpec, WidthInv
-----------------------------------------------------------------------------
(***************************************************************************)
(* The hook bus: handlers are sorted while others run through them.        *)
(***************************************************************************)
Ascending(list) ==
  \A m, n \in 1 .. Len(list) : m < n => Priority[list[m]] <= Priority[list[n]]

\* The list with the handler at one position, and what was there and after it moved on.
Inserted(list, h, pos) ==
  [n \in 1 .. Len(list) + 1 |-> IF n < pos THEN list[n] ELSE IF n = pos THEN h ELSE list[n - 1]]

\* The position is after the handlers whose priority is not greater.
FitsAt(list, h, pos) ==
  \A n \in 1 .. Len(list) :
    IF n < pos THEN Priority[list[n]] <= Priority[h] ELSE Priority[h] < Priority[list[n]]

\* Positions by priority first, where all priorities but the last ascend.
ByPriority(len, pri, R) ==
  /\ \A n \in 1 .. len + 1 : pri[n] \in Int
  /\ \A m, n \in 1 .. len : m < n => pri[m] <= pri[n]
  /\ \A i, j \in 1 .. len + 1 : <<i, j>> \in R <=> pri[i] < pri[j] \/ (pri[i] = pri[j] /\ i < j)

InsertedAt(len, pri, R, pos) ==
  /\ \A n \in 1 .. len + 1 :
       Ordered(1 .. len + 1, R)[n] = IF n < pos THEN n ELSE IF n = pos THEN len + 1 ELSE n - 1
  /\ \A n \in 1 .. len : IF n < pos THEN pri[n] <= pri[len + 1] ELSE pri[len + 1] < pri[n]

\* Where those positions come when they are sorted.
LEMMA InsertionOrder ==
  ASSUME NEW len \in Nat, NEW pri, NEW R, ByPriority(len, pri, R)
  PROVE  \E pos \in 1 .. len + 1 : InsertedAt(len, pri, R, pos)
<1> DEFINE S == 1 .. len + 1
           new == len + 1
<1>1. new \in S /\ (\A i \in 1 .. len : i \in S /\ i # new) /\ \A i \in S : i \in Int /\ (i = new \/ i \in 1 .. len)
  OBVIOUS
<1>2. \A i \in S : pri[i] \in Int
  BY DEF ByPriority
<1>3. \A i, j \in S : <<i, j>> \in R <=> pri[i] < pri[j] \/ (pri[i] = pri[j] /\ i < j)
  BY DEF ByPriority
<1>4. ASSUME NEW i \in 1 .. len, NEW j \in 1 .. len
      PROVE  <<i, j>> \in R <=> i < j
  <2>1. i \in 1 .. len + 1 /\ j \in 1 .. len + 1 /\ pri[i] \in Int /\ pri[j] \in Int
    BY DEF ByPriority
  <2>2. <<i, j>> \in R <=> pri[i] < pri[j] \/ (pri[i] = pri[j] /\ i < j)
    BY <2>1 DEF ByPriority
  <2>3. (i < j => pri[i] <= pri[j]) /\ (j < i => pri[j] <= pri[i])
    BY DEF ByPriority
  <2> QED
    BY <2>1, <2>2, <2>3
<1>5. \A i \in 1 .. len : i < new
  OBVIOUS
<1>6. IsFiniteSet(S) /\ Cardinality(S) = len + 1
  BY FS_Interval
<1> HIDE DEF S, new
<1>7. StrictOrder(S, R)
  <2>1. \A x \in S : <<x, x>> \notin R
    BY <1>1, <1>2, <1>3
  <2>2. ASSUME NEW x \in S, NEW y \in S
        PROVE  x = y \/ <<x, y>> \in R \/ <<y, x>> \in R
    <3>1. x \in Int /\ y \in Int /\ pri[x] \in Int /\ pri[y] \in Int
      BY <1>1, <1>2
    <3>2. pri[x] < pri[y] \/ pri[y] < pri[x] \/ (pri[x] = pri[y] /\ (x < y \/ y < x \/ x = y))
      BY <3>1
    <3> QED
      BY <1>3, <3>2
  <2>3. ASSUME NEW x \in S, NEW y \in S, NEW z \in S, <<x, y>> \in R, <<y, z>> \in R
        PROVE  <<x, z>> \in R
    BY <1>1, <1>2, <1>3, <2>3
  <2> QED
    BY <2>1, <2>2, <2>3 DEF StrictOrder
<1>8. ASSUME NEW i \in S, NEW j \in S
      PROVE  <<i, j>> \in R => <<j, i>> \notin R /\ i # j
  BY <1>7 DEF StrictOrder
<1>9. ASSUME NEW i \in 1 .. len
      PROVE  /\ <<i, new>> \in R => Rank(S, R, i) = i - 1
             /\ <<new, i>> \in R => Rank(S, R, i) = i
  <2>1. IsFiniteSet(1 .. i - 1) /\ Cardinality(1 .. i - 1) = i - 1
    BY FS_Interval
  <2>2. ASSUME <<i, new>> \in R PROVE Rank(S, R, i) = i - 1
    <3>1. {y \in S : <<y, i>> \in R} = 1 .. i - 1
      BY <1>1, <1>4, <1>8, <2>2
    <3> QED
      BY <2>1, <3>1 DEF Rank
  <2>3. ASSUME <<new, i>> \in R PROVE Rank(S, R, i) = i
    <3>1. {y \in S : <<y, i>> \in R} = (1 .. i - 1) \cup {new}
      BY <1>1, <1>4, <2>3
    <3>2. new \notin 1 .. i - 1
      BY <1>5
    <3>3. Cardinality((1 .. i - 1) \cup {new}) = (i - 1) + 1
      BY <2>1, <3>2, FS_AddElement
    <3>4. (i - 1) + 1 = i
      OBVIOUS
    <3> QED
      BY <3>1, <3>3, <3>4 DEF Rank
  <2> QED
    BY <2>2, <2>3
<1> DEFINE pos == Rank(S, R, new) + 1
           order == Ordered(S, R)
<1>10. pos \in 1 .. len + 1 /\ order[pos] = new
  BY <1>1, <1>6, <1>7, OrderedIs
<1>11. ASSUME NEW n \in 1 .. len + 1
       PROVE  order[n] \in S /\ Rank(S, R, order[n]) = n - 1
  BY <1>6, <1>7, OrderedIs
<1>12. \A m, n \in 1 .. len + 1 : m < n <=> <<order[m], order[n]>> \in R
  BY <1>6, <1>7, OrderedAscends
<1> HIDE DEF order, pos
<1>13. ASSUME NEW n \in 1 .. len + 1, n < pos
       PROVE  order[n] = n /\ n \in 1 .. len /\ <<n, new>> \in R
  <2>1. <<order[n], new>> \in R
    BY <1>10, <1>12, <1>13
  <2>2. order[n] \in 1 .. len
    BY <1>1, <1>8, <1>11, <2>1
  <2>3. order[n] - 1 = n - 1
    BY <1>9, <1>11, <2>1, <2>2
  <2>4. order[n] = n
    BY <2>2, <2>3
  <2> QED
    BY <2>1, <2>2, <2>4
<1>14. ASSUME NEW n \in 1 .. len + 1, pos < n
       PROVE  order[n] = n - 1 /\ <<new, n - 1>> \in R
  <2>1. <<new, order[n]>> \in R
    BY <1>10, <1>12, <1>14
  <2>2. order[n] \in 1 .. len
    BY <1>1, <1>8, <1>11, <2>1
  <2>3. order[n] = n - 1
    BY <1>9, <1>11, <2>1, <2>2
  <2> QED
    BY <2>1, <2>3
<1>15. ASSUME NEW n \in 1 .. len
       PROVE  IF n < pos THEN pri[n] <= pri[new] ELSE pri[new] < pri[n]
  <2>1. n \in S /\ new \in S /\ n < new /\ pri[n] \in Int /\ pri[new] \in Int
    BY <1>1, <1>2, <1>5
  <2>2. CASE n < pos
    <3>1. <<n, new>> \in R
      BY <1>13, <2>2
    <3> QED
      BY <1>3, <2>1, <2>2, <3>1
  <2>3. CASE ~(n < pos)
    <3>1. pos < n + 1 /\ n + 1 \in 1 .. len + 1 /\ (n + 1) - 1 = n
      BY <1>10, <2>3
    <3>2. <<new, n>> \in R
      BY <1>14, <3>1
    <3>3. pri[new] < pri[n] \/ new < n
      BY <1>3, <2>1, <3>2
    <3>4. ~(new < n)
      BY <2>1 DEF new
    <3> QED
      BY <2>3, <3>3, <3>4
  <2> QED
    BY <2>2, <2>3
<1>16. ASSUME NEW n \in 1 .. len + 1
       PROVE  order[n] = IF n < pos THEN n ELSE IF n = pos THEN new ELSE n - 1
  <2>1. n < pos \/ n = pos \/ pos < n
    BY <1>10
  <2> QED
    BY <1>10, <1>13, <1>14, <2>1
<1> QED
  BY <1>10, <1>15, <1>16 DEF S, new, order, InsertedAt

\* The stable sort puts a handler that was appended to a sorted list where it belongs,
\* and leaves the others in their order.
LEMMA SortedInserts ==
  ASSUME NEW list \in Seq(Handlers), Ascending(list), NEW h \in Handlers
  PROVE  \E pos \in 1 .. Len(list) + 1 :
           Sorted(Append(list, h)) = Inserted(list, h, pos) /\ FitsAt(list, h, pos)
<1> DEFINE len == Len(list)
           all == Append(list, h)
           pri == [n \in 1 .. len + 1 |-> Priority[all[n]]]
           R == {p \in (DOMAIN all) \X (DOMAIN all) :
                   \/ Priority[all[p[1]]] < Priority[all[p[2]]]
                   \/ Priority[all[p[1]]] = Priority[all[p[2]]] /\ p[1] < p[2]}
<1>1. len \in Nat
  OBVIOUS
<1>2. all[len + 1] = h /\ \A n \in 1 .. len : all[n] = list[n]
  OBVIOUS
<1>3. DOMAIN all = 1 .. len + 1
  OBVIOUS
<1>4. \A n \in 1 .. len + 1 : all[n] \in Handlers
  OBVIOUS
<1>5. Sorted(all) = [n \in 1 .. len + 1 |-> all[Ordered(1 .. len + 1, R)[n]]]
  BY <1>3 DEF Sorted
<1>6. \A n \in 1 .. len + 1 : pri[n] = Priority[all[n]]
  OBVIOUS
<1>7. \A n \in 1 .. len + 1 : pri[n] \in Int
  BY <1>4, <1>6, BusAssumption
<1>8. \A i, j \in 1 .. len + 1 : <<i, j>> \in R <=> pri[i] < pri[j] \/ (pri[i] = pri[j] /\ i < j)
  <2> TAKE i, j \in 1 .. len + 1
  <2>1. i \in DOMAIN all /\ j \in DOMAIN all
    BY <1>3
  <2>2. <<i, j>> \in R <=> \/ Priority[all[i]] < Priority[all[j]]
                           \/ Priority[all[i]] = Priority[all[j]] /\ i < j
    BY <2>1
  <2> QED
    BY <1>6, <2>2
<1>9. \A m, n \in 1 .. len : m < n => pri[m] <= pri[n]
  <2>1. \A n \in 1 .. len : pri[n] = Priority[list[n]]
    BY <1>1, <1>2, <1>6
  <2> QED
    BY <2>1 DEF Ascending
<1> HIDE DEF all, pri, R, len
<1>9a. ByPriority(len, pri, R)
  BY <1>7, <1>8, <1>9 DEF ByPriority
<1>10. PICK pos \in 1 .. len + 1 : InsertedAt(len, pri, R, pos)
  BY <1>1, <1>9a, InsertionOrder
<1>11. FitsAt(list, h, pos)
  <2>1. pri[len + 1] = Priority[h] /\ \A n \in 1 .. len : pri[n] = Priority[list[n]]
    BY <1>1, <1>2, <1>6
  <2> QED
    BY <1>10, <2>1 DEF FitsAt, len, InsertedAt
<1>12. Sorted(all) = Inserted(list, h, pos)
  <2> SUFFICES ASSUME NEW n \in 1 .. len + 1
               PROVE  all[Ordered(1 .. len + 1, R)[n]] =
                        IF n < pos THEN list[n] ELSE IF n = pos THEN h ELSE list[n - 1]
    BY <1>5 DEF Inserted, len
  <2>1. n < pos => n \in 1 .. len
    BY <1>1, <1>10
  <2>2. pos < n => n - 1 \in 1 .. len
    BY <1>1, <1>10
  <2>3. CASE n < pos
    BY <1>2, <1>10, <2>1, <2>3 DEF InsertedAt
  <2>4. CASE n = pos
    BY <1>2, <1>10, <2>4 DEF InsertedAt
  <2>5. CASE pos < n
    BY <1>1, <1>2, <1>10, <2>2, <2>5 DEF InsertedAt
  <2> QED
    BY <1>1, <1>10, <2>3, <2>4, <2>5
<1> QED
  BY <1>10, <1>11, <1>12 DEF len, all

\* What the tables and the runs of the bus are.
Slots == Handlers \cup {NoHandler}
Slices == [array : Nat, len : Nat]
RunRecords ==
  [kind : Hooks, slice : Slices, at : {"loop", "handler", "failed"}, next : Nat,
   current : Seq(Handlers), calls : Seq(Handlers), before : Seq(Handlers), grown : Nat]

\* A slice is in an array, whose length is its room.
Room(arrs, slice) == IF slice.array = 0 THEN 0 ELSE Len(arrs[slice.array])
IsSlice(arrs, slice) == slice.array \in 0 .. Len(arrs) /\ slice.len <= Room(arrs, slice)

\* What a slice shows of its array.
Shown(arrs, slice) == IF slice.len = 0 THEN <<>> ELSE SubSeq(arrs[slice.array], 1, slice.len)

\* Every array has room for something, and every table is in one.
Stores(arrs, heads) ==
  /\ arrs \in Seq(Seq(Slots)) /\ \A a \in 1 .. Len(arrs) : Len(arrs[a]) >= 1
  /\ heads \in [Hooks -> Slices] /\ \A k \in Hooks : IsSlice(arrs, heads[k])

\* A list has the handlers that were added, by priority and then by the order they were
\* added in.
Tabulated(list, history) ==
  /\ list \in Seq(Handlers) /\ Len(list) = Len(history) /\ ToSet(list) = ToSet(history)
  /\ \A i, j \in 1 .. Len(list) : i < j =>
       \/ Priority[list[i]] < Priority[list[j]]
       \/ /\ Priority[list[i]] = Priority[list[j]]
          /\ \A s, t \in 1 .. Len(history) : history[s] = list[i] /\ history[t] = list[j] => s < t

Once(history) == \A s, t \in 1 .. Len(history) : history[s] = history[t] => s = t

\* Two tables never share an array.
TablesApart(heads) ==
  \A k, l \in Hooks : k # l /\ heads[k].array # 0 => heads[k].array # heads[l].array

\* A run is over a slice that its table had, and has made as many calls as it has been
\* through elements.
RunShape(run, arrs, heads) ==
  /\ run \in RunRecords /\ IsSlice(arrs, run.slice)
  /\ \A l \in Hooks : l # run.kind /\ run.slice.array # 0 => run.slice.array # heads[l].array
  /\ run.slice.array = heads[run.kind].array => run.slice.len <= heads[run.kind].len
  /\ run.grown = 0 => run.slice = heads[run.kind]
  /\ Ascending(run.before) /\ Len(run.before) = run.slice.len
  /\ run.next \in 1 .. run.slice.len + 1 /\ Len(run.calls) = run.next - 1
  /\ \A n \in 1 .. run.slice.len : arrs[run.slice.array][n] \in Handlers

\* What a run answers so far.
RunValue(run) ==
  /\ run.at = "handler" => Len(run.calls) >= 1
  /\ run.at = "failed" => run.current = <<>>
  /\ run.kind = "filter" /\ run.at = "loop" => run.current = run.calls
  /\ run.kind = "filter" /\ run.at = "handler" => Append(run.current, Last(run.calls)) = run.calls

\* The array is as it was when the run began, and so are the calls.
Unmoved(run, arrs) ==
  /\ \A n \in 1 .. run.slice.len : arrs[run.slice.array][n] = run.before[n]
  /\ \A n \in 1 .. run.next - 1 : run.calls[n] = run.before[n]

\* A handler was put into the array, when some calls had been made.
Moved(run, arrs, h, pos, made) ==
  /\ FitsAt(run.before, h, pos)
  /\ \A n \in 1 .. run.slice.len : arrs[run.slice.array][n] = Inserted(run.before, h, pos)[n]
  /\ \A n \in 1 .. run.next - 1 :
       run.calls[n] = IF n <= made THEN run.before[n] ELSE Inserted(run.before, h, pos)[n]

RunCalls(run, arrs) ==
  /\ run.grown = 0 \/ Room(arrs, run.slice) = run.slice.len => Unmoved(run, arrs)
  /\ run.grown = 1 => \/ Unmoved(run, arrs)
                      \/ \E h \in Handlers, pos \in 1 .. run.slice.len + 1, made \in 0 .. run.next - 1 :
                           Moved(run, arrs, h, pos, made)

RunInv(run, arrs, heads) == RunShape(run, arrs, heads) /\ RunValue(run) /\ RunCalls(run, arrs)

BusInv ==
  /\ Stores(arrays, bus) /\ TablesApart(bus)
  /\ added \in [Hooks -> Seq(Handlers)]
  /\ \A k \in Hooks : Once(added[k]) /\ Tabulated(Shown(arrays, bus[k]), added[k])
  /\ runs \in Seq(RunRecords) /\ \A i \in 1 .. Len(runs) : RunInv(runs[i], arrays, bus)

\* Where a table's array and the list in it are, and what is changed when a handler is added:
\* the list of that table, in its array or in a new one, and nothing that is seen in others.
Grew(arrs, heads, arrs2, heads2, k, list) ==
  /\ Len(arrs) <= Len(arrs2) /\ \A a \in 1 .. Len(arrs) : Len(arrs2[a]) = Len(arrs[a])
  /\ \A l \in Hooks : l # k => heads2[l] = heads[l]
  /\ heads2[k].len = heads[k].len + 1 /\ IsSlice(arrs2, heads2[k]) /\ heads2[k].array # 0
  /\ \/ heads2[k].array = heads[k].array /\ heads[k].len < Room(arrs, heads[k])
     \/ heads2[k].array = Len(arrs) + 1 /\ heads[k].len = Room(arrs, heads[k])
  /\ \A a \in 1 .. Len(arrs) : a # heads2[k].array => arrs2[a] = arrs[a]
  /\ \A n \in 1 .. heads[k].len + 1 : arrs2[heads2[k].array][n] = list[n]

\* What a slice shows.
LEMMA ShownIs ==
  ASSUME NEW arrs \in Seq(Seq(Slots)), NEW slice \in Slices, IsSlice(arrs, slice)
  PROVE  /\ Shown(arrs, slice) \in Seq(Slots) /\ Len(Shown(arrs, slice)) = slice.len
         /\ \A n \in 1 .. slice.len : Shown(arrs, slice)[n] = arrs[slice.array][n]
<1>1. slice.len \in Nat /\ slice.array \in Nat
  BY DEF Slices
<1>2. CASE slice.len = 0
  BY <1>2 DEF Shown
<1>3. CASE slice.len # 0
  <2>1. slice.array \in 1 .. Len(arrs) /\ slice.len <= Len(arrs[slice.array])
    BY <1>1, <1>3 DEF IsSlice, Room
  <2>2. arrs[slice.array] \in Seq(Slots)
    BY <2>1
  <2>3. Shown(arrs, slice) = SubSeq(arrs[slice.array], 1, slice.len)
    BY <1>3 DEF Shown
  <2> QED
    BY <1>1, <1>3, <2>1, <2>2, <2>3
<1> QED
  BY <1>2, <1>3

\* And nothing else shows the same.
LEMMA ShownIsThat ==
  ASSUME NEW arrs \in Seq(Seq(Slots)), NEW slice \in Slices, IsSlice(arrs, slice),
         NEW list \in Seq(Slots), Len(list) = slice.len,
         \A n \in 1 .. slice.len : arrs[slice.array][n] = list[n]
  PROVE  Shown(arrs, slice) = list
<1> DEFINE shown == Shown(arrs, slice)
<1>1. shown \in Seq(Slots) /\ Len(shown) = Len(list) /\ \A n \in 1 .. Len(list) : shown[n] = list[n]
  BY ShownIs
<1> HIDE DEF shown
<1>2. shown = list
  BY <1>1
<1> QED
  BY <1>2 DEF shown

\* A list in which handlers are by priority first ascends.
LEMMA TabulatedAscends ==
  ASSUME NEW list, NEW history, Tabulated(list, history)
  PROVE  Ascending(list)
<1>1. list \in Seq(Handlers) /\ \A n \in 1 .. Len(list) : list[n] \in Handlers
  BY DEF Tabulated
<1>2. \A n \in 1 .. Len(list) : Priority[list[n]] \in Int
  BY <1>1, BusAssumption
<1> QED
  BY <1>1, <1>2 DEF Tabulated, Ascending

\* What an inserted handler, and what was there before it, is.
LEMMA InsertedIs ==
  ASSUME NEW list \in Seq(Handlers), NEW h \in Handlers, NEW pos \in 1 .. Len(list) + 1
  PROVE  /\ Inserted(list, h, pos) \in Seq(Handlers) /\ Len(Inserted(list, h, pos)) = Len(list) + 1
         /\ \A n \in 1 .. Len(list) + 1 :
              /\ n < pos => n \in 1 .. Len(list) /\ Inserted(list, h, pos)[n] = list[n]
              /\ n = pos => Inserted(list, h, pos)[n] = h
              /\ pos < n => n - 1 \in 1 .. Len(list) /\ Inserted(list, h, pos)[n] = list[n - 1]
<1> DEFINE new == Inserted(list, h, pos)
<1>1. \A n \in 1 .. Len(list) + 1 :
         /\ n < pos => n \in 1 .. Len(list)
         /\ pos < n => n - 1 \in 1 .. Len(list)
         /\ n < pos \/ n = pos \/ pos < n
  OBVIOUS
<1>2. \A n \in 1 .. Len(list) + 1 :
         new[n] = IF n < pos THEN list[n] ELSE IF n = pos THEN h ELSE list[n - 1]
  BY DEF Inserted
<1>3. \A n \in 1 .. Len(list) + 1 : new[n] \in Handlers
  <2> HIDE DEF new
  <2>1. \A n \in 1 .. Len(list) : list[n] \in Handlers
    OBVIOUS
  <2> QED
    BY <1>1, <1>2, <2>1
<1>4. new \in [1 .. Len(list) + 1 -> Handlers]
  BY <1>3 DEF Inserted
<1>5. new \in Seq(Handlers) /\ Len(new) = Len(list) + 1
  BY <1>4
<1> HIDE DEF new
<1> QED
  BY <1>1, <1>2, <1>5 DEF new

\* What is in a sequence.
LEMMA ToSetIs ==
  ASSUME NEW S, NEW s \in Seq(S)
  PROVE  ToSet(s) = {s[n] : n \in 1 .. Len(s)}
BY DEF ToSet

\* A handler put where its priority belongs, after those of the same priority, keeps the
\* table in order.
LEMMA InsertKeeps ==
  ASSUME NEW list, NEW history \in Seq(Handlers), NEW h \in Handlers, Tabulated(list, history),
         Once(history), h \notin ToSet(history),
         NEW pos \in 1 .. Len(list) + 1, FitsAt(list, h, pos)
  PROVE  Tabulated(Inserted(list, h, pos), Append(history, h)) /\ Once(Append(history, h))
<1> DEFINE new == Inserted(list, h, pos)
           later == Append(history, h)
           len == Len(list)
<1>1. /\ list \in Seq(Handlers) /\ len \in Nat /\ Len(history) = len /\ Len(later) = len + 1
      /\ later \in Seq(Handlers)
  BY DEF Tabulated
<1>2. \A s \in 1 .. len : later[s] = history[s] /\ history[s] \in Handlers /\ list[s] \in Handlers
  BY <1>1
<1>3. later[len + 1] = h
  BY <1>1
<1>4. ToSet(list) = {list[n] : n \in 1 .. len} /\ ToSet(history) = {history[n] : n \in 1 .. len}
  BY <1>1 DEF ToSet
<1>5. \A s \in 1 .. len : history[s] # h /\ list[s] # h
  <2>1. ToSet(list) = ToSet(history)
    BY DEF Tabulated
  <2>2. h \notin {list[n] : n \in 1 .. len} /\ h \notin {history[n] : n \in 1 .. len}
    BY <1>4, <2>1
  <2> QED
    BY <2>2
<1>6. /\ new \in Seq(Handlers) /\ Len(new) = len + 1
      /\ \A n \in 1 .. len + 1 :
              /\ n < pos => n \in 1 .. len /\ new[n] = list[n]
              /\ n = pos => new[n] = h
              /\ pos < n => n - 1 \in 1 .. len /\ new[n] = list[n - 1]
  <2>1. list \in Seq(Handlers)
    BY <1>1
  <2> QED
    BY <2>1, InsertedIs
<1>7. ToSet(new) = {new[n] : n \in 1 .. len + 1} /\ ToSet(later) = {later[n] : n \in 1 .. len + 1}
  <2> HIDE DEF new, later, len
  <2>1. ToSet(new) = {new[n] : n \in 1 .. Len(new)}
    BY <1>6, ToSetIs
  <2>2. ToSet(later) = {later[n] : n \in 1 .. Len(later)}
    BY <1>1, ToSetIs
  <2> QED
    BY <1>1, <1>6, <2>1, <2>2
<1>8. \A n \in 1 .. len + 1 : n \in 1 .. len \/ n = len + 1
  BY <1>1
<1>9. Once(later)
  <2> HIDE DEF later, len
  <2> QED
    <3>1. \A s, t \in 1 .. len : history[s] = history[t] => s = t
      BY <1>1 DEF Once
    <3>2. \A s, t \in 1 .. len + 1 : later[s] = later[t] => s = t
      BY <1>2, <1>3, <1>5, <1>8, <3>1
    <3> QED
      BY <1>1, <3>2 DEF Once
<1>10. \A n \in 1 .. len : Priority[list[n]] \in Int
  BY <1>2, BusAssumption
<1>11. Priority[h] \in Int /\ pos \in 1 .. len + 1
  BY BusAssumption
<1>12. \A n \in 1 .. len : \/ n < pos /\ n \in 1 .. len + 1 /\ new[n] = list[n]
                           \/ pos <= n /\ n + 1 \in 1 .. len + 1 /\ new[n + 1] = list[n]
  <2> HIDE DEF new, len
  <2> TAKE n \in 1 .. len
  <2>1. CASE n < pos
    BY <1>1, <1>6, <2>1
  <2>2. CASE pos <= n
    <3>1. n + 1 \in 1 .. len + 1 /\ pos < n + 1 /\ n + 1 - 1 = n
      BY <1>1, <1>11, <2>2
    <3> QED
      BY <1>6, <2>2, <3>1
  <2> QED
    BY <1>11, <2>1, <2>2
<1>13. \A n \in 1 .. len + 1 : (n = pos /\ new[n] = h) \/ \E m \in 1 .. len : new[n] = list[m]
  <2> HIDE DEF new, len
  <2> TAKE n \in 1 .. len + 1
  <2>1. CASE n = pos
    BY <1>6, <2>1
  <2>2. CASE n < pos
    BY <1>6, <2>2
  <2>3. CASE pos < n
    BY <1>6, <2>3
  <2> QED
    BY <1>1, <1>11, <2>1, <2>2, <2>3
<1>14. ToSet(new) = ToSet(list) \cup {h}
  <2> HIDE DEF new, len
  <2>1. ASSUME NEW x \in ToSet(new) PROVE x \in ToSet(list) \cup {h}
    BY <1>4, <1>7, <1>13
  <2>2. ASSUME NEW x \in ToSet(list) PROVE x \in ToSet(new)
    BY <1>4, <1>7, <1>12
  <2>3. h \in ToSet(new)
    BY <1>6, <1>7, <1>11
  <2> QED
    BY <2>1, <2>2, <2>3
<1>15. ToSet(later) = ToSet(history) \cup {h}
  <2> HIDE DEF later, len
  <2>1. ASSUME NEW x \in ToSet(later) PROVE x \in ToSet(history) \cup {h}
    BY <1>2, <1>3, <1>4, <1>7, <1>8
  <2>2. \A n \in 1 .. len : n \in 1 .. len + 1
    BY <1>1
  <2>3. len + 1 \in 1 .. len + 1
    BY <1>1
  <2> QED
    BY <1>2, <1>3, <1>4, <1>7, <2>1, <2>2, <2>3
<1>16. ToSet(list) = ToSet(history)
  BY DEF Tabulated
<1>17. ASSUME NEW m \in 1 .. len, NEW n \in 1 .. len, m < n
       PROVE  \/ Priority[list[m]] < Priority[list[n]]
              \/ /\ Priority[list[m]] = Priority[list[n]]
                 /\ \A s, t \in 1 .. len : history[s] = list[m] /\ history[t] = list[n] => s < t
  BY <1>1, <1>17 DEF Tabulated
<1>18. ASSUME NEW i \in 1 .. len + 1, NEW j \in 1 .. len + 1, i < j
       PROVE  \/ Priority[new[i]] < Priority[new[j]]
              \/ /\ Priority[new[i]] = Priority[new[j]]
                 /\ \A s, t \in 1 .. len + 1 : later[s] = new[i] /\ later[t] = new[j] => s < t
  <2> HIDE DEF new, later, len
  <2>1. CASE i # pos /\ j # pos
    <3>1. PICK m \in 1 .. len, n \in 1 .. len : m < n /\ new[i] = list[m] /\ new[j] = list[n]
      <4>1. CASE j < pos
        <5>1. i < pos
          BY <1>1, <1>11, <1>18, <4>1
        <5> QED
          BY <1>6, <1>18, <4>1, <5>1
      <4>2. CASE i < pos /\ pos < j
        <5>1. i < j - 1
          BY <1>1, <1>11, <4>2
        <5> QED
          BY <1>6, <4>2, <5>1
      <4>3. CASE pos < i
        <5>1. i - 1 < j - 1 /\ pos < j
          BY <1>1, <1>11, <1>18, <4>3
        <5> QED
          BY <1>6, <4>3, <5>1
      <4> QED
        BY <1>1, <1>11, <1>18, <2>1, <4>1, <4>2, <4>3
    <3>2. \A s \in 1 .. len + 1 : later[s] = list[m] \/ later[s] = list[n] => s \in 1 .. len
      BY <1>3, <1>5, <1>8
    <3> QED
      BY <1>2, <1>17, <3>1, <3>2
  <2>2. CASE i = pos
    <3>1. j - 1 \in 1 .. len /\ new[j] = list[j - 1] /\ new[i] = h /\ pos < j /\ pos <= j - 1
      BY <1>1, <1>6, <1>11, <1>18, <2>2
    <3>2. Priority[h] < Priority[list[j - 1]]
      BY <1>11, <3>1 DEF FitsAt, len
    <3> QED
      BY <3>1, <3>2
  <2>3. CASE j = pos
    <3>1. i \in 1 .. len /\ new[i] = list[i] /\ new[j] = h /\ i < pos
      BY <1>1, <1>6, <1>11, <1>18, <2>3
    <3>2. Priority[list[i]] <= Priority[h]
      BY <1>11, <3>1 DEF FitsAt, len
    <3>3. ASSUME NEW s \in 1 .. len + 1, NEW t \in 1 .. len + 1, later[s] = list[i], later[t] = h
          PROVE  s < t
      <4>1. s \in 1 .. len
        BY <1>3, <1>5, <1>8, <3>1, <3>3
      <4>2. t \notin 1 .. len
        BY <1>2, <1>5, <3>3
      <4>3. t = len + 1
        BY <1>8, <4>2
      <4> QED
        BY <1>1, <4>1, <4>3
    <3>4. Priority[list[i]] < Priority[h] \/ Priority[list[i]] = Priority[h]
      BY <1>10, <1>11, <3>1, <3>2
    <3> QED
      BY <3>1, <3>3, <3>4
  <2> QED
    BY <2>1, <2>2, <2>3
<1> HIDE DEF new, later, len
<1>19. Tabulated(new, later)
  <2>1. ToSet(new) = ToSet(later)
    BY <1>14, <1>15, <1>16
  <2> QED
    BY <1>1, <1>6, <1>18, <2>1 DEF Tabulated
<1> QED
  BY <1>9, <1>19 DEF new, later

\* An array that is filled up has the list, and is as long as it was made.
LEMMA PaddedIs ==
  ASSUME NEW list \in Seq(Handlers), NEW size \in Nat, Len(list) <= size
  PROVE  /\ Padded(list, size) \in Seq(Slots) /\ Len(Padded(list, size)) = size
         /\ \A n \in 1 .. Len(list) : Padded(list, size)[n] = list[n]
<1>1. DOMAIN list = 1 .. Len(list)
  OBVIOUS
<1>2. \A n \in 1 .. Len(list) : n \in 1 .. size /\ list[n] \in Handlers
  OBVIOUS
<1>3. \A n \in 1 .. size :
        Padded(list, size)[n] = IF n \in 1 .. Len(list) THEN list[n] ELSE NoHandler
  BY <1>1 DEF Padded
<1>4. Padded(list, size) \in [1 .. size -> Slots]
  <2>1. \A n \in 1 .. size : Padded(list, size)[n] \in Slots
    BY <1>2, <1>3 DEF Slots
  <2> QED
    BY <2>1 DEF Padded
<1> QED
  BY <1>2, <1>3, <1>4

\* A run takes note that a handler was added to the list it is in.
Noted(run, k) == IF run.kind = k THEN [run EXCEPT !.grown = @ + 1] ELSE run

\* Adding a handler changes what its table shows, and no other array.
LEMMA AddGrows ==
  ASSUME Stores(arrays, bus), NEW k \in Hooks, NEW list \in Seq(Handlers),
         Len(list) = bus[k].len + 1,
         \/ /\ Spare(bus[k]) > 0
            /\ arrays' = [arrays EXCEPT ![bus[k].array] = Padded(list, Len(@))]
            /\ bus' = [bus EXCEPT ![k].len = @ + 1]
         \/ /\ Spare(bus[k]) = 0
            /\ arrays' = Append(arrays, Padded(list, IF bus[k].array = 0 THEN 1 ELSE 2 * Capacity(bus[k])))
            /\ bus' = [bus EXCEPT ![k] = [array |-> Len(arrays) + 1, len |-> @.len + 1]]
  PROVE  Stores(arrays', bus') /\ Grew(arrays, bus, arrays', bus', k, list)
<1> DEFINE a == bus[k].array
           len == bus[k].len
<1>1. /\ arrays \in Seq(Seq(Slots)) /\ \A b \in 1 .. Len(arrays) : arrays[b] \in Seq(Slots) /\ Len(arrays[b]) >= 1
      /\ bus \in [Hooks -> Slices] /\ \A l \in Hooks : IsSlice(arrays, bus[l])
  BY DEF Stores
<1>2. a \in Nat /\ len \in Nat /\ Len(arrays) \in Nat
  BY <1>1 DEF Slices
<1>3. a \in 0 .. Len(arrays) /\ len <= Room(arrays, bus[k])
  BY <1>1 DEF IsSlice
<1>4. Room(arrays, bus[k]) = IF a = 0 THEN 0 ELSE Len(arrays[a])
  BY DEF Room
<1>5. Spare(bus[k]) = Room(arrays, bus[k]) - len /\ Capacity(bus[k]) = Room(arrays, bus[k])
  BY DEF Spare, Capacity, Room
<1>6. \A b \in 1 .. Len(arrays) : Len(arrays[b]) \in Nat
  BY <1>1
<1>7. CASE /\ Spare(bus[k]) > 0
           /\ arrays' = [arrays EXCEPT ![bus[k].array] = Padded(list, Len(@))]
           /\ bus' = [bus EXCEPT ![k].len = @ + 1]
  <2> DEFINE new == Padded(list, Len(arrays[a]))
  <2>1. a \in 1 .. Len(arrays) /\ len < Len(arrays[a]) /\ Room(arrays, bus[k]) = Len(arrays[a])
    <3>1. Room(arrays, bus[k]) - len > 0
      BY <1>5, <1>7
    <3>2. a # 0
      BY <1>2, <1>4, <3>1
    <3>3. a \in 1 .. Len(arrays)
      BY <1>2, <1>3, <3>2
    <3> QED
      BY <1>2, <1>4, <1>6, <3>1, <3>2, <3>3
  <2>2. new \in Seq(Slots) /\ Len(new) = Len(arrays[a]) /\ \A n \in 1 .. len + 1 : new[n] = list[n]
    <3>1. Len(list) <= Len(arrays[a]) /\ Len(arrays[a]) \in Nat
      BY <1>2, <1>6, <2>1
    <3> QED
      BY <3>1, PaddedIs
  <2> HIDE DEF new
  <2>3. arrays' = [arrays EXCEPT ![a] = new]
    BY <1>7 DEF new
  <2>4. arrays' \in Seq(Seq(Slots)) /\ Len(arrays') = Len(arrays)
    BY <1>1, <2>1, <2>2, <2>3
  <2>5. arrays'[a] = new /\ \A b \in 1 .. Len(arrays) : b # a => arrays'[b] = arrays[b]
    BY <1>1, <2>1, <2>3
  <2>6. \A b \in 1 .. Len(arrays) : Len(arrays'[b]) = Len(arrays[b])
    BY <2>2, <2>5
  <2>7. bus'[k] = [bus[k] EXCEPT !.len = len + 1] /\ \A l \in Hooks : l # k => bus'[l] = bus[l]
    BY <1>1, <1>7
  <2>8. bus'[k].array = a /\ bus'[k].len = len + 1 /\ bus'[k] \in Slices
    <3>1. bus[k] \in [array : Nat, len : Nat]
      BY <1>1 DEF Slices
    <3> QED
      BY <1>2, <2>7, <3>1 DEF Slices
  <2>9. bus' \in [Hooks -> Slices]
    BY <1>1, <1>7, <2>7, <2>8
  <2>10. IsSlice(arrays', bus'[k])
    <3>1. Room(arrays', bus'[k]) = Len(arrays[a])
      BY <2>1, <2>6, <2>8 DEF Room
    <3>2. a \in 0 .. Len(arrays') /\ len + 1 <= Len(arrays[a])
      BY <1>2, <1>6, <2>1, <2>4, SMTT(30)
    <3> QED
      BY <2>8, <3>1, <3>2 DEF IsSlice
  <2>11. ASSUME NEW l \in Hooks PROVE IsSlice(arrays', bus'[l])
    <3>1. CASE l # k
      <4>1. bus[l].array \in Nat /\ IsSlice(arrays, bus[l]) /\ bus'[l] = bus[l]
        BY <1>1, <2>7, <3>1 DEF Slices
      <4> QED
        BY <4>1, <1>2, <2>4, <2>6 DEF IsSlice, Room
    <3> QED
      BY <2>10, <3>1
  <2>12. Stores(arrays', bus')
    BY <1>1, <2>4, <2>6, <2>9, <2>11 DEF Stores
  <2>13. Grew(arrays, bus, arrays', bus', k, list)
    BY <1>2, <2>1, <2>2, <2>4, <2>5, <2>6, <2>7, <2>8, <2>10, SMTT(30) DEF Grew
  <2> QED
    BY <2>12, <2>13
<1>8. CASE /\ Spare(bus[k]) = 0
           /\ arrays' = Append(arrays, Padded(list, IF bus[k].array = 0 THEN 1 ELSE 2 * Capacity(bus[k])))
           /\ bus' = [bus EXCEPT ![k] = [array |-> Len(arrays) + 1, len |-> @.len + 1]]
  <2> DEFINE size == IF bus[k].array = 0 THEN 1 ELSE 2 * Capacity(bus[k])
             new == Padded(list, size)
  <2>1. Room(arrays, bus[k]) = len
    BY <1>2, <1>3, <1>4, <1>5, <1>6, <1>8
  <2>2. size \in Nat /\ len + 1 <= size
    <3>1. CASE a = 0
      BY <1>2, <1>4, <2>1, <3>1
    <3>2. CASE a # 0
      <4>1. a \in 1 .. Len(arrays)
        BY <1>2, <1>3, <3>2
      <4>2. len >= 1
        BY <1>1, <1>4, <2>1, <3>2, <4>1
      <4> QED
        BY <1>2, <1>5, <2>1, <3>2, <4>2
    <3> QED
      BY <3>1, <3>2
  <2>3. new \in Seq(Slots) /\ Len(new) = size /\ \A n \in 1 .. len + 1 : new[n] = list[n]
    <3> HIDE DEF size
    <3> QED
      BY <1>2, <2>2, PaddedIs
  <2>4. Len(new) >= len + 1 /\ Len(new) >= 1
    <3> HIDE DEF size
    <3> QED
      BY <1>2, <2>2, <2>3
  <2>5. arrays' = Append(arrays, new)
    BY <1>8 DEF new
  <2> HIDE DEF new, size
  <2>6. arrays' \in Seq(Seq(Slots)) /\ Len(arrays') = Len(arrays) + 1
    BY <1>1, <2>3, <2>5
  <2>7. arrays'[Len(arrays) + 1] = new /\ \A b \in 1 .. Len(arrays) : arrays'[b] = arrays[b]
    BY <1>1, <2>5
  <2>8. bus'[k].array = Len(arrays) + 1 /\ bus'[k].len = len + 1 /\ bus'[k] \in Slices
    BY <1>1, <1>2, <1>8 DEF Slices
  <2>9. \A l \in Hooks : l # k => bus'[l] = bus[l]
    BY <1>1, <1>8
  <2>10. bus' \in [Hooks -> Slices]
    BY <1>1, <1>8, <2>8, <2>9
  <2>11. IsSlice(arrays', bus'[k])
    BY <1>2, <2>4, <2>6, <2>7, <2>8 DEF IsSlice, Room
  <2>12. ASSUME NEW l \in Hooks PROVE IsSlice(arrays', bus'[l])
    <3>1. CASE l # k
      <4>1. bus[l].array \in Nat /\ IsSlice(arrays, bus[l]) /\ bus'[l] = bus[l]
        BY <1>1, <2>9, <3>1 DEF Slices
      <4> QED
        BY <4>1, <1>2, <2>6, <2>7, SMTT(30) DEF IsSlice, Room
    <3> QED
      BY <2>11, <3>1
  <2>13. \A b \in 1 .. Len(arrays') : Len(arrays'[b]) >= 1
    <3>1. \A b \in 1 .. Len(arrays') : b \in 1 .. Len(arrays) \/ b = Len(arrays) + 1
      BY <1>2, <2>6
    <3> QED
      BY <1>1, <2>4, <2>7, <3>1
  <2>14. Stores(arrays', bus')
    BY <2>6, <2>10, <2>12, <2>13 DEF Stores
  <2>15. Grew(arrays, bus, arrays', bus', k, list)
    BY <1>2, <2>1, <2>3, <2>6, <2>7, <2>8, <2>9, <2>11, SMTT(30) DEF Grew
  <2> QED
    BY <2>14, <2>15
<1> QED
  BY <1>7, <1>8

\* A run goes on as it should when a handler is added to the list it is in, or to another.
LEMMA RunGrows ==
  ASSUME NEW arrs, NEW heads, NEW arrs2, NEW heads2, Stores(arrs, heads), Stores(arrs2, heads2),
         NEW k \in Hooks, NEW h \in Handlers, NEW old \in Seq(Handlers), NEW pos \in 1 .. Len(old) + 1,
         Len(old) = heads[k].len, \A n \in 1 .. Len(old) : old[n] = arrs[heads[k].array][n],
         FitsAt(old, h, pos), Grew(arrs, heads, arrs2, heads2, k, Inserted(old, h, pos)),
         NEW run, RunInv(run, arrs, heads)
  PROVE  RunInv(Noted(run, k), arrs2, heads2)
<1> DEFINE a == run.slice.array
           len == run.slice.len
           wider == Inserted(old, h, pos)
           run2 == IF run.kind = k THEN [run EXCEPT !.grown = @ + 1] ELSE run
           same == \A n \in 1 .. len : arrs2[a][n] = arrs[a][n]
<1>1. /\ run \in RunRecords /\ run.slice \in Slices /\ a \in Nat /\ len \in Nat /\ run.grown \in Nat
      /\ run.next \in Nat /\ run.before \in Seq(Handlers) /\ run.calls \in Seq(Handlers) /\ run.kind \in Hooks
  BY DEF RunInv, RunShape, RunRecords, Slices
<1>2. /\ run2 \in RunRecords /\ run2.grown = (IF run.kind = k THEN run.grown + 1 ELSE run.grown)
      /\ run2.kind = run.kind /\ run2.slice = run.slice /\ run2.at = run.at /\ run2.next = run.next
      /\ run2.current = run.current /\ run2.calls = run.calls /\ run2.before = run.before
  <2>1. CASE run.kind # k
    BY <1>1, <2>1
  <2>2. CASE run.kind = k
    <3>1. run2 = [run EXCEPT !.grown = @ + 1]
      BY <2>2
    <3> HIDE DEF run2
    <3> QED
      <4>1. run \in [kind : Hooks, slice : Slices, at : {"loop", "handler", "failed"}, next : Nat,
                     current : Seq(Handlers), calls : Seq(Handlers), before : Seq(Handlers), grown : Nat]
        BY <1>1 DEF RunRecords
      <4>2. run2.grown = run.grown + 1
        BY <3>1, <4>1
      <4>3. /\ run2.kind = run.kind /\ run2.slice = run.slice /\ run2.at = run.at /\ run2.next = run.next
            /\ run2.current = run.current /\ run2.calls = run.calls /\ run2.before = run.before
        BY <3>1, <4>1
      <4>4. run2 \in RunRecords
        <5>1. ASSUME NEW more \in Nat PROVE [run EXCEPT !.grown = more] \in RunRecords
          BY <4>1 DEF RunRecords
        <5>2. run.grown + 1 \in Nat
          BY <1>1
        <5> QED
          BY <3>1, <5>1, <5>2, Zenon
      <4> QED
        BY <2>2, <4>2, <4>3, <4>4
  <2> QED
    BY <2>1, <2>2
<1>3. /\ \A l \in Hooks : heads[l].array \in Nat /\ heads[l].len \in Nat /\ heads[l].array \in 0 .. Len(arrs)
      /\ Len(arrs) \in Nat /\ Len(arrs2) \in Nat /\ \A b \in 1 .. Len(arrs) : Len(arrs[b]) \in Nat
  BY DEF Stores, Slices, IsSlice
<1>4. /\ Len(arrs) <= Len(arrs2) /\ \A b \in 1 .. Len(arrs) : Len(arrs2[b]) = Len(arrs[b])
      /\ \A l \in Hooks : l # k => heads2[l] = heads[l]
      /\ heads2[k].len = heads[k].len + 1 /\ heads2[k].array # 0
      /\ \/ heads2[k].array = heads[k].array /\ heads[k].len < Room(arrs, heads[k])
         \/ heads2[k].array = Len(arrs) + 1 /\ heads[k].len = Room(arrs, heads[k])
      /\ \A b \in 1 .. Len(arrs) : b # heads2[k].array => arrs2[b] = arrs[b]
      /\ \A n \in 1 .. heads[k].len + 1 : arrs2[heads2[k].array][n] = wider[n]
  BY DEF Grew
<1>5. /\ IsSlice(arrs, run.slice)
      /\ \A l \in Hooks : l # run.kind /\ a # 0 => a # heads[l].array
      /\ a = heads[run.kind].array => len <= heads[run.kind].len
      /\ run.grown = 0 => run.slice = heads[run.kind]
      /\ Ascending(run.before) /\ Len(run.before) = len
      /\ run.next \in 1 .. len + 1 /\ Len(run.calls) = run.next - 1
      /\ \A n \in 1 .. len : arrs[a][n] \in Handlers
  BY DEF RunInv, RunShape
<1>6. a \in 0 .. Len(arrs) /\ len <= Room(arrs, run.slice)
  BY <1>5 DEF IsSlice
<1>7. wider \in Seq(Handlers) /\ Len(wider) = heads[k].len + 1 /\ \A n \in 1 .. heads[k].len + 1 : wider[n] \in Handlers
  BY <1>3, InsertedIs, SMTT(30)
<1> HIDE DEF a, len, wider, run2, same
<1>8. Room(arrs2, run.slice) = Room(arrs, run.slice) /\ IsSlice(arrs2, run.slice)
  BY <1>1, <1>3, <1>4, <1>6 DEF Room, IsSlice, a, len
<1>9. len > 0 => a \in 1 .. Len(arrs)
  BY <1>1, <1>6 DEF Room, a, len
<1>10. \/ same
       \/ /\ len > 0 /\ a # 0 /\ a = heads[k].array /\ a = heads2[k].array /\ run.kind = k
          /\ len <= heads[k].len /\ heads[k].len < Room(arrs, run.slice)
          /\ \A n \in 1 .. len : arrs2[a][n] = wider[n] /\ n \in 1 .. heads[k].len + 1
  <2>1. CASE len = 0
    BY <2>1 DEF same
  <2>2. CASE len > 0 /\ a # heads2[k].array
    BY <1>4, <1>9, <2>2 DEF same
  <2>3. CASE len > 0 /\ a = heads2[k].array
    <3>1. a = heads[k].array /\ heads[k].len < Room(arrs, heads[k]) /\ a # 0
      BY <1>3, <1>4, <1>9, <2>3
    <3>2. run.kind = k
      BY <1>5, <3>1
    <3>3. len <= heads[k].len
      BY <1>5, <3>1, <3>2
    <3>4. Room(arrs, run.slice) = Room(arrs, heads[k])
      BY <3>1 DEF Room, a
    <3>5. \A n \in 1 .. len : n \in 1 .. heads[k].len + 1
      BY <1>1, <1>3, <3>3
    <3> QED
      BY <1>4, <2>3, <3>1, <3>2, <3>3, <3>4, <3>5
  <2> QED
    BY <1>1, <2>1, <2>2, <2>3
<1>11. RunShape(run2, arrs2, heads2)
  <2>1. ASSUME NEW l \in Hooks, l # run.kind, a # 0 PROVE a # heads2[l].array
    <3>1. CASE l # k
      BY <1>4, <1>5, <2>1, <3>1
    <3>2. CASE l = k
      <4>1. heads2[k].array = heads[k].array \/ heads2[k].array = Len(arrs) + 1
        BY <1>4
      <4>2. a # heads[k].array /\ a # Len(arrs) + 1
        BY <1>1, <1>3, <1>5, <1>6, <2>1, <3>2
      <4> QED
        BY <3>2, <4>1, <4>2
    <3> QED
      BY <3>1, <3>2
  <2>2. a = heads2[run.kind].array => len <= heads2[run.kind].len
    <3>1. CASE run.kind # k
      BY <1>1, <1>4, <1>5, <3>1
    <3>2. CASE run.kind = k /\ a = heads2[k].array
      <4>1. a # Len(arrs) + 1
        BY <1>1, <1>3, <1>6
      <4>2. a = heads[k].array
        BY <1>4, <3>2, <4>1
      <4>3. len <= heads[k].len
        BY <1>5, <3>2, <4>2
      <4> QED
        BY <1>1, <1>3, <1>4, <3>2, <4>3
    <3> QED
      BY <3>1, <3>2
  <2>3. run2.grown = 0 => run.slice = heads2[run.kind]
    BY <1>1, <1>2, <1>4, <1>5
  <2>4. \A n \in 1 .. len : arrs2[a][n] \in Handlers
    BY <1>5, <1>7, <1>10 DEF same
  <2> QED
    BY <1>2, <1>5, <1>8, <2>1, <2>2, <2>3, <2>4 DEF RunShape, a, len
<1>12. RunValue(run2)
  BY <1>2 DEF RunInv, RunValue
<1>13. /\ run.grown = 0 \/ Room(arrs, run.slice) = len => Unmoved(run, arrs)
       /\ run.grown = 1 => \/ Unmoved(run, arrs)
                           \/ \E h1 \in Handlers, pos1 \in 1 .. len + 1, made \in 0 .. run.next - 1 :
                                Moved(run, arrs, h1, pos1, made)
  BY DEF RunInv, RunCalls, len
<1>14. same /\ Unmoved(run, arrs) => Unmoved(run2, arrs2)
  BY <1>2 DEF same, Unmoved, a, len
<1>15. ASSUME same, NEW h1, NEW pos1, NEW made, Moved(run, arrs, h1, pos1, made)
       PROVE  Moved(run2, arrs2, h1, pos1, made)
  BY <1>2, <1>15 DEF same, Moved, a, len
<1>16. Room(arrs2, run2.slice) = len => Unmoved(run2, arrs2)
  <2>1. SUFFICES ASSUME Room(arrs, run.slice) = len PROVE Unmoved(run2, arrs2)
    BY <1>2, <1>8
  <2>2. same
    BY <1>1, <1>3, <1>10, <2>1
  <2> QED
    BY <1>13, <1>14, <2>1, <2>2
<1>17. run2.grown = 0 => Unmoved(run2, arrs2)
  BY <1>1, <1>2, <1>10, <1>13, <1>14
<1>18. ASSUME run2.grown = 1
       PROVE  \/ Unmoved(run2, arrs2)
              \/ \E h1 \in Handlers, pos1 \in 1 .. len + 1, made \in 0 .. run.next - 1 :
                   Moved(run2, arrs2, h1, pos1, made)
  <2>1. CASE run.kind # k
    <3>1. run.grown = 1 /\ same
      BY <1>2, <1>10, <1>18, <2>1
    <3> QED
      BY <1>13, <1>14, <1>15, <3>1
  <2>2. CASE run.kind = k
    <3>1. run.grown = 0 /\ Unmoved(run, arrs) /\ run.slice = heads[k]
      BY <1>1, <1>2, <1>5, <1>13, <1>18, <2>2, SMTT(30)
    <3>2. CASE same
      BY <1>14, <3>1, <3>2
    <3>3. CASE ~same
      <4>1. a = heads[k].array /\ len = heads[k].len /\ Len(old) = len
        BY <3>1 DEF a, len
      <4>2. \A n \in 1 .. len : run.before[n] = old[n]
        BY <3>1, <4>1 DEF Unmoved, a, len
      <4>3. run.before = old
        <5>1. run.before \in Seq(Handlers) /\ old \in Seq(Handlers) /\ Len(run.before) = Len(old)
          BY <1>1, <1>5, <4>1
        <5> HIDE DEF len
        <5> QED
          BY <1>5, <4>1, <4>2, <5>1, SeqEqual
      <4>4. Moved(run2, arrs2, h, pos, run.next - 1)
        <5>1. \A n \in 1 .. run.next - 1 : n <= run.next - 1 /\ run.calls[n] = run.before[n]
          BY <1>1, <3>1 DEF Unmoved
        <5>2. \A n \in 1 .. len : arrs2[a][n] = wider[n]
          BY <1>10, <3>3
        <5> QED
          BY <1>2, <4>3, <5>1, <5>2 DEF Moved, wider, a, len
      <4>5. run.next - 1 \in 0 .. run.next - 1 /\ pos \in 1 .. len + 1
        BY <1>1, <1>5, <4>1
      <4> QED
        BY <4>4, <4>5
    <3> QED
      BY <3>2, <3>3
  <2> QED
    BY <2>1, <2>2
<1>19. RunCalls(run2, arrs2)
  BY <1>2, <1>16, <1>17, <1>18 DEF RunCalls, len
<1> QED
  BY <1>11, <1>12, <1>19 DEF RunInv, run2, Noted

\* A run that begins has what its table shows.
LEMMA RunStarts ==
  ASSUME NEW arrs, NEW heads, Stores(arrs, heads), TablesApart(heads), NEW k \in Hooks,
         NEW history, Tabulated(Shown(arrs, heads[k]), history)
  PROVE  RunInv([kind |-> k, slice |-> heads[k], at |-> "loop", next |-> 1, current |-> <<>>,
                 calls |-> <<>>, before |-> Shown(arrs, heads[k]), grown |-> 0], arrs, heads)
<1> DEFINE shown == Shown(arrs, heads[k])
           run == [kind |-> k, slice |-> heads[k], at |-> "loop", next |-> 1, current |-> <<>>,
                   calls |-> <<>>, before |-> shown, grown |-> 0]
<1>1. arrs \in Seq(Seq(Slots)) /\ heads[k] \in Slices /\ IsSlice(arrs, heads[k])
  BY DEF Stores
<1>2. shown \in Seq(Handlers) /\ Ascending(shown)
  BY TabulatedAscends DEF Tabulated
<1>3. Len(shown) = heads[k].len /\ \A n \in 1 .. heads[k].len : shown[n] = arrs[heads[k].array][n]
  BY <1>1, ShownIs
<1> HIDE DEF shown
<1>4. \A n \in 1 .. heads[k].len : arrs[heads[k].array][n] \in Handlers
  BY <1>2, <1>3
<1>5. heads[k].len \in Nat
  BY <1>1 DEF Slices
<1>6. run \in RunRecords
  BY <1>1, <1>2 DEF RunRecords
<1>7. \A l \in Hooks : l # k /\ heads[k].array # 0 => heads[k].array # heads[l].array
  BY DEF TablesApart
<1>8. RunShape(run, arrs, heads)
  <2>1. 1 \in 1 .. heads[k].len + 1 /\ Len(<<>>) = 1 - 1
    BY <1>5
  <2> QED
    BY <1>1, <1>2, <1>3, <1>4, <1>5, <1>6, <1>7, <2>1 DEF RunShape
<1>9. RunValue(run)
  BY DEF RunValue
<1>10. Unmoved(run, arrs)
  BY <1>3 DEF Unmoved
<1>11. RunCalls(run, arrs)
  BY <1>10 DEF RunCalls
<1> QED
  BY <1>8, <1>9, <1>11 DEF RunInv, shown

\* A run that goes on calls what is in the array it is over, which is the list it began with
\* or that list with one more handler.
LEMMA RunCallsNext ==
  ASSUME NEW arrs, NEW heads, NEW run, RunInv(run, arrs, heads),
         run.at = "loop", run.next <= run.slice.len
  PROVE  RunInv([run EXCEPT !.at = "handler", !.next = @ + 1,
                            !.calls = Append(@, arrs[run.slice.array][run.next])], arrs, heads)
<1> DEFINE h == arrs[run.slice.array][run.next]
           len == run.slice.len
           next == run.next
           run2 == [run EXCEPT !.at = "handler", !.next = @ + 1, !.calls = Append(@, h)]
<1>1. /\ run \in RunRecords /\ run.slice \in Slices /\ len \in Nat /\ run.grown \in Nat /\ next \in Nat
      /\ run.before \in Seq(Handlers) /\ run.calls \in Seq(Handlers) /\ run.kind \in Hooks
      /\ run.current \in Seq(Handlers)
  BY DEF RunInv, RunShape, RunRecords, Slices
<1>2. next \in 1 .. len + 1 /\ Len(run.calls) = next - 1 /\ Len(run.before) = len
      /\ \A n \in 1 .. len : arrs[run.slice.array][n] \in Handlers
  BY DEF RunInv, RunShape
<1>3. next \in 1 .. len /\ h \in Handlers
  BY <1>1, <1>2
<1>4. Append(run.calls, h) \in Seq(Handlers) /\ Len(Append(run.calls, h)) = next
  BY <1>1, <1>2, <1>3
<1>5. /\ run2 \in RunRecords /\ run2.at = "handler" /\ run2.next = next + 1 /\ run2.calls = Append(run.calls, h)
      /\ run2.kind = run.kind /\ run2.slice = run.slice /\ run2.current = run.current
      /\ run2.before = run.before /\ run2.grown = run.grown
  <2> HIDE DEF h
  <2> DEFINE more == next + 1
             calls == Append(run.calls, h)
  <2>1. more \in Nat /\ calls \in Seq(Handlers)
    BY <1>1, <1>4
  <2>2. run2 = [run EXCEPT !.at = "handler", !.next = more, !.calls = calls]
    BY <1>1 DEF RunRecords
  <2> HIDE DEF run2, more, calls, next
  <2>3. /\ run2 \in RunRecords /\ run2.at = "handler" /\ run2.next = more /\ run2.calls = calls
        /\ run2.kind = run.kind /\ run2.slice = run.slice /\ run2.current = run.current
        /\ run2.before = run.before /\ run2.grown = run.grown
    BY <1>1, <2>1, <2>2 DEF RunRecords
  <2> QED
    BY <2>3 DEF more, calls
<1> HIDE DEF run2, next, len
<1>6. next + 1 \in 1 .. len + 1 /\ next + 1 - 1 = next
  BY <1>1, <1>3
<1>6a. run2.next - 1 = next
  <2>1. run2.next = next + 1
    BY <1>5
  <2>2. next \in Nat
    BY <1>1
  <2> QED
    BY <2>1, <2>2
<1>7. RunShape(run2, arrs, heads)
  <2>1. /\ IsSlice(arrs, run.slice)
        /\ \A l \in Hooks : l # run.kind /\ run.slice.array # 0 => run.slice.array # heads[l].array
        /\ run.slice.array = heads[run.kind].array => run.slice.len <= heads[run.kind].len
        /\ run.grown = 0 => run.slice = heads[run.kind]
        /\ Ascending(run.before)
    BY DEF RunInv, RunShape
  <2> QED
    BY <1>2, <1>4, <1>5, <1>6, <2>1 DEF RunShape, len
<1>8. RunValue(run2)
  <2>1. run.kind = "filter" => run.current = run.calls
    BY DEF RunInv, RunValue
  <2>2. Last(Append(run.calls, h)) = h
    BY <1>1, <1>3 DEF Last
  <2>3. Len(Append(run.calls, h)) >= 1
    BY <1>3, <1>4
  <2> QED
    BY <1>5, <2>1, <2>2, <2>3 DEF RunValue
<1>9. /\ \A n \in 1 .. next - 1 : Append(run.calls, h)[n] = run.calls[n]
      /\ Append(run.calls, h)[next] = h
  BY <1>1, <1>2
<1>10. \A n \in 1 .. next : n = next \/ n \in 1 .. next - 1
  BY <1>1
<1>11. Unmoved(run, arrs) => Unmoved(run2, arrs)
  <2> SUFFICES ASSUME Unmoved(run, arrs) PROVE Unmoved(run2, arrs)
    OBVIOUS
  <2>1. \A n \in 1 .. len : arrs[run.slice.array][n] = run.before[n]
    BY DEF Unmoved, len
  <2>2. \A n \in 1 .. next - 1 : run.calls[n] = run.before[n]
    BY DEF Unmoved, next
  <2>3. h = run.before[next]
    BY <1>3, <2>1 DEF next
  <2>4. \A n \in 1 .. next : Append(run.calls, h)[n] = run.before[n]
    BY <1>9, <1>10, <2>2, <2>3
  <2> QED
    BY <1>5, <1>6a, <2>1, <2>4 DEF Unmoved, len
<1>12. ASSUME NEW h1, NEW pos, NEW made \in 0 .. next - 1, Moved(run, arrs, h1, pos, made)
       PROVE  Moved(run2, arrs, h1, pos, made)
  <2> DEFINE wider == Inserted(run.before, h1, pos)
  <2>1. /\ FitsAt(run.before, h1, pos)
        /\ \A n \in 1 .. len : arrs[run.slice.array][n] = wider[n]
        /\ \A n \in 1 .. next - 1 : run.calls[n] = IF n <= made THEN run.before[n] ELSE wider[n]
    BY <1>12 DEF Moved, len, next
  <2> HIDE DEF wider
  <2>2. h = wider[next] /\ ~(next <= made)
    BY <1>1, <1>3, <2>1 DEF next
  <2>3. \A n \in 1 .. next : Append(run.calls, h)[n] = IF n <= made THEN run.before[n] ELSE wider[n]
    BY <1>9, <1>10, <2>1, <2>2
  <2> QED
    BY <1>5, <1>6a, <2>1, <2>3 DEF Moved, len, wider
<1>13. \A made \in 0 .. next - 1 : made \in 0 .. next
  BY <1>1
<1>14. RunCalls(run2, arrs)
  <2>1. RunCalls(run, arrs)
    BY DEF RunInv
  <2> QED
    <3>1. /\ run.grown = 0 \/ Room(arrs, run.slice) = len => Unmoved(run, arrs)
          /\ run.grown = 1 => \/ Unmoved(run, arrs)
                              \/ \E h1 \in Handlers, pos \in 1 .. len + 1, made \in 0 .. next - 1 :
                                   Moved(run, arrs, h1, pos, made)
      BY <2>1 DEF RunCalls, len, next
    <3>2. run.grown = 1 => \/ Unmoved(run2, arrs)
                           \/ \E h1 \in Handlers, pos \in 1 .. len + 1, made \in 0 .. next :
                                Moved(run2, arrs, h1, pos, made)
      BY <1>11, <1>12, <1>13, <3>1
    <3> QED
      BY <1>5, <1>6a, <1>11, <3>1, <3>2 DEF RunCalls, len
<1> QED
  BY <1>7, <1>8, <1>14 DEF RunInv, run2

\* A handler that returns, or fails, changes what its run answers and nothing else.
LEMMA RunAnswers ==
  ASSUME NEW arrs, NEW heads, NEW run, RunInv(run, arrs, heads), run.at = "handler"
  PROVE  /\ RunInv([run EXCEPT !.at = "loop",
                               !.current = IF run.kind = "filter" THEN Append(@, Last(run.calls)) ELSE @], arrs, heads)
         /\ RunInv([run EXCEPT !.at = "failed", !.current = <<>>], arrs, heads)
<1>1. run \in RunRecords /\ run.calls \in Seq(Handlers) /\ run.current \in Seq(Handlers) /\ Len(run.calls) >= 1
  BY DEF RunInv, RunShape, RunRecords, RunValue
<1>2. Last(run.calls) \in Handlers
  BY <1>1 DEF Last
<1>3. ASSUME NEW at \in {"loop", "failed"}, NEW value \in Seq(Handlers),
             at = "failed" => value = <<>>, at = "loop" /\ run.kind = "filter" => value = run.calls
      PROVE  RunInv([run EXCEPT !.at = at, !.current = value], arrs, heads)
  <2> DEFINE run2 == [run EXCEPT !.at = at, !.current = value]
  <2>1. /\ run2 \in RunRecords /\ run2.at = at /\ run2.current = value /\ run2.kind = run.kind
        /\ run2.slice = run.slice /\ run2.next = run.next /\ run2.calls = run.calls
        /\ run2.before = run.before /\ run2.grown = run.grown
    BY <1>1 DEF RunRecords
  <2> HIDE DEF run2
  <2>2. RunShape(run2, arrs, heads)
    BY <2>1 DEF RunInv, RunShape
  <2>3. RunValue(run2)
    BY <1>3, <2>1 DEF RunValue
  <2>4. Unmoved(run2, arrs) <=> Unmoved(run, arrs)
    BY <2>1 DEF Unmoved
  <2>5. \A h, pos, made : Moved(run2, arrs, h, pos, made) <=> Moved(run, arrs, h, pos, made)
    BY <2>1 DEF Moved
  <2>6. RunCalls(run2, arrs)
    BY <2>1, <2>4, <2>5 DEF RunInv, RunCalls
  <2> QED
    BY <2>2, <2>3, <2>6 DEF RunInv, run2
<1>4. RunInv([run EXCEPT !.at = "failed", !.current = <<>>], arrs, heads)
  <2>1. <<>> \in Seq(Handlers)
    OBVIOUS
  <2> QED
    BY <1>3, <2>1, Zenon
<1>5. RunInv([run EXCEPT !.at = "loop",
                         !.current = IF run.kind = "filter" THEN Append(@, Last(run.calls)) ELSE @], arrs, heads)
  <2> DEFINE value == IF run.kind = "filter" THEN Append(run.current, Last(run.calls)) ELSE run.current
  <2>1. value \in Seq(Handlers)
    BY <1>1, <1>2
  <2>2. run.kind = "filter" => value = run.calls
    BY DEF RunInv, RunValue
  <2>3. RunInv([run EXCEPT !.at = "loop", !.current = value], arrs, heads)
    <3> HIDE DEF value
    <3> QED
      BY <1>3, <2>1, <2>2
  <2>4. [run EXCEPT !.at = "loop", !.current = value] =
          [run EXCEPT !.at = "loop",
                      !.current = IF run.kind = "filter" THEN Append(@, Last(run.calls)) ELSE @]
    BY <1>1 DEF RunRecords
  <2> QED
    BY <2>3, <2>4
<1> QED
  BY <1>4, <1>5

\* Every step keeps the invariant.
LEMMA BusStep == BusInv /\ [BusNext]_busVars => BusInv'
<1> SUFFICES ASSUME BusInv, [BusNext]_busVars PROVE BusInv'
  OBVIOUS
<1>1. /\ Stores(arrays, bus) /\ TablesApart(bus) /\ added \in [Hooks -> Seq(Handlers)]
      /\ \A k \in Hooks : Once(added[k]) /\ Tabulated(Shown(arrays, bus[k]), added[k])
      /\ runs \in Seq(RunRecords) /\ \A i \in 1 .. Len(runs) : RunInv(runs[i], arrays, bus)
  BY DEF BusInv
<1>2. ASSUME NEW k \in Hooks, StartRun(k) PROVE BusInv'
  <2> DEFINE run == [kind |-> k, slice |-> bus[k], at |-> "loop", next |-> 1, current |-> <<>>,
                     calls |-> <<>>, before |-> Shown(arrays, bus[k]), grown |-> 0]
  <2>1. RunInv(run, arrays, bus)
    BY <1>1, RunStarts
  <2>2. runs' = Append(runs, run) /\ UNCHANGED <<arrays, bus, added>>
    BY <1>2 DEF StartRun, Registered, Elements, Shown
  <2> HIDE DEF run
  <2>3. run \in RunRecords
    BY <2>1 DEF RunInv, RunShape
  <2>4. runs' \in Seq(RunRecords)
    BY <1>1, <2>2, <2>3
  <2>5. \A i \in 1 .. Len(runs') : RunInv(runs'[i], arrays, bus)
    <3> TAKE i \in 1 .. Len(runs')
    <3>1. CASE i = Len(runs) + 1
      BY <1>1, <2>1, <2>2, <3>1
    <3>2. CASE i # Len(runs) + 1
      <4>1. i \in 1 .. Len(runs) /\ runs'[i] = runs[i]
        BY <1>1, <2>2, <3>2
      <4> QED
        BY <1>1, <4>1
    <3> QED
      BY <3>1, <3>2
  <2> QED
    BY <1>1, <2>2, <2>4, <2>5 DEF BusInv
<1>3. ASSUME NEW k \in Hooks, NEW h \in Handlers, Add(k, h) PROVE BusInv'
  <2> DEFINE old == Shown(arrays, bus[k])
             list == Sorted(Append(old, h))
  <2>1. old \in Seq(Handlers) /\ Ascending(old)
    BY <1>1, TabulatedAscends DEF Tabulated
  <2>2. arrays \in Seq(Seq(Slots)) /\ bus[k] \in Slices /\ IsSlice(arrays, bus[k])
    BY <1>1 DEF Stores
  <2>3. Len(old) = bus[k].len /\ \A n \in 1 .. bus[k].len : old[n] = arrays[bus[k].array][n]
    BY <2>2, ShownIs
  <2>4. PICK pos \in 1 .. Len(old) + 1 : list = Inserted(old, h, pos) /\ FitsAt(old, h, pos)
    <3> HIDE DEF old
    <3> QED
      BY <2>1, SortedInserts
  <2>5. list \in Seq(Handlers) /\ Len(list) = bus[k].len + 1
    <3> HIDE DEF old, list
    <3> QED
      BY <2>1, <2>3, <2>4, InsertedIs
  <2>6. old = Registered(k)
    BY DEF Registered, Elements, Shown
  <2>7. Stores(arrays', bus') /\ Grew(arrays, bus, arrays', bus', k, list)
    <3>1. \/ /\ Spare(bus[k]) > 0
             /\ arrays' = [arrays EXCEPT ![bus[k].array] = Padded(list, Len(@))]
             /\ bus' = [bus EXCEPT ![k].len = @ + 1]
          \/ /\ Spare(bus[k]) = 0
             /\ arrays' = Append(arrays, Padded(list, IF bus[k].array = 0 THEN 1 ELSE 2 * Capacity(bus[k])))
             /\ bus' = [bus EXCEPT ![k] = [array |-> Len(arrays) + 1, len |-> @.len + 1]]
      <4> HIDE DEF old
      <4> QED
        BY <1>3, <2>6, Zenon DEF Add
    <3> HIDE DEF list, old
    <3> QED
      BY <1>1, <2>5, <3>1, AddGrows
  <2>8. /\ h \notin ToSet(added[k]) /\ added' = [added EXCEPT ![k] = Append(@, h)]
        /\ runs' = [i \in DOMAIN runs |-> IF runs[i].kind = k
                                          THEN [runs[i] EXCEPT !.grown = @ + 1] ELSE runs[i]]
    BY <1>3 DEF Add
  <2> HIDE DEF old, list
  <2>9. Tabulated(list, Append(added[k], h)) /\ Once(Append(added[k], h))
    <3>1. added[k] \in Seq(Handlers) /\ Tabulated(old, added[k]) /\ Once(added[k])
      BY <1>1 DEF old
    <3> QED
      BY <2>4, <2>8, <3>1, InsertKeeps
  <2>10. added' \in [Hooks -> Seq(Handlers)]
    BY <1>1, <2>8
  <2>11. /\ arrays' \in Seq(Seq(Slots)) /\ \A l \in Hooks : bus'[l] \in Slices /\ IsSlice(arrays', bus'[l])
         /\ \A l \in Hooks : bus[l] \in Slices /\ IsSlice(arrays, bus[l])
    BY <1>1, <2>7 DEF Stores
  <2>12. /\ Len(arrays) <= Len(arrays')
         /\ \A l \in Hooks : l # k => bus'[l] = bus[l]
         /\ bus'[k].len = bus[k].len + 1 /\ bus'[k].array # 0
         /\ bus'[k].array = bus[k].array \/ bus'[k].array = Len(arrays) + 1
         /\ \A b \in 1 .. Len(arrays) : b # bus'[k].array => arrays'[b] = arrays[b]
         /\ \A n \in 1 .. bus[k].len + 1 : arrays'[bus'[k].array][n] = list[n]
    BY <2>7 DEF Grew
  <2>13. \A l \in Hooks : bus[l].array \in 0 .. Len(arrays) /\ bus[l].len \in Nat
    BY <2>11 DEF IsSlice, Slices
  <2>14. ASSUME NEW l \in Hooks, l # k, bus[l].array # 0 PROVE bus[l].array # bus'[k].array
    <3>1. bus[l].array # bus[k].array
      BY <1>1, <2>14 DEF TablesApart
    <3>2. bus[l].array # Len(arrays) + 1
      BY <2>2, <2>13
    <3> QED
      BY <2>12, <3>1, <3>2
  <2>15. TablesApart(bus')
    <3>1. \A l, m \in Hooks : l # m /\ bus[l].array # 0 => bus[l].array # bus[m].array
      BY <1>1 DEF TablesApart
    <3>2. SUFFICES ASSUME NEW l \in Hooks, NEW m \in Hooks, l # m, bus'[l].array # 0
                   PROVE  bus'[l].array # bus'[m].array
      BY DEF TablesApart
    <3>3. CASE l = k
      BY <2>12, <2>14, <3>2, <3>3
    <3>4. CASE m = k
      BY <2>12, <2>14, <3>2, <3>4
    <3>5. CASE l # k /\ m # k
      BY <2>12, <3>1, <3>2, <3>5
    <3> QED
      BY <3>3, <3>4, <3>5
  <2>16. ASSUME NEW l \in Hooks
         PROVE  Once(added'[l]) /\ Tabulated(Shown(arrays', bus'[l]), added'[l])
    <3>1. CASE l = k
      <4>1. Shown(arrays', bus'[k]) = list
        <5>1. list \in Seq(Slots)
          BY <2>5 DEF Slots
        <5>2. Len(list) = bus'[k].len /\ \A n \in 1 .. bus'[k].len : arrays'[bus'[k].array][n] = list[n]
          BY <2>5, <2>12
        <5> QED
          BY <2>11, <5>1, <5>2, ShownIsThat
      <4>2. added'[k] = Append(added[k], h)
        BY <1>1, <2>8
      <4> QED
        BY <2>9, <3>1, <4>1, <4>2
    <3>2. CASE l # k
      <4>1. bus'[l] = bus[l] /\ added'[l] = added[l]
        BY <1>1, <2>8, <2>12, <3>2
      <4>2. Shown(arrays', bus[l]) = Shown(arrays, bus[l])
        <5>1. CASE bus[l].len = 0
          BY <5>1 DEF Shown
        <5>2. CASE bus[l].len # 0
          <6>1. bus[l].array # 0
            BY <2>11, <2>13, <5>2 DEF IsSlice, Room
          <6>2. arrays'[bus[l].array] = arrays[bus[l].array]
            BY <2>12, <2>13, <2>14, <3>2, <6>1
          <6> QED
            BY <6>2 DEF Shown
        <5> QED
          BY <5>1, <5>2
      <4> QED
        BY <1>1, <4>1, <4>2
    <3> QED
      BY <3>1, <3>2
  <2>17. ASSUME NEW i \in 1 .. Len(runs)
         PROVE  /\ runs'[i] = (IF runs[i].kind = k THEN [runs[i] EXCEPT !.grown = @ + 1] ELSE runs[i])
                /\ RunInv(runs'[i], arrays', bus')
    <3>1. runs'[i] = (IF runs[i].kind = k THEN [runs[i] EXCEPT !.grown = @ + 1] ELSE runs[i])
      BY <1>1, <2>8
    <3>2. RunInv(runs[i], arrays, bus)
      BY <1>1
    <3>3. RunInv(Noted(runs[i], k), arrays', bus')
      <4>1. \A n \in 1 .. Len(old) : old[n] = arrays[bus[k].array][n]
        BY <2>3
      <4>2. Grew(arrays, bus, arrays', bus', k, Inserted(old, h, pos))
        BY <2>4, <2>7
      <4> QED
        <5>1. Stores(arrays, bus) /\ Stores(arrays', bus') /\ old \in Seq(Handlers) /\ Len(old) = bus[k].len
          BY <1>1, <2>1, <2>3, <2>7
        <5>2. FitsAt(old, h, pos)
          BY <2>4
        <5> QED
          BY <3>2, <4>1, <4>2, <5>1, <5>2, RunGrows
    <3> QED
      BY <3>1, <3>3 DEF Noted
  <2>18. runs' \in Seq(RunRecords) /\ Len(runs') = Len(runs)
    <3>1. \A i \in 1 .. Len(runs) : runs'[i] \in RunRecords
      BY <2>17 DEF RunInv, RunShape
    <3>2. DOMAIN runs = 1 .. Len(runs) /\ Len(runs) \in Nat
      BY <1>1
    <3>3. runs' \in [1 .. Len(runs) -> RunRecords]
      BY <2>8, <3>1, <3>2
    <3> QED
      BY <3>2, <3>3
  <2> QED
    BY <2>7, <2>10, <2>15, <2>16, <2>17, <2>18 DEF BusInv
<1>4. ASSUME runs # <<>>, NEW run, RunInv(run, arrays, bus),
             runs' = [runs EXCEPT ![Len(runs)] = run], UNCHANGED <<arrays, bus, added>>
      PROVE  BusInv'
  <2>1. run \in RunRecords
    BY <1>4 DEF RunInv, RunShape
  <2>2. Len(runs) \in 1 .. Len(runs)
    BY <1>1, <1>4
  <2>3. runs' \in Seq(RunRecords) /\ Len(runs') = Len(runs)
    BY <1>1, <1>4, <2>1, <2>2
  <2>4. \A i \in 1 .. Len(runs) : runs'[i] = IF i = Len(runs) THEN run ELSE runs[i]
    BY <1>1, <1>4
  <2>5. \A i \in 1 .. Len(runs') : RunInv(runs'[i], arrays, bus)
    BY <1>1, <1>4, <2>3, <2>4
  <2> QED
    BY <1>1, <1>4, <2>3, <2>5 DEF BusInv
<1>5. runs # <<>> => RunInv(Last(runs), arrays, bus)
  BY <1>1 DEF Last
<1>6. ASSUME Call PROVE BusInv'
  <2> DEFINE run == Last(runs)
  <2>1. /\ runs # <<>> /\ run.at = "loop" /\ run.next <= run.slice.len /\ UNCHANGED <<arrays, bus, added>>
        /\ runs' = [runs EXCEPT ![Len(runs)] =
                      [run EXCEPT !.at = "handler", !.next = @ + 1,
                                  !.calls = Append(@, arrays[run.slice.array][run.next])]]
    BY <1>6 DEF Call, Innermost
  <2> HIDE DEF run
  <2>2. RunInv([run EXCEPT !.at = "handler", !.next = @ + 1,
                           !.calls = Append(@, arrays[run.slice.array][run.next])], arrays, bus)
    BY <1>5, <2>1, RunCallsNext DEF run
  <2> QED
    BY <1>4, <2>1, <2>2
<1>7. ASSUME Return PROVE BusInv'
  <2> DEFINE run == Last(runs)
  <2>1. /\ runs # <<>> /\ run.at = "handler" /\ UNCHANGED <<arrays, bus, added>>
        /\ runs' = [runs EXCEPT ![Len(runs)] =
                      [run EXCEPT !.at = "loop",
                                  !.current = IF run.kind = "filter" THEN Append(@, Last(run.calls)) ELSE @]]
    BY <1>7 DEF Return, Innermost
  <2> HIDE DEF run
  <2>2. RunInv([run EXCEPT !.at = "loop",
                           !.current = IF run.kind = "filter" THEN Append(@, Last(run.calls)) ELSE @], arrays, bus)
    BY <1>5, <2>1, RunAnswers DEF run
  <2> QED
    BY <1>4, <2>1, <2>2
<1>8. ASSUME Fail PROVE BusInv'
  <2> DEFINE run == Last(runs)
  <2>1. /\ runs # <<>> /\ run.at = "handler" /\ UNCHANGED <<arrays, bus, added>>
        /\ runs' = [runs EXCEPT ![Len(runs)] = [run EXCEPT !.at = "failed", !.current = <<>>]]
    BY <1>8 DEF Fail, Innermost
  <2> HIDE DEF run
  <2>2. RunInv([run EXCEPT !.at = "failed", !.current = <<>>], arrays, bus)
    BY <1>5, <2>1, RunAnswers DEF run
  <2> QED
    BY <1>4, <2>1, <2>2
<1>9. ASSUME EndRun PROVE BusInv'
  <2>1. runs # <<>> /\ runs' = SubSeq(runs, 1, Len(runs) - 1) /\ UNCHANGED <<arrays, bus, added>>
    BY <1>9 DEF EndRun, Front
  <2>2. /\ runs' \in Seq(RunRecords) /\ Len(runs') = Len(runs) - 1
        /\ \A i \in 1 .. Len(runs) - 1 : runs'[i] = runs[i] /\ i \in 1 .. Len(runs)
    <3>1. Len(runs) \in Nat \ {0} /\ Len(runs) - 1 \in Nat /\ Len(runs) - 1 <= Len(runs)
      BY <1>1, <2>1
    <3>2. runs' \in Seq(RunRecords) /\ Len(runs') = Len(runs) - 1
      <4>1. ASSUME NEW m \in Nat, m <= Len(runs)
            PROVE  SubSeq(runs, 1, m) \in Seq(RunRecords) /\ Len(SubSeq(runs, 1, m)) = m
        BY <1>1, <4>1
      <4> QED
        BY <2>1, <3>1, <4>1
    <3>3. \A i \in 1 .. Len(runs) - 1 : i \in 1 .. Len(runs)
      BY <3>1
    <3>4. \A i \in 1 .. Len(runs) - 1 : runs'[i] = runs[i]
      BY <1>1, <2>1, <3>1
    <3> QED
      BY <3>2, <3>3, <3>4
  <2>3. \A i \in 1 .. Len(runs') : RunInv(runs'[i], arrays, bus)
    BY <1>1, <2>2
  <2> QED
    BY <1>1, <2>1, <2>2, <2>3 DEF BusInv
<1>10. ASSUME UNCHANGED busVars PROVE BusInv'
  BY <1>1, <1>10 DEF BusInv, busVars
<1> QED
  BY <1>2, <1>3, <1>6, <1>7, <1>8, <1>9, <1>10 DEF BusNext

\* The tables and the runs have their types.
LEMMA BusTypes == BusInv => BusTypeOK
<1> SUFFICES ASSUME BusInv PROVE BusTypeOK
  OBVIOUS
<1>1. /\ arrays \in Seq(Seq(Slots)) /\ \A k \in Hooks : bus[k] \in Slices /\ IsSlice(arrays, bus[k])
      /\ \A i \in 1 .. Len(runs) : RunInv(runs[i], arrays, bus)
  BY DEF BusInv, Stores
<1>2. \A a \in DOMAIN arrays : arrays[a] \in Seq(Handlers \cup {NoHandler})
  BY <1>1 DEF Slots
<1>3. ASSUME NEW k \in Hooks PROVE bus[k].array \in 0 .. Len(arrays) /\ Spare(bus[k]) >= 0
  <2>1. bus[k].array \in 0 .. Len(arrays) /\ bus[k].len \in Nat /\ bus[k].len <= Room(arrays, bus[k])
    BY <1>1 DEF IsSlice, Slices
  <2>2. Spare(bus[k]) = Room(arrays, bus[k]) - bus[k].len
    BY DEF Spare, Capacity, Room
  <2>3. Room(arrays, bus[k]) \in Nat
    BY <1>1, <2>1 DEF Room
  <2> QED
    BY <2>1, <2>2, <2>3
<1>4. ASSUME NEW i \in 1 .. Len(runs)
      PROVE  /\ runs[i].kind \in Hooks
             /\ runs[i].at \in {"loop", "handler", "failed"}
             /\ runs[i].next \in 1 .. (runs[i].slice.len + 1)
             /\ runs[i].calls \in Seq(Handlers)
  <2>1. RunShape(runs[i], arrays, bus)
    BY <1>1 DEF RunInv
  <2> QED
    BY <2>1 DEF RunShape, RunRecords
<1>5. DOMAIN runs = 1 .. Len(runs)
  BY DEF BusInv
<1> QED
  BY <1>2, <1>3, <1>4, <1>5 DEF BusTypeOK

\* When a handler was added.
AddedAt(k, h) == CHOOSE t \in DOMAIN added[k] : added[k][t] = h

\* The tables are in order.
LEMMA TablesInOrder == BusInv => RegisteredInOrder
<1> SUFFICES ASSUME BusInv PROVE RegisteredInOrder
  OBVIOUS
<1>1. BusTypeOK
  BY BusTypes
<1>2. ASSUME NEW k \in Hooks
      PROVE  /\ Len(Registered(k)) = Len(added[k])
             /\ ToSet(Registered(k)) = ToSet(added[k])
             /\ \A i, j \in DOMAIN Registered(k) : i < j =>
                  \/ Priority[Registered(k)[i]] < Priority[Registered(k)[j]]
                  \/ /\ Priority[Registered(k)[i]] = Priority[Registered(k)[j]]
                     /\ AddedAt(k, Registered(k)[i]) < AddedAt(k, Registered(k)[j])
  <2> DEFINE list == Registered(k)
             history == added[k]
  <2>1. list = Shown(arrays, bus[k])
    BY DEF Registered, Elements, Shown
  <2>2. Tabulated(list, history) /\ history \in Seq(Handlers)
    BY <2>1 DEF BusInv
  <2> HIDE DEF list
  <2>3. Len(list) = Len(history) /\ ToSet(list) = ToSet(history) /\ list \in Seq(Handlers)
    BY <2>2 DEF Tabulated
  <2>4. DOMAIN list = 1 .. Len(list) /\ DOMAIN history = 1 .. Len(history)
    BY <2>2, <2>3
  <2>5. ASSUME NEW i \in 1 .. Len(list)
        PROVE  AddedAt(k, list[i]) \in 1 .. Len(history) /\ history[AddedAt(k, list[i])] = list[i]
    <3>1. list[i] \in ToSet(list)
      BY <2>4 DEF ToSet
    <3>2. \E t \in DOMAIN history : history[t] = list[i]
      BY <2>3, <3>1 DEF ToSet
    <3> QED
      BY <2>4, <3>2 DEF AddedAt
  <2>6. ASSUME NEW i \in 1 .. Len(list), NEW j \in 1 .. Len(list), i < j
        PROVE  \/ Priority[list[i]] < Priority[list[j]]
               \/ Priority[list[i]] = Priority[list[j]] /\ AddedAt(k, list[i]) < AddedAt(k, list[j])
    <3>1. \/ Priority[list[i]] < Priority[list[j]]
          \/ /\ Priority[list[i]] = Priority[list[j]]
             /\ \A s, t \in 1 .. Len(history) : history[s] = list[i] /\ history[t] = list[j] => s < t
      BY <2>2, <2>6 DEF Tabulated
    <3> QED
      BY <2>5, <3>1
  <2> QED
    BY <2>3, <2>4, <2>6 DEF list
<1> QED
  BY <1>1, <1>2 DEF RegisteredInOrder, AddedAt

\* A run that is over the list it began with calls it in order.
LEMMA CallsArePrefix ==
  ASSUME NEW arrs, NEW heads, NEW run, RunInv(run, arrs, heads), Unmoved(run, arrs)
  PROVE  IsPrefix(run.calls, run.before)
<1> DEFINE calls == run.calls
           before == run.before
<1>1. /\ calls \in Seq(Handlers) /\ before \in Seq(Handlers) /\ run.slice.len \in Nat
      /\ run.next \in 1 .. run.slice.len + 1 /\ Len(calls) = run.next - 1 /\ Len(before) = run.slice.len
  BY DEF RunInv, RunShape, RunRecords, Slices
<1>2. \A n \in 1 .. run.next - 1 : calls[n] = before[n]
  BY DEF Unmoved
<1> HIDE DEF calls, before
<1>3. Len(calls) \in Nat /\ Len(calls) <= Len(before)
  BY <1>1
<1>4. \A n \in 1 .. Len(calls) : calls[n] = before[n]
  BY <1>1, <1>2
<1>5. SubSeq(calls, 1, Len(calls)) = [n \in 1 .. Len(calls) |-> calls[n]]
  BY <1>1, <1>3
<1>6. SubSeq(before, 1, Len(calls)) = [n \in 1 .. Len(calls) |-> before[n]]
  BY <1>1, <1>3
<1>7. SubSeq(calls, 1, Len(calls)) = SubSeq(before, 1, Len(calls))
  BY <1>4, <1>5, <1>6
<1> QED
  BY <1>3, <1>7 DEF IsPrefix, calls, before

\* A run over a list into which a handler was put goes on by priority, and leaves out the
\* last handler it began with, if any.
LEMMA MovedIsOrdered ==
  ASSUME NEW arrs, NEW heads, NEW run, RunInv(run, arrs, heads), NEW h \in Handlers,
         NEW pos \in 1 .. run.slice.len + 1, NEW made \in 0 .. run.next - 1, Moved(run, arrs, h, pos, made)
  PROVE  /\ \A x, y \in 1 .. Len(run.calls) : x < y => Priority[run.calls[x]] <= Priority[run.calls[y]]
         /\ run.next > run.slice.len =>
              \A n \in 1 .. Len(run.before) : n < Len(run.before) => run.before[n] \in ToSet(run.calls)
<1> DEFINE calls == run.calls
           before == run.before
           len == run.slice.len
           next == run.next
           wider == Inserted(before, h, pos)
<1>1. /\ calls \in Seq(Handlers) /\ before \in Seq(Handlers) /\ len \in Nat /\ next \in 1 .. len + 1
      /\ Len(calls) = next - 1 /\ Len(before) = len /\ Ascending(before)
  BY DEF RunInv, RunShape, RunRecords, Slices
<1>2. /\ FitsAt(before, h, pos)
      /\ \A n \in 1 .. next - 1 : calls[n] = IF n <= made THEN before[n] ELSE wider[n]
  BY DEF Moved
<1>3. \A n \in 1 .. len : before[n] \in Handlers
  BY <1>1
<1>4. \A n \in 1 .. len : Priority[before[n]] \in Int
  BY <1>3, BusAssumption
<1>5. Priority[h] \in Int
  BY BusAssumption
<1>6. \A n \in 1 .. len + 1 :
         /\ n < pos => n \in 1 .. len /\ wider[n] = before[n]
         /\ n = pos => wider[n] = h
         /\ pos < n => n - 1 \in 1 .. len /\ wider[n] = before[n - 1]
  <2>1. before \in Seq(Handlers) /\ pos \in 1 .. Len(before) + 1 /\ Len(before) = len
    BY <1>1
  <2> HIDE DEF before, len
  <2>2. \A n \in 1 .. Len(before) + 1 :
          /\ n < pos => n \in 1 .. Len(before) /\ Inserted(before, h, pos)[n] = before[n]
          /\ n = pos => Inserted(before, h, pos)[n] = h
          /\ pos < n => n - 1 \in 1 .. Len(before) /\ Inserted(before, h, pos)[n] = before[n - 1]
    BY <2>1, InsertedIs
  <2> QED
    BY <2>1, <2>2 DEF wider
<1>7. pos \in 1 .. len + 1 /\ made \in 0 .. next - 1
  OBVIOUS
<1> HIDE DEF calls, before, len, next, wider
<1>8. \A m, n \in 1 .. len : m <= n => Priority[before[m]] <= Priority[before[n]]
  BY <1>1, <1>4 DEF Ascending
<1>9. \A n \in 1 .. len : IF n < pos THEN Priority[before[n]] <= Priority[h] ELSE Priority[h] < Priority[before[n]]
  BY <1>1, <1>2 DEF FitsAt
<1>10. ASSUME NEW x \in 1 .. next - 1, NEW y \in 1 .. next - 1, x < y
       PROVE  Priority[calls[x]] <= Priority[calls[y]]
  <2>1. x \in 1 .. len /\ y \in 1 .. len /\ x \in 1 .. len + 1 /\ y \in 1 .. len + 1
    BY <1>1
  <2>2. CASE y <= made
    BY <1>2, <1>7, <1>8, <1>10, <2>1, <2>2
  <2>3. CASE ~(y <= made) /\ y < pos
    <3>1. calls[y] = before[y]
      BY <1>2, <1>6, <2>1, <2>3
    <3>2. calls[x] = before[x]
      <4>1. x < pos
        BY <1>7, <1>10, <2>1, <2>3
      <4> QED
        BY <1>2, <1>6, <2>1, <4>1
    <3> QED
      BY <1>8, <1>10, <2>1, <3>1, <3>2
  <2>4. CASE ~(y <= made) /\ y = pos
    <3>1. calls[y] = h
      BY <1>2, <1>6, <2>1, <2>4
    <3>2. x < pos /\ calls[x] = before[x]
      BY <1>2, <1>6, <1>10, <2>1, <2>4
    <3> QED
      BY <1>9, <2>1, <3>1, <3>2
  <2>5. CASE ~(y <= made) /\ pos < y
    <3>1. calls[y] = before[y - 1] /\ y - 1 \in 1 .. len
      BY <1>2, <1>6, <2>1, <2>5
    <3>2. x <= y - 1 /\ pos <= y - 1
      BY <1>7, <1>10, <2>1, <2>5
    <3>3. calls[x] = before[x] \/ (x = pos /\ calls[x] = h) \/ (pos < x /\ x - 1 \in 1 .. len /\ calls[x] = before[x - 1])
      BY <1>2, <1>6, <1>7, <2>1
    <3>4. CASE calls[x] = before[x]
      BY <1>8, <2>1, <3>1, <3>2, <3>4
    <3>5. CASE x = pos /\ calls[x] = h
      <4>1. Priority[h] < Priority[before[y - 1]]
        BY <1>7, <1>9, <3>1, <3>2
      <4> QED
        BY <1>4, <1>5, <3>1, <3>5, <4>1
    <3>6. CASE pos < x /\ x - 1 \in 1 .. len /\ calls[x] = before[x - 1]
      <4>1. x - 1 <= y - 1
        BY <1>10, <2>1
      <4> QED
        BY <1>8, <3>1, <3>6, <4>1
    <3> QED
      BY <3>3, <3>4, <3>5, <3>6
  <2> QED
    BY <1>7, <2>1, <2>2, <2>3, <2>4, <2>5
<1>11. ASSUME next > len, NEW n \in 1 .. len, n < len PROVE before[n] \in ToSet(calls)
  <2>1. next = len + 1 /\ Len(calls) = len /\ next - 1 = len
    BY <1>1, <1>11
  <2>2. \A m \in 1 .. len : calls[m] \in ToSet(calls)
    BY <1>1, <2>1 DEF ToSet
  <2>3. \A m \in 1 .. len : calls[m] = IF m <= made THEN before[m] ELSE wider[m]
    BY <1>2, <2>1
  <2>4. CASE n <= made \/ n < pos
    <3>1. calls[n] = before[n]
      BY <1>1, <1>6, <2>3, <2>4
    <3> QED
      BY <2>2, <3>1
  <2>5. CASE ~(n <= made) /\ ~(n < pos)
    <3>1. n + 1 \in 1 .. len /\ n + 1 \in 1 .. len + 1 /\ ~(n + 1 <= made) /\ pos < n + 1 /\ n + 1 - 1 = n
      BY <1>1, <1>7, <1>11, <2>5
    <3>2. calls[n + 1] = before[n]
      BY <1>6, <2>3, <3>1
    <3> QED
      BY <2>2, <3>1, <3>2
  <2> QED
    BY <2>4, <2>5
<1>12. \A x, y \in 1 .. Len(calls) : x < y => Priority[calls[x]] <= Priority[calls[y]]
  BY <1>1, <1>10
<1>13. next > len => \A n \in 1 .. Len(before) : n < Len(before) => before[n] \in ToSet(calls)
  BY <1>1, <1>11
<1> QED
  BY <1>12, <1>13 DEF calls, before, len, next

\* What a run of the invariant does.
LEMMA RunIsInOrder ==
  ASSUME NEW arrs, NEW heads, NEW run, RunInv(run, arrs, heads)
  PROVE  /\ run.grown = 0 \/ Room(arrs, run.slice) = run.slice.len => IsPrefix(run.calls, run.before)
         /\ run.grown <= 1 =>
              /\ \A x, y \in DOMAIN run.calls : x < y => Priority[run.calls[x]] <= Priority[run.calls[y]]
              /\ run.at # "failed" /\ RunOver(run) => Cardinality(ToSet(run.before) \ ToSet(run.calls)) <= 1
<1> DEFINE calls == run.calls
           before == run.before
           len == run.slice.len
<1>1. /\ calls \in Seq(Handlers) /\ before \in Seq(Handlers) /\ len \in Nat /\ run.next \in 1 .. len + 1
      /\ Len(calls) = run.next - 1 /\ Len(before) = len /\ Ascending(before) /\ run.grown \in Nat
  BY DEF RunInv, RunShape, RunRecords, Slices
<1>2. DOMAIN calls = 1 .. Len(calls) /\ DOMAIN before = 1 .. Len(before)
  BY <1>1
<1>3. run.grown = 0 \/ Room(arrs, run.slice) = len => IsPrefix(calls, before)
  <2>1. run.grown = 0 \/ Room(arrs, run.slice) = len => Unmoved(run, arrs)
    BY DEF RunInv, RunCalls
  <2> QED
    BY <2>1, CallsArePrefix
<1>4. ASSUME run.grown <= 1
      PROVE  /\ \A x, y \in 1 .. Len(calls) : x < y => Priority[calls[x]] <= Priority[calls[y]]
             /\ run.next > len => \A n \in 1 .. Len(before) : n < Len(before) => before[n] \in ToSet(calls)
  <2>1. \/ Unmoved(run, arrs)
        \/ \E h \in Handlers, pos \in 1 .. len + 1, made \in 0 .. run.next - 1 : Moved(run, arrs, h, pos, made)
    <3>1. run.grown = 0 \/ run.grown = 1
      BY <1>1, <1>4
    <3> QED
      BY <3>1 DEF RunInv, RunCalls
  <2>2. CASE Unmoved(run, arrs)
    <3>1. \A n \in 1 .. Len(calls) : calls[n] = before[n] /\ n \in 1 .. Len(before)
      BY <1>1, <2>2 DEF Unmoved
    <3>2. \A x, y \in 1 .. Len(calls) : x < y => Priority[calls[x]] <= Priority[calls[y]]
      BY <1>1, <3>1 DEF Ascending
    <3>3. ASSUME run.next > len, NEW n \in 1 .. Len(before) PROVE before[n] \in ToSet(calls)
      <4>1. n \in 1 .. Len(calls)
        BY <1>1, <3>3
      <4> QED
        BY <1>2, <3>1, <4>1 DEF ToSet
    <3> QED
      BY <3>2, <3>3
  <2>3. CASE \E h \in Handlers, pos \in 1 .. len + 1, made \in 0 .. run.next - 1 : Moved(run, arrs, h, pos, made)
    BY <2>3, MovedIsOrdered
  <2> QED
    BY <2>1, <2>2, <2>3
<1>5. ASSUME run.grown <= 1, run.at # "failed", RunOver(run)
      PROVE  Cardinality(ToSet(before) \ ToSet(calls)) <= 1
  <2> DEFINE missing == ToSet(before) \ ToSet(calls)
             last == before[Len(before)]
  <2>1. run.next > len
    BY <1>5 DEF RunOver
  <2>2. \A n \in 1 .. Len(before) : n < Len(before) => before[n] \in ToSet(calls)
    BY <1>4, <1>5, <2>1
  <2>3. \A n \in 1 .. Len(before) : n < Len(before) \/ n = Len(before)
    BY <1>1
  <2>4. \A x \in ToSet(before) : \E n \in 1 .. Len(before) : x = before[n]
    BY <1>2 DEF ToSet
  <2> HIDE DEF last, missing
  <2>5. missing \subseteq {last}
    BY <2>2, <2>3, <2>4 DEF last, missing
  <2>6. IsFiniteSet({last}) /\ Cardinality({last}) = 1
    BY FS_Singleton
  <2>7. Cardinality(missing) <= Cardinality({last})
    BY <2>5, <2>6, FS_Subset
  <2> QED
    BY <2>6, <2>7 DEF missing
<1> QED
  BY <1>2, <1>3, <1>4, <1>5

LEMMA RunsAreInOrder == BusInv => RunsInOrder
<1> SUFFICES ASSUME BusInv PROVE RunsInOrder
  OBVIOUS
<1>1. DOMAIN runs = 1 .. Len(runs) /\ \A i \in 1 .. Len(runs) : RunInv(runs[i], arrays, bus)
  BY DEF BusInv
<1>2. ASSUME NEW i \in DOMAIN runs, Spare(runs[i].slice) = 0
      PROVE  Room(arrays, runs[i].slice) = runs[i].slice.len
  <2> DEFINE slice == runs[i].slice
  <2>1. RunShape(runs[i], arrays, bus)
    BY <1>1 DEF RunInv
  <2>2. slice \in Slices /\ IsSlice(arrays, slice)
    BY <2>1 DEF RunShape, RunRecords
  <2>3. Spare(slice) = Room(arrays, slice) - slice.len
    BY DEF Spare, Capacity, Room
  <2>4. Room(arrays, slice) \in Nat /\ slice.len \in Nat
    BY <2>2 DEF BusInv, Stores, IsSlice, Slices, Room
  <2> QED
    BY <1>2, <2>3, <2>4
<1> QED
  BY <1>1, <1>2, RunIsInOrder DEF RunsInOrder, Snapshot, OneMoreIsOrdered

LEMMA BusInvHolds == BusSpec => []BusInv
<1>1. BusInit => BusInv
  <2> SUFFICES ASSUME BusInit PROVE BusInv
    OBVIOUS
  <2>1. arrays = <<>> /\ runs = <<>> /\ \A k \in Hooks : bus[k] = [array |-> 0, len |-> 0] /\ added[k] = <<>>
    BY DEF BusInit
  <2>2. bus \in [Hooks -> Slices] /\ added \in [Hooks -> Seq(Handlers)]
    BY DEF BusInit, Slices
  <2>3. Stores(arrays, bus) /\ TablesApart(bus)
    BY <2>1, <2>2 DEF Stores, IsSlice, Room, TablesApart
  <2>4. \A k \in Hooks : Once(added[k]) /\ Tabulated(Shown(arrays, bus[k]), added[k])
    BY <2>1 DEF Once, Tabulated, Shown
  <2>5. runs \in Seq(RunRecords) /\ \A i \in 1 .. Len(runs) : RunInv(runs[i], arrays, bus)
    BY <2>1
  <2> QED
    BY <2>2, <2>3, <2>4, <2>5 DEF BusInv
<1> QED
  BY <1>1, BusStep, PTL DEF BusSpec

\* What is registered for a hook is every handler that was added, once, by priority and then
\* by the order of registration, for any number of handlers, of any priorities, whoever is
\* in the middle of a loop over the array it is in.
THEOREM RegisteredInOrderHolds == BusSpec => []RegisteredInOrder
BY BusInvHolds, TablesInOrder, PTL

\* A run calls the handlers it began with, in order, unless its array had room and others were
\* registered; one more of them may make it leave out one, and never run against the priorities.
THEOREM RunsInOrderHolds == BusSpec => []RunsInOrder
BY BusInvHolds, RunsAreInOrder, PTL

\* A run that ends has been through as many handlers as it began with, and answers what they
\* have left of the payload, or has failed and answers the payload.
THEOREM WholeOrNothingHolds == BusSpec => WholeOrNothing
<1> DEFINE Whole(run) == \/ run.at = "failed" /\ run.current = <<>>
                         \/ /\ Len(run.calls) = Len(run.before)
                            /\ run.kind = "filter" => run.current = run.calls
           Ended == Len(runs') < Len(runs) =>
                      LET run == Last(runs) IN
                      \/ run.at = "failed" /\ run.current = <<>>
                      \/ Len(run.calls) = Len(run.before) /\ (run.kind = "filter" => run.current = run.calls)
<1>1. BusInv /\ [BusNext]_busVars => [Ended]_busVars
  <2> SUFFICES ASSUME BusInv, BusNext, Len(runs') < Len(runs) PROVE Whole(Last(runs))
    BY DEF busVars
  <2>1. runs \in Seq(RunRecords) /\ Len(runs) \in Nat /\ DOMAIN runs = 1 .. Len(runs)
    BY DEF BusInv
  <2> HIDE DEF Whole
  <2>2. ASSUME NEW k \in Hooks, StartRun(k) PROVE Len(runs') = Len(runs) + 1
    BY <2>1, <2>2 DEF StartRun
  <2>3. ASSUME NEW k \in Hooks, NEW h \in Handlers, Add(k, h) PROVE Len(runs') = Len(runs)
    <3>1. DOMAIN runs' = 1 .. Len(runs)
      BY <2>1, <2>3 DEF Add
    <3>2. runs' = [n \in 1 .. Len(runs) |-> runs'[n]]
      BY <2>1, <2>3 DEF Add
    <3> QED
      BY <2>1, <3>2
  <2>4. ASSUME NEW run, Innermost(run) PROVE Len(runs') = Len(runs)
    BY <2>1, <2>4 DEF Innermost
  <2>5. Call \/ Return \/ Fail => Len(runs') = Len(runs)
    BY <2>4 DEF Call, Return, Fail
  <2>6. ASSUME EndRun PROVE Whole(Last(runs))
    <3> DEFINE run == Last(runs)
    <3>1. runs # <<>> /\ RunOver(run)
      BY <2>6 DEF EndRun
    <3>2. RunInv(run, arrays, bus)
      BY <2>1, <3>1 DEF BusInv, Last
    <3> HIDE DEF run
    <3>3. CASE run.at = "failed"
      BY <3>2, <3>3 DEF RunInv, RunValue, Whole, run
    <3>4. CASE run.at = "loop" /\ run.next > run.slice.len
      <4>1. /\ run.next \in 1 .. run.slice.len + 1 /\ Len(run.calls) = run.next - 1
            /\ Len(run.before) = run.slice.len /\ run.slice.len \in Nat
        BY <3>2 DEF RunInv, RunShape, RunRecords, Slices
      <4>2. run.next = run.slice.len + 1
        BY <3>4, <4>1
      <4>3. Len(run.calls) = Len(run.before)
        BY <4>1, <4>2
      <4> QED
        BY <3>2, <3>4, <4>3 DEF RunInv, RunValue, Whole, run
    <3> QED
      BY <3>1, <3>3, <3>4 DEF RunOver, run
  <2> QED
    BY <2>1, <2>2, <2>3, <2>5, <2>6 DEF BusNext
<1>2. BusSpec => [][Ended]_busVars
  BY <1>1, BusInvHolds, PTL DEF BusSpec
<1> QED
  BY <1>2 DEF WholeOrNothing
-----------------------------------------------------------------------------
(***************************************************************************)
(* A walk through a list: the list is made anew for each page.             *)
(***************************************************************************)
\* The entries that are listed.
Wanted(tables, q) ==
  {e \in Entries : e[1] \in ToSet(q.kinds) /\ e[2] \in Stored(tables[e[1]]) /\ Fits(tables, q, e)}

\* What a query is.
LEMMA QueryIs ==
  ASSUME NEW q \in Queries
  PROVE  /\ q.kinds = <<"post">> \/ q.kinds = <<"page">> \/ q.kinds = <<"post", "page">>
         /\ q.perPage \in Nat \ {0} /\ q.search \in BOOLEAN
         /\ ToSet(q.kinds) \subseteq Kinds
<1>1. /\ q.kinds = <<"post">> \/ q.kinds = <<"page">> \/ q.kinds = <<"post", "page">>
      /\ q.perPage \in Nat \ {0} /\ q.search \in BOOLEAN
  BY ListingAssumption DEF Queries
<1>2. \A n \in DOMAIN q.kinds : q.kinds[n] \in Kinds
  BY <1>1 DEF Kinds
<1> QED
  BY <1>1, <1>2 DEF ToSet

\* The order of a list: posts before pages, and by id.
LEMMA OrderIs ==
  ASSUME NEW q \in Queries, NEW x \in Entries, NEW y \in Entries,
         x[1] \in ToSet(q.kinds), y[1] \in ToSet(q.kinds)
  PROVE  <<x, y>> \in Order(q) <=> \/ x[1] = "post" /\ y[1] = "page"
                                   \/ x[1] = y[1] /\ x[2] < y[2]
<1> DEFINE before == \E m, n \in DOMAIN q.kinds : m < n /\ q.kinds[m] = x[1] /\ q.kinds[n] = y[1]
<1>1. <<x, y>> \in Order(q) <=> before \/ (x[1] = y[1] /\ x[2] < y[2])
  BY DEF Order
<1>2. (\E n \in DOMAIN q.kinds : q.kinds[n] = x[1]) /\ (\E n \in DOMAIN q.kinds : q.kinds[n] = y[1])
  BY DEF ToSet
<1>3. CASE q.kinds = <<"post">> \/ q.kinds = <<"page">>
  <2>1. \A n \in DOMAIN q.kinds : n = 1
    BY <1>3
  <2>2. ~before
    BY <2>1
  <2>3. x[1] = y[1]
    BY <1>2, <2>1
  <2> HIDE DEF before
  <2> QED
    BY <1>1, <2>2, <2>3
<1>4. CASE q.kinds = <<"post", "page">>
  <2>1. DOMAIN q.kinds = {1, 2} /\ q.kinds[1] = "post" /\ q.kinds[2] = "page"
    BY <1>4
  <2>2. before <=> x[1] = "post" /\ y[1] = "page"
    <3>1. before => x[1] = "post" /\ y[1] = "page"
      BY <2>1
    <3>2. x[1] = "post" /\ y[1] = "page" => before
      BY <2>1
    <3> QED
      BY <3>1, <3>2
  <2> HIDE DEF before
  <2> QED
    BY <1>1, <2>2
<1> QED
  BY <1>3, <1>4, QueryIs

\* A list has the entries that are wanted, each once, in the order.
LEMMA ListedIs ==
  ASSUME NEW tables, NEW q \in Queries
  PROVE  /\ IsFiniteSet(Wanted(tables, q)) /\ StrictOrder(Wanted(tables, q), Order(q))
         /\ Wanted(tables, q) \subseteq Entries
         /\ Listed(tables, q) = Ordered(Wanted(tables, q), Order(q))
         /\ Listed(tables, q) \in Seq(Entries) /\ ToSet(Listed(tables, q)) = Wanted(tables, q)
<1> DEFINE S == Wanted(tables, q)
           R == Order(q)
           list == Ordered(S, R)
<1>1. \A e \in Entries : e[1] \in Kinds /\ e[2] \in Ids /\ e = <<e[1], e[2]>>
  BY DEF Entries
<1>2. S \subseteq Entries /\ \A e \in S : e[1] \in ToSet(q.kinds)
  BY DEF Wanted
<1>3. IsFiniteSet(S)
  <2>1. IsFiniteSet(Kinds)
    <3>1. IsFiniteSet({"post"})
      BY FS_Singleton
    <3>2. IsFiniteSet({"post"} \cup {"page"})
      BY <3>1, FS_AddElement
    <3>3. Kinds = {"post"} \cup {"page"}
      BY DEF Kinds
    <3> QED
      BY <3>2, <3>3
  <2>2. IsFiniteSet(Entries)
    BY <2>1, ListingAssumption, FS_Product DEF Entries
  <2> QED
    BY <1>2, <2>2, FS_Subset
<1>4. StrictOrder(S, R)
  <2>1. \A x, y \in S : <<x, y>> \in R <=> \/ x[1] = "post" /\ y[1] = "page"
                                           \/ x[1] = y[1] /\ x[2] < y[2]
    BY <1>2, OrderIs
  <2>2. \A x \in S : (x[1] = "post" \/ x[1] = "page") /\ x[2] \in Nat /\ x = <<x[1], x[2]>>
    BY <1>1, <1>2, ListingAssumption DEF Kinds
  <2> HIDE DEF S, R
  <2>3. \A x \in S : <<x, x>> \notin R
    BY <2>1, <2>2
  <2>4. \A x, y \in S : x = y \/ <<x, y>> \in R \/ <<y, x>> \in R
    <3> TAKE x, y \in S
    <3>1. x[1] = y[1] /\ x[2] = y[2] => x = y
      BY <2>2
    <3> QED
      BY <2>1, <2>2, <3>1
  <2>5. \A x, y, z \in S : <<x, y>> \in R /\ <<y, z>> \in R => <<x, z>> \in R
    BY <2>1, <2>2
  <2> QED
    BY <2>3, <2>4, <2>5 DEF StrictOrder
<1>5. Listed(tables, q) = list
  BY DEF Listed, Wanted
<1> HIDE DEF S, R
<1>6. /\ Cardinality(S) \in Nat /\ list \in Seq(S) /\ Len(list) = Cardinality(S)
      /\ \A n \in 1 .. Cardinality(S) : list[n] \in S
      /\ \A x \in S : Rank(S, R, x) + 1 \in 1 .. Cardinality(S) /\ list[Rank(S, R, x) + 1] = x
  BY <1>3, <1>4, OrderedIs
<1> HIDE DEF list
<1>7. list \in Seq(Entries) /\ DOMAIN list = 1 .. Cardinality(S)
  BY <1>2, <1>6
<1>8. ToSet(list) = S
  BY <1>6, <1>7 DEF ToSet
<1> QED
  BY <1>2, <1>3, <1>4, <1>5, <1>7, <1>8 DEF S, R, list

\* The elements that are kept are elements of the list, and no more.
LEMMA KeptIs ==
  ASSUME NEW E, NEW list \in Seq(E), NEW S
  PROVE  Kept(list, S) \in Seq(E) /\ Len(Kept(list, S)) \in Nat
<1> DEFINE kept == {n \in DOMAIN list : list[n] \in S}
           R == {p \in kept \X kept : p[1] < p[2]}
           order == Ordered(kept, R)
<1>1. DOMAIN list = 1 .. Len(list)
  OBVIOUS
<1>2. kept \subseteq 1 .. Len(list)
  BY <1>1
<1>3. IsFiniteSet(kept)
  <2>1. IsFiniteSet(1 .. Len(list))
    BY FS_Interval
  <2> QED
    BY <1>2, <2>1, FS_Subset
<1>4. \A m, n \in kept : <<m, n>> \in R <=> m < n
  OBVIOUS
<1>5. \A n \in kept : n \in Nat /\ list[n] \in E
  BY <1>2
<1>6. Kept(list, S) = [n \in DOMAIN order |-> list[order[n]]]
  BY DEF Kept
<1> HIDE DEF kept, R, order
<1>7. StrictOrder(kept, R)
  BY <1>4, <1>5 DEF StrictOrder
<1>8. order \in Seq(kept)
  BY <1>3, <1>7, OrderedIs DEF order
<1>9. DOMAIN order = 1 .. Len(order) /\ Len(order) \in Nat /\ \A n \in 1 .. Len(order) : order[n] \in kept
  BY <1>8
<1>10. Kept(list, S) \in [1 .. Len(order) -> E]
  BY <1>5, <1>6, <1>9
<1> QED
  BY <1>9, <1>10

\* What an answer to a list has: a page of it.
LEMMA EnvelopeIs ==
  ASSUME NEW items \in Seq(Entries), NEW p \in Nat \ {0}, NEW perPage \in Nat \ {0}
  PROVE  LET a == Envelope(items, p, perPage)
             from == From(p, perPage, Len(items))
             to == To(p, perPage, Len(items))
         IN  /\ a.data = SubSeq(items, from + 1, to) /\ a.pages = TotalPages(perPage, Len(items))
             /\ a.data \in Seq(Entries) /\ Len(a.data) = to - from /\ Len(a.data) <= perPage
             /\ \A n \in 1 .. to - from : a.data[n] = items[from + n]
             /\ from \in 0 .. Len(items) /\ to \in from .. Len(items) /\ a.pages \in Nat
<1> DEFINE a == Envelope(items, p, perPage)
           from == From(p, perPage, Len(items))
           to == To(p, perPage, Len(items))
<1>1. Len(items) \in Nat
  OBVIOUS
<1>2. from \in 0 .. Len(items) /\ to \in from .. Len(items) /\ to - from <= perPage
  BY <1>1, PageInBounds
<1>3. a.data = SubSeq(items, from + 1, to) /\ a.pages = TotalPages(perPage, Len(items))
  BY DEF Envelope
<1> HIDE DEF a, from, to
<1>4. \A i \in from + 1 .. to : items[i] \in Entries
  BY <1>1, <1>2
<1>5. from + 1 \in Int /\ to \in Int
  BY <1>1, <1>2
<1>6. /\ a.data \in Seq(Entries) /\ Len(a.data) = (IF from + 1 <= to THEN to - (from + 1) + 1 ELSE 0)
      /\ \A i \in 1 .. to - (from + 1) + 1 : a.data[i] = items[from + 1 + i - 1]
  BY <1>3, <1>4, <1>5, SubSeqProperties
<1>7. (IF from + 1 <= to THEN to - (from + 1) + 1 ELSE 0) = to - from /\ to - (from + 1) + 1 = to - from
  BY <1>1, <1>2
<1>8. \A i \in 1 .. to - from : from + 1 + i - 1 = from + i
  BY <1>1, <1>2
<1>9. Len(a.data) = to - from /\ \A i \in 1 .. to - from : a.data[i] = items[from + i]
  BY <1>6, <1>7, <1>8
<1>10. a.pages \in Nat
  BY <1>1, <1>3, PagesByDivision DEF TotalPages
<1> QED
  BY <1>2, <1>3, <1>6, <1>9, <1>10 DEF a, from, to

\* A page of an answer has entries, and no more of them than were asked for.
LEMMA AnswerIs ==
  ASSUME NEW tables, NEW q \in Queries, NEW p \in Nat \ {0}
  PROVE  /\ Answer(tables, q, p).data \in Seq(Entries) /\ Len(Answer(tables, q, p).data) <= q.perPage
         /\ Answer(tables, q, p).pages \in Nat
         /\ ~q.search => Answer(tables, q, p) = Envelope(Listed(tables, q), p, q.perPage)
<1> DEFINE list == Envelope(Listed(tables, q), p, q.perPage)
           S == {e \in ToSet(list.data) : tables[e[1]][e[2]].matches}
           found == Kept(list.data, S)
<1>1. q.perPage \in Nat \ {0} /\ q.search \in BOOLEAN
  BY QueryIs
<1>2. Answer(tables, q, p) = IF q.search THEN Envelope(found, p, q.perPage) ELSE list
  BY DEF Answer
<1>3. Listed(tables, q) \in Seq(Entries)
  BY ListedIs
<1>4. list.data \in Seq(Entries) /\ Len(list.data) <= q.perPage /\ list.pages \in Nat
  BY <1>1, <1>3, EnvelopeIs
<1> HIDE DEF list, S
<1>5. found \in Seq(Entries)
  BY <1>4, KeptIs
<1> HIDE DEF found
<1>6. /\ Envelope(found, p, q.perPage).data \in Seq(Entries)
      /\ Len(Envelope(found, p, q.perPage).data) <= q.perPage /\ Envelope(found, p, q.perPage).pages \in Nat
  BY <1>1, <1>5, EnvelopeIs
<1>7. CASE q.search
  BY <1>2, <1>6, <1>7
<1>8. CASE ~q.search
  BY <1>2, <1>4, <1>8 DEF list
<1> QED
  BY <1>7, <1>8

\* Where the client is in the list there is: after the pages it has read.
Behind(q) == (page - 1) * q.perPage

\* An entry is in front of the client: in the list, after what it has read.
InFront(list, behind, e) == \E n \in 1 .. Len(list) : list[n] = e /\ n > behind

LosesNothing(tables, tables2, q) == ToSet(Listed(tables, q)) \subseteq ToSet(Listed(tables2, q))

\* What was in front of the client is so still when entries are added, wherever they are.
LEMMA LaterStaysLater ==
  ASSUME NEW tables, NEW tables2, NEW q \in Queries, NEW behind \in Nat,
         LosesNothing(tables, tables2, q), NEW e, InFront(Listed(tables, q), behind, e)
  PROVE  InFront(Listed(tables2, q), behind, e)
<1> PICK n \in 1 .. Len(Listed(tables, q)) : Listed(tables, q)[n] = e /\ n > behind
  BY DEF InFront
<1> DEFINE R == Order(q)
           S == Wanted(tables, q)
           S2 == Wanted(tables2, q)
           x == Listed(tables, q)[n]
           below == {y \in S : <<y, x>> \in R}
           below2 == {y \in S2 : <<y, x>> \in R}
<1>1. /\ IsFiniteSet(S) /\ StrictOrder(S, R) /\ Listed(tables, q) = Ordered(S, R)
      /\ ToSet(Listed(tables, q)) = S
      /\ IsFiniteSet(S2) /\ StrictOrder(S2, R) /\ Listed(tables2, q) = Ordered(S2, R)
      /\ ToSet(Listed(tables2, q)) = S2
  BY ListedIs
<1> HIDE DEF R, S, S2, x
<1>2. S \subseteq S2
  BY <1>1 DEF LosesNothing
<1>3. /\ Cardinality(S) \in Nat /\ Len(Ordered(S, R)) = Cardinality(S)
      /\ \A k \in 1 .. Cardinality(S) : Ordered(S, R)[k] \in S /\ Rank(S, R, Ordered(S, R)[k]) = k - 1
  BY <1>1, OrderedIs
<1>4. n \in 1 .. Cardinality(S)
  BY <1>1, <1>3
<1>5. x \in S /\ Rank(S, R, x) = n - 1
  BY <1>1, <1>3, <1>4 DEF x
<1>6. Rank(S, R, x) <= Rank(S2, R, x)
  <2>1. below \subseteq below2 /\ below2 \subseteq S2
    BY <1>2
  <2> HIDE DEF below, below2
  <2>2. IsFiniteSet(below2)
    BY <1>1, <2>1, FS_Subset
  <2>3. Cardinality(below) <= Cardinality(below2)
    BY <2>1, <2>2, FS_Subset
  <2> QED
    BY <2>3 DEF Rank, below, below2
<1>7. x \in S2
  BY <1>2, <1>5
<1>8. /\ Cardinality(S2) \in Nat /\ Len(Ordered(S2, R)) = Cardinality(S2)
      /\ Rank(S2, R, x) + 1 \in 1 .. Cardinality(S2) /\ Ordered(S2, R)[Rank(S2, R, x) + 1] = x
  BY <1>1, <1>7, OrderedIs
<1>9. Rank(S2, R, x) \in 0 .. Cardinality(S2) - 1
  BY <1>1, <1>7, RankType
<1> DEFINE m == Rank(S2, R, x) + 1
<1>10. m \in 1 .. Len(Listed(tables2, q)) /\ Listed(tables2, q)[m] = x
  BY <1>1, <1>8
<1>11. m > behind
  <2>1. n - 1 <= Rank(S2, R, x)
    BY <1>5, <1>6
  <2>2. n \in Nat /\ Rank(S2, R, x) \in Nat
    BY <1>3, <1>4, <1>8, <1>9
  <2> QED
    BY <2>1, <2>2
<1> HIDE DEF m
<1> QED
  BY <1>10, <1>11 DEF x, InFront

-----------------------------------------------------------------------------
\* A walk: the client has what was before the page it asks for, and the entries it does not have
\* are in front of it.
WalkInv ==
  /\ rows \in Tables /\ query \in Queries /\ page \in Nat \ {0} /\ pages \in Nat
  /\ got \in Seq(Entries) /\ Len(got) <= Behind(query)
  /\ first \subseteq Entries /\ left \in BOOLEAN /\ changes \in 0 .. MaxChanges
  /\ page = 1 => pages = 1
  /\ page > 1 /\ page > pages /\ ~query.search => pages = TotalPages(query.perPage, Len(Listed(rows, query)))
  /\ changes = 0 /\ ~query.search =>
       got = SubSeq(Listed(rows, query), 1, From(page, query.perPage, Len(Listed(rows, query))))
  /\ ~left /\ ~query.search =>
       \A e \in first : e \in ToSet(got) \/ InFront(Listed(rows, query), Behind(query), e)

\* A page, and what comes after it, is what there is after the pages before it.
LEMMA NextPageIs ==
  ASSUME NEW p \in Nat \ {0}, NEW perPage \in Nat \ {0}, NEW total \in Nat, NEW n \in 1 .. total,
         n > (p - 1) * perPage
  PROVE  \/ From(p, perPage, total) < n /\ n <= To(p, perPage, total)
         \/ n > (p + 1 - 1) * perPage
<1>1. (p - 1) * perPage \in Nat /\ p * perPage \in Nat /\ p * perPage = (p - 1) * perPage + perPage
  OBVIOUS
<1>2. p + 1 - 1 = p
  OBVIOUS
<1>3. From(p, perPage, total) = (p - 1) * perPage
  BY <1>1 DEF From, AtMost
<1>4. n <= p * perPage => n <= To(p, perPage, total)
  BY <1>1, <1>3 DEF To, AtMost
<1> QED
  BY <1>1, <1>2, <1>3, <1>4

\* After the last page there is nothing.
LEMMA NothingAfterLast ==
  ASSUME NEW p \in Nat \ {0}, NEW perPage \in Nat \ {0}, NEW total \in Nat, p > TotalPages(perPage, total)
  PROVE  From(p, perPage, total) = total /\ total <= (p - 1) * perPage
<1> DEFINE n == TotalPages(perPage, total)
           after == (p - 1) * perPage
<1>1. after \in Nat
  OBVIOUS
<1>2. CASE total = 0
  <2> HIDE DEF after
  <2> QED
    BY <1>1, <1>2 DEF From, AtMost, after
<1>3. CASE total # 0
  <2>1. n \in Nat \ {0} /\ total <= n * perPage
    BY <1>3, PagesByDivision
  <2> HIDE DEF n
  <2>2. p - 1 \in Nat /\ n <= p - 1
    BY <2>1 DEF n
  <2>3. n * perPage <= (p - 1) * perPage
    BY <2>1, <2>2
  <2>4. n * perPage \in Nat
    BY <2>1
  <2>5. total <= after
    BY <2>1, <2>3, <2>4
  <2> HIDE DEF after
  <2> QED
    BY <1>1, <2>5 DEF From, AtMost, after
<1> QED
  BY <1>2, <1>3

\* A walk begins where the invariant says.
LEMMA WalkInit == Init => WalkInv
<1> SUFFICES ASSUME Init PROVE WalkInv
  OBVIOUS
<1> DEFINE list == Listed(rows, query)
<1>1. /\ rows \in Tables /\ query \in Queries /\ page = 1 /\ pages = 1 /\ got = <<>>
      /\ first = ToSet(list) /\ left = FALSE /\ changes = 0
  BY ListingAssumption DEF Init
<1>2. list \in Seq(Entries) /\ ToSet(list) = Wanted(rows, query) /\ Wanted(rows, query) \subseteq Entries
  BY <1>1, ListedIs
<1>3. query.perPage \in Nat \ {0}
  BY <1>1, QueryIs
<1> HIDE DEF list
<1>4. Behind(query) = 0 /\ From(page, query.perPage, Len(list)) = 0
  BY <1>1, <1>2, <1>3, PagesAdjoin DEF Behind
<1>5. \A e \in first : InFront(list, 0, e)
  <2>1. \A e \in first : \E n \in 1 .. Len(list) : list[n] = e
    BY <1>1, <1>2 DEF ToSet
  <2> QED
    BY <1>2, <2>1 DEF InFront
<1>6. got \in Seq(Entries) /\ Len(got) = 0
  BY <1>1
<1>7. got = SubSeq(list, 1, 0)
  BY <1>1, SubSeqEmpty
<1>8. first \subseteq Entries /\ left \in BOOLEAN /\ changes \in 0 .. MaxChanges
  <2>1. MaxChanges \in Nat
    BY ListingAssumption
  <2>2. changes \in 0 .. MaxChanges
    BY <1>1, <2>1
  <2> QED
    BY <1>1, <1>2, <2>2
<1> QED
  BY <1>1, <1>4, <1>5, <1>6, <1>7, <1>8 DEF WalkInv, list

\* A page is read.
LEMMA FetchKeepsWalk == WalkInv /\ Fetch => WalkInv'
<1> SUFFICES ASSUME WalkInv, Fetch PROVE WalkInv'
  OBVIOUS
<1> DEFINE list == Listed(rows, query)
           perPage == query.perPage
           from == From(page, perPage, Len(list))
           to == To(page, perPage, Len(list))
           a == Answer(rows, query, page)
<1>1. /\ rows \in Tables /\ query \in Queries /\ page \in Nat \ {0} /\ pages \in Nat
      /\ got \in Seq(Entries) /\ Len(got) <= Behind(query)
      /\ first \subseteq Entries /\ left \in BOOLEAN /\ changes \in 0 .. MaxChanges
      /\ changes = 0 /\ ~query.search => got = SubSeq(list, 1, from)
      /\ ~left /\ ~query.search =>
           \A e \in first : e \in ToSet(got) \/ InFront(list, Behind(query), e)
  BY DEF WalkInv
<1>2. /\ got' = got \o a.data /\ pages' = a.pages /\ page' = page + 1
      /\ rows' = rows /\ query' = query /\ first' = first /\ left' = left /\ changes' = changes
  BY DEF Fetch
<1>3. perPage \in Nat \ {0} /\ query.search \in BOOLEAN
  BY <1>1, QueryIs
<1>4. list \in Seq(Entries) /\ Len(list) \in Nat
  BY <1>1, ListedIs
<1>5. /\ a.data \in Seq(Entries) /\ Len(a.data) <= perPage /\ a.pages \in Nat
      /\ ~query.search => a = Envelope(list, page, perPage)
  BY <1>1, AnswerIs
<1>6. ~query.search =>
         /\ a.data = SubSeq(list, from + 1, to) /\ a.pages = TotalPages(perPage, Len(list))
         /\ Len(a.data) = to - from /\ \A n \in 1 .. to - from : a.data[n] = list[from + n]
  <2> DEFINE e == Envelope(list, page, perPage)
  <2>1. /\ e.data = SubSeq(list, from + 1, to) /\ e.pages = TotalPages(perPage, Len(list))
        /\ Len(e.data) = to - from /\ \A n \in 1 .. to - from : e.data[n] = list[from + n]
    <3> HIDE DEF list, perPage
    <3> QED
      BY <1>1, <1>3, <1>4, EnvelopeIs
  <2> HIDE DEF a, e, from, to
  <2>2. ~query.search => a = e
    BY <1>5 DEF e
  <2> QED
    BY <2>1, <2>2
<1>7. from \in 0 .. Len(list) /\ to \in from .. Len(list) /\ From(page + 1, perPage, Len(list)) = to
  BY <1>1, <1>3, <1>4, PageInBounds, PagesAdjoin
<1>8. Behind(query) = (page - 1) * perPage /\ Behind(query)' = page * perPage
  BY <1>1, <1>2, <1>3 DEF Behind
<1>9. (page - 1) * perPage \in Nat /\ page * perPage = (page - 1) * perPage + perPage
  BY <1>1, <1>3
<1> HIDE DEF list, perPage, from, to, a
<1>10. got' \in Seq(Entries) /\ Len(got') = Len(got) + Len(a.data)
       /\ ToSet(got') = ToSet(got) \cup ToSet(a.data)
  <2>1. got' \in Seq(Entries) /\ Len(got') = Len(got) + Len(a.data)
    BY <1>1, <1>2, <1>5
  <2>2. \A n \in 1 .. Len(got) : n \in 1 .. Len(got') /\ got'[n] = got[n]
    BY <1>1, <1>2, <1>5, <2>1
  <2>3. \A n \in 1 .. Len(a.data) : Len(got) + n \in 1 .. Len(got') /\ got'[Len(got) + n] = a.data[n]
    BY <1>1, <1>2, <1>5, <2>1
  <2>4. \A n \in 1 .. Len(got') : n \in 1 .. Len(got) \/ \E m \in 1 .. Len(a.data) : n = Len(got) + m
    <3> TAKE n \in 1 .. Len(got')
    <3>1. Len(got) \in Nat /\ Len(a.data) \in Nat
      BY <1>1, <1>5
    <3>2. ASSUME n > Len(got) PROVE n - Len(got) \in 1 .. Len(a.data) /\ n = Len(got) + (n - Len(got))
      BY <2>1, <3>1, <3>2
    <3>3. n \in 1 .. Len(got) \/ n > Len(got)
      BY <3>1
    <3> QED
      BY <3>2, <3>3
  <2>5. /\ ToSet(got) = {got[n] : n \in 1 .. Len(got)} /\ ToSet(a.data) = {a.data[n] : n \in 1 .. Len(a.data)}
        /\ ToSet(got') = {got'[n] : n \in 1 .. Len(got')}
    <3>1. DOMAIN got = 1 .. Len(got) /\ DOMAIN a.data = 1 .. Len(a.data) /\ DOMAIN got' = 1 .. Len(got')
      BY <1>1, <1>5, <2>1
    <3> QED
      BY <3>1 DEF ToSet
  <2>6. ToSet(got) \subseteq ToSet(got') /\ ToSet(a.data) \subseteq ToSet(got')
    BY <2>2, <2>3, <2>5
  <2>7. ASSUME NEW x \in ToSet(got') PROVE x \in ToSet(got) \cup ToSet(a.data)
    <3>1. PICK n \in 1 .. Len(got') : x = got'[n]
      BY <2>5, <2>7
    <3>2. CASE n \in 1 .. Len(got)
      BY <2>2, <2>5, <3>1, <3>2
    <3>3. CASE \E m \in 1 .. Len(a.data) : n = Len(got) + m
      BY <2>3, <2>5, <3>1, <3>3
    <3> QED
      BY <2>4, <3>2, <3>3
  <2> QED
    BY <2>1, <2>6, <2>7
<1>11. Len(got') <= Behind(query)'
  <2>1. Len(got) \in Nat /\ Len(a.data) \in Nat
    BY <1>1, <1>5
  <2> QED
    BY <1>1, <1>3, <1>5, <1>8, <1>9, <1>10, <2>1
<1>12. changes = 0 /\ ~query.search => got' = SubSeq(list, 1, to)
  <2> SUFFICES ASSUME changes = 0, ~query.search PROVE got' = SubSeq(list, 1, to)
    OBVIOUS
  <2>1. got = SubSeq(list, 1, from) /\ a.data = SubSeq(list, from + 1, to)
    BY <1>1, <1>6
  <2>2. from \in Nat /\ to \in Nat /\ from <= to /\ to <= Len(list)
    BY <1>4, <1>7
  <2>3. \A n \in 1 .. to : list[n] \in Entries
    BY <1>4, <2>2
  <2>4. Len(got) = from /\ \A n \in 1 .. from : got[n] = list[n]
    BY <1>4, <2>1, <2>2
  <2>5. Len(SubSeq(list, 1, to)) = to /\ SubSeq(list, 1, to) \in Seq(Entries) /\ \A n \in 1 .. to : SubSeq(list, 1, to)[n] = list[n]
    BY <1>4, <2>2
  <2>6. Len(got') = to
    BY <1>6, <1>10, <2>2, <2>4
  <2>7. ASSUME NEW n \in 1 .. to PROVE got'[n] = list[n]
    <3>1. CASE n <= from
      BY <1>1, <1>2, <1>5, <2>2, <2>4, <3>1
    <3>2. CASE n > from
      <4>1. n - from \in 1 .. to - from /\ from + (n - from) = n
        BY <2>2, <3>2
      <4>2. got'[n] = a.data[n - from]
        <5>1. \A i \in 1 .. Len(got) + Len(a.data) :
                (got \o a.data)[i] = IF i <= Len(got) THEN got[i] ELSE a.data[i - Len(got)]
          BY <1>1, <1>5, ConcatProperties
        <5>2. Len(got) + Len(a.data) = to
          BY <1>6, <2>2, <2>4
        <5> QED
          BY <1>2, <2>2, <2>4, <3>2, <5>1, <5>2
      <4> QED
        BY <1>6, <4>1, <4>2
    <3> QED
      BY <2>2, <3>1, <3>2
  <2> QED
    BY <1>10, <2>5, <2>6, <2>7
<1>13. ASSUME ~left, ~query.search, NEW e \in first
       PROVE  e \in ToSet(got') \/ InFront(list, page * perPage, e)
  <2>1. e \in ToSet(got) \/ InFront(list, (page - 1) * perPage, e)
    BY <1>1, <1>8, <1>13
  <2>2. CASE InFront(list, (page - 1) * perPage, e)
    <3>1. PICK n \in 1 .. Len(list) : list[n] = e /\ n > (page - 1) * perPage
      BY <2>2 DEF InFront
    <3>2. page + 1 - 1 = page
      BY <1>1
    <3>3. (from < n /\ n <= to) \/ n > page * perPage
      BY <1>1, <1>3, <1>4, <3>1, <3>2, NextPageIs DEF from, to
    <3>4. CASE from < n /\ n <= to
      <4>1. n - from \in 1 .. to - from /\ from + (n - from) = n
        BY <1>4, <1>7, <3>4
      <4>2. a.data[n - from] = e /\ n - from \in 1 .. Len(a.data)
        BY <1>6, <1>13, <3>1, <4>1
      <4>3. e \in ToSet(a.data)
        BY <1>5, <4>2 DEF ToSet
      <4> QED
        BY <1>10, <4>3
    <3>5. CASE n > page * perPage
      BY <3>1, <3>5 DEF InFront
    <3> QED
      BY <3>3, <3>4, <3>5
  <2> QED
    BY <1>10, <2>1, <2>2
<1>14. page + 1 \in Nat \ {0} /\ page + 1 # 1
  BY <1>1
<1>15. Listed(rows', query') = list /\ query'.perPage = perPage
  BY <1>2 DEF list, perPage
<1>16. rows' \in Tables /\ query' \in Queries /\ page' \in Nat \ {0} /\ pages' \in Nat
       /\ first' \subseteq Entries /\ left' \in BOOLEAN /\ changes' \in 0 .. MaxChanges
       /\ (page' = 1 => pages' = 1)
  BY <1>1, <1>2, <1>5, <1>14
<1>17. ~query'.search => pages' = TotalPages(perPage, Len(list))
  BY <1>2, <1>6
<1>18. changes' = 0 /\ ~query'.search => got' = SubSeq(list, 1, From(page', perPage, Len(list)))
  BY <1>2, <1>7, <1>12
<1>19. ~left' /\ ~query'.search =>
         \A e \in first' : e \in ToSet(got') \/ InFront(list, Behind(query)', e)
  BY <1>2, <1>8, <1>13
<1> QED
  BY <1>10, <1>11, <1>15, <1>16, <1>17, <1>18, <1>19 DEF WalkInv

\* An entry is created or changed.
LEMMA ChangeKeepsWalk == WalkInv /\ Change => WalkInv'
<1> SUFFICES ASSUME WalkInv, Change PROVE WalkInv'
  OBVIOUS
<1>1. /\ rows \in Tables /\ query \in Queries /\ page \in Nat \ {0} /\ pages \in Nat
      /\ got \in Seq(Entries) /\ Len(got) <= Behind(query)
      /\ first \subseteq Entries /\ left \in BOOLEAN /\ changes \in 0 .. MaxChanges
      /\ ~left /\ ~query.search =>
           \A e \in first : e \in ToSet(got) \/ InFront(Listed(rows, query), Behind(query), e)
  BY DEF WalkInv
<1>2. /\ page > 1 /\ page <= pages /\ changes < MaxChanges /\ changes' = changes + 1
      /\ left' = (left \/ ~(ToSet(Listed(rows, query)) \subseteq ToSet(Listed(rows', query))))
      /\ query' = query /\ page' = page /\ pages' = pages /\ got' = got /\ first' = first
  BY DEF Change
<1>3. PICK k \in Kinds, i \in Ids, row \in Changed :
        rows' = [rows EXCEPT ![k] = [rows[k] EXCEPT ![i] = row]]
  BY DEF Change
<1>4. rows' \in Tables
  <2>1. rows[k] \in [Ids -> Rows \cup {NoRow}] /\ row \in Rows
    BY <1>1, ListingAssumption DEF Tables
  <2>2. [rows[k] EXCEPT ![i] = row] \in [Ids -> Rows \cup {NoRow}]
    BY <2>1
  <2> QED
    BY <1>1, <1>3, <2>2 DEF Tables
<1>5. changes' \in 0 .. MaxChanges /\ changes' # 0 /\ left' \in BOOLEAN
  BY <1>1, <1>2, ListingAssumption
<1>6. Behind(query)' = Behind(query) /\ Behind(query) \in Nat
  BY <1>1, <1>2, QueryIs DEF Behind
<1>7. ASSUME ~left', ~query.search, NEW e \in first
      PROVE  e \in ToSet(got) \/ InFront(Listed(rows', query), Behind(query), e)
  <2>1. ~left /\ ToSet(Listed(rows, query)) \subseteq ToSet(Listed(rows', query))
    BY <1>2, <1>7
  <2>2. CASE InFront(Listed(rows, query), Behind(query), e)
    <3>1. LosesNothing(rows, rows', query)
      BY <2>1 DEF LosesNothing
    <3> QED
      BY <1>1, <1>6, <2>2, <3>1, LaterStaysLater
  <2> QED
    BY <1>1, <1>7, <2>1, <2>2
<1>8. ~(page > pages) /\ page # 1
  BY <1>1, <1>2
<1> QED
  BY <1>1, <1>2, <1>4, <1>5, <1>6, <1>7, <1>8 DEF WalkInv

LEMMA WalkInvHolds == Spec => []WalkInv
<1>1. WalkInv /\ UNCHANGED vars => WalkInv'
  BY DEF WalkInv, vars, Behind
<1>2. WalkInv /\ [Next]_vars => WalkInv'
  BY <1>1, FetchKeepsWalk, ChangeKeepsWalk DEF Next
<1> QED
  BY <1>2, WalkInit, PTL DEF Spec

\* As long as a table fits the store's limit, it is listed as a whole.
LEMMA NothingIsHidden ==
  ASSUME rows \in Tables, query \in Queries
  PROVE  NothingHidden
<1>0. SUFFICES ASSUME \A k \in Kinds : Cardinality({i \in Ids : rows[k][i] # NoRow}) <= PageLimit,
                    NEW n \in DOMAIN query.kinds, NEW i \in Ids,
                    rows[query.kinds[n]][i] # NoRow, query.status \in {"", rows[query.kinds[n]][i].status}
             PROVE  <<query.kinds[n], i>> \in ToSet(Listed(rows, query))
  BY DEF NothingHidden
<1> DEFINE k == query.kinds[n]
           all == Present(rows[k])
           some == {j \in all : j <= i}
<1>1. k \in ToSet(query.kinds) /\ k \in Kinds
  BY <1>0, QueryIs DEF ToSet
<1>2. i \in all /\ all \subseteq Ids
  BY <1>0 DEF Present
<1>3. Cardinality(all) <= PageLimit
  BY <1>0, <1>1 DEF Present
<1>4. Cardinality(some) <= PageLimit
  <2>1. some \subseteq all
    OBVIOUS
  <2> HIDE DEF some, all
  <2>2. IsFiniteSet(all) /\ IsFiniteSet(some)
    BY <1>2, <2>1, ListingAssumption, FS_Subset
  <2>3. Cardinality(some) <= Cardinality(all)
    BY <2>1, <2>2, FS_Subset
  <2>4. Cardinality(some) \in Nat /\ Cardinality(all) \in Nat
    BY <2>2, FS_CardinalityType
  <2> QED
    <3>1. PageLimit \in Nat
      BY ListingAssumption
    <3> QED
      BY <1>3, <2>3, <2>4, <3>1
<1>5. i \in Stored(rows[k])
  BY <1>0, <1>2, <1>4 DEF Stored
<1>6. <<k, i>> \in Wanted(rows, query)
  <2>1. <<k, i>> \in Entries /\ <<k, i>>[1] = k /\ <<k, i>>[2] = i
    BY <1>0, <1>1 DEF Entries
  <2>2. Fits(rows, query, <<k, i>>)
    BY <1>0 DEF Fits
  <2> HIDE DEF k
  <2> QED
    BY <1>1, <1>5, <2>1, <2>2 DEF Wanted
<1> QED
  BY <1>6, ListedIs

\* What a walk that is over has seen.
LEMMA WalkIsTrue == WalkInv => ListsAreTrue /\ AdditionsMissNothing
<1> SUFFICES ASSUME WalkInv PROVE ListsAreTrue /\ AdditionsMissNothing
  OBVIOUS
<1> DEFINE list == Listed(rows, query)
           perPage == query.perPage
<1>1. /\ rows \in Tables /\ query \in Queries /\ page \in Nat \ {0} /\ pages \in Nat
      /\ got \in Seq(Entries) /\ Len(got) <= Behind(query)
      /\ first \subseteq Entries /\ left \in BOOLEAN /\ changes \in 0 .. MaxChanges
      /\ page = 1 => pages = 1
      /\ page > 1 /\ page > pages /\ ~query.search => pages = TotalPages(perPage, Len(list))
      /\ changes = 0 /\ ~query.search => got = SubSeq(list, 1, From(page, perPage, Len(list)))
      /\ ~left /\ ~query.search =>
           \A e \in first : e \in ToSet(got) \/ InFront(list, Behind(query), e)
  BY DEF WalkInv
<1>2. perPage \in Nat \ {0} /\ list \in Seq(Entries)
  BY <1>1, QueryIs, ListedIs
<1>3. Behind(query) = (page - 1) * perPage
  BY DEF Behind
<1> HIDE DEF list, perPage
<1>4. TypeOK
  <2>1. ToSet(got) \subseteq Entries
    BY <1>1 DEF ToSet
  <2> QED
    BY <1>1, <1>3, <2>1 DEF TypeOK, perPage
<1>5. ASSUME Done, ~query.search
      PROVE  From(page, perPage, Len(list)) = Len(list) /\ Len(list) <= (page - 1) * perPage
  <2>1. page > 1 /\ page > pages
    BY <1>1, <1>5 DEF Done
  <2>2. page > TotalPages(perPage, Len(list))
    BY <1>1, <1>5, <2>1
  <2>3. Len(list) \in Nat
    BY <1>2
  <2> QED
    BY <1>1, <1>2, <2>2, <2>3, NothingAfterLast
<1>6. UnchangedWalkIsList
  <2>1. ASSUME Done, changes = 0, ~query.search PROVE got = list
    <3>1. got = SubSeq(list, 1, Len(list))
      BY <1>1, <1>5, <2>1
    <3>2. SubSeq(list, 1, Len(list)) = list
      BY <1>2
    <3> QED
      BY <3>1, <3>2
  <2> QED
    BY <2>1 DEF UnchangedWalkIsList, list
<1>7. AdditionsMissNothing
  <2>1. ASSUME Done, ~left, ~query.search, NEW e \in first PROVE e \in ToSet(got)
    <3>1. ~InFront(list, (page - 1) * perPage, e)
      <4>1. Len(list) \in Nat /\ (page - 1) * perPage \in Nat
        BY <1>1, <1>2
      <4>2. Len(list) <= (page - 1) * perPage
        BY <1>5, <2>1
      <4> QED
        BY <4>1, <4>2 DEF InFront
    <3> QED
      BY <1>1, <1>3, <2>1, <3>1
  <2> QED
    BY <2>1 DEF AdditionsMissNothing
<1>8. NothingHidden
  BY <1>1, NothingIsHidden
<1> QED
  BY <1>4, <1>6, <1>7, <1>8 DEF ListsAreTrue

\* A walk through a list nobody changes yields the list, whatever its length and the size of
\* its pages; and a list of tables below the store's limit is all that was asked for.
THEOREM ListsAreTrueHolds == Spec => []ListsAreTrue
BY WalkInvHolds, WalkIsTrue, PTL

\* A walk during which entries are added, however many and wherever, misses none of those that
\* were listed when it began.
THEOREM AdditionsMissNothingHolds == Spec => []AdditionsMissNothing
BY WalkInvHolds, WalkIsTrue, PTL
=============================================================================
