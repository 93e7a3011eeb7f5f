---------------------------- MODULE KeysetProofs ----------------------------
(* Theorems about Keyset, for lists of any length and any keys: the order of  *)
(* a list is total, and its cursor clause selects exactly what comes after    *)
(* the row the cursor names; and a page that is not empty ends in one row.    *)
EXTENDS Keyset, FiniteSets, FiniteSetTheorems, TLAPS

LEMMA KeysAreIntegers ==
  ASSUME NEW sort \in Sorts, NEW r \in Rows
  PROVE  KeyOf(sort, r) \in Int
BY DEF Sorts, Rows, KeyOf

\* Whatever the sort, two rows with different ids are listed in one order, and
\* only one: the id breaks every tie of the key (SORTS[sort].orderBy).
THEOREM ListsAreTotallyOrdered ==
  ASSUME NEW sort \in Sorts
  PROVE  /\ \A r \in Rows : ~ListedBefore(sort, r, r)
         /\ \A r, s \in Rows : r.id # s.id => ListedBefore(sort, r, s) \/ ListedBefore(sort, s, r)
         /\ \A r, s \in Rows : ~(ListedBefore(sort, r, s) /\ ListedBefore(sort, s, r))
         /\ \A r, s, t \in Rows :
              ListedBefore(sort, r, s) /\ ListedBefore(sort, s, t) => ListedBefore(sort, r, t)
<1>1. \A r \in Rows : KeyOf(sort, r) \in Int /\ r.id \in Int
  BY KeysAreIntegers DEF Rows
<1> QED
  BY <1>1 DEF ListedBefore, Above

\* cursorWhere of the cursor a row was encoded as is "listed after that row":
\* no row with an equal key is skipped or repeated at the seam of two pages
\* (fetchPage, cursorWhere and cursorKeyFor of reviews.repository.ts).
THEOREM CursorResumesAfterItsRow ==
  ASSUME NEW sort \in Sorts, NEW r \in Rows, NEW s \in Rows
  PROVE  ResumesAfter(sort, s, CursorAt(sort, r)) <=> ListedBefore(sort, r, s)
<1>1. KeyOf(sort, r) \in Int /\ KeyOf(sort, s) \in Int /\ r.id \in Int /\ s.id \in Int
  BY KeysAreIntegers DEF Rows
<1>2. /\ CursorAt(sort, r).key = KeyOf(sort, r)
      /\ CursorAt(sort, r).id = r.id
  BY DEF CursorAt
<1> QED
  BY <1>1, <1>2 DEF ResumesAfter, ListedBefore, Above

\* What a cursor selects is a tail of the list: a row listed after a selected
\* one is selected too, so a page never skips a row to take a later one
\* (cursorWhere with the orderBy of SORTS[sort]).
THEOREM CursorSelectsATail ==
  ASSUME NEW sort \in Sorts, NEW r \in Rows, NEW s \in Rows, NEW t \in Rows,
         ListedBefore(sort, s, t), ResumesAfter(sort, s, CursorAt(sort, r))
  PROVE  ResumesAfter(sort, t, CursorAt(sort, r))
BY CursorResumesAfterItsRow, ListsAreTotallyOrdered

\* Rows as a query returns them: the id is the primary key.
DistinctIds(S) == \A r, s \in S : r.id = s.id => r = s

\* Among subsets of a finite set there is one that includes no other.
StrictlyIn(y, x) == y \subseteq x /\ y # x

LEMMA SmallestSubset ==
  ASSUME NEW S, IsFiniteSet(S), NEW T \in SUBSET (SUBSET S), T # {}
  PROVE  \E x \in T : \A y \in T : ~StrictlyIn(y, x)
<1>1. IsWellFoundedOn(StrictSubsetOrdering(S), SUBSET S)
  BY FS_StrictSubsetOrderingWellFounded, FS_FiniteSubsetsOfFinite
<1>2. PICK x \in T : \A y \in T : ~(<<y, x>> \in StrictSubsetOrdering(S))
  BY <1>1, WFMin
<1>3. \A y \in T : <<y, x>> \in StrictSubsetOrdering(S) <=> StrictlyIn(y, x)
  BY DEF StrictSubsetOrdering, StrictlyIn
<1> QED
  BY <1>2, <1>3

\* A list that is not empty has a first and a last row, whatever the sort: what
\* take: limit keeps begins somewhere, and there is a row for the cursor to name.
THEOREM ListsHaveEnds ==
  ASSUME NEW sort \in Sorts, NEW S, IsFiniteSet(S), S \subseteq Rows, DistinctIds(S), S # {}
  PROVE  /\ \E first \in S : \A s \in S \ {first} : ListedBefore(sort, first, s)
         /\ \E last \in S : \A s \in S \ {last} : ListedBefore(sort, s, last)
<1>1. /\ \A r \in S : ~ListedBefore(sort, r, r)
      /\ \A r, s \in S : r # s => ListedBefore(sort, r, s) \/ ListedBefore(sort, s, r)
      /\ \A r, s, t \in S :
           ListedBefore(sort, r, s) /\ ListedBefore(sort, s, t) => ListedBefore(sort, r, t)
  BY ListsAreTotallyOrdered DEF DistinctIds
<1>2. \E first \in S : \A s \in S \ {first} : ListedBefore(sort, first, s)
  <2> DEFINE before(r) == {s \in S : ListedBefore(sort, s, r)}
             T == {before(r) : r \in S}
  <2>1. T \in SUBSET (SUBSET S) /\ T # {}
    OBVIOUS
  <2>2. PICK x \in T : \A y \in T : ~StrictlyIn(y, x)
    <3> HIDE DEF T
    <3> QED
      BY <2>1, SmallestSubset
  <2>3. PICK first \in S : x = before(first)
    BY <2>2
  <2>4. \A s \in S : ~ListedBefore(sort, s, first)
    <3> SUFFICES ASSUME NEW s \in S, ListedBefore(sort, s, first) PROVE FALSE
      OBVIOUS
    <3>1. before(s) \subseteq before(first) /\ s \in before(first) /\ s \notin before(s)
      BY <1>1
    <3> QED
      BY <2>2, <2>3, <3>1 DEF StrictlyIn
  <2> QED
    BY <1>1, <2>4
<1>3. \E last \in S : \A s \in S \ {last} : ListedBefore(sort, s, last)
  <2> DEFINE after(r) == {s \in S : ListedBefore(sort, r, s)}
             T == {after(r) : r \in S}
  <2>1. T \in SUBSET (SUBSET S) /\ T # {}
    OBVIOUS
  <2>2. PICK x \in T : \A y \in T : ~StrictlyIn(y, x)
    <3> HIDE DEF T
    <3> QED
      BY <2>1, SmallestSubset
  <2>3. PICK last \in S : x = after(last)
    BY <2>2
  <2>4. \A s \in S : ~ListedBefore(sort, last, s)
    <3> SUFFICES ASSUME NEW s \in S, ListedBefore(sort, last, s) PROVE FALSE
      OBVIOUS
    <3>1. after(s) \subseteq after(last) /\ s \in after(last) /\ s \notin after(s)
      BY <1>1
    <3> QED
      BY <2>2, <2>3, <3>1 DEF StrictlyIn
  <2> QED
    BY <1>1, <2>4
<1> QED
  BY <1>2, <1>3

\* What take: limit keeps of a list.
Kept(sort, S, limit) == {r \in S : Cardinality({s \in S : ListedBefore(sort, s, r)}) < limit}
IsLast(sort, S, last) == last \in S /\ \A s \in S \ {last} : ListedBefore(sort, s, last)

\* The first limit rows of a list that has any end in one row, and what is left
\* out is exactly what is listed after it: nextCursor, which names that row,
\* divides the list (slice(0, limit) in fetchPage).
THEOREM PagesEndInOneRow ==
  ASSUME NEW sort \in Sorts, NEW S, IsFiniteSet(S), S \subseteq Rows, DistinctIds(S), S # {},
         NEW limit \in Nat \ {0}
  PROVE  /\ \E last \in S : IsLast(sort, Kept(sort, S, limit), last)
         /\ \A last \in S : IsLast(sort, Kept(sort, S, limit), last) =>
              \A r \in S : r \in Kept(sort, S, limit) <=> ~ListedBefore(sort, last, r)
<1> DEFINE before(r) == {s \in S : ListedBefore(sort, s, r)}
           kept == Kept(sort, S, limit)
<1>1. /\ \A r \in S : ~ListedBefore(sort, r, r)
      /\ \A r, s \in S : r # s => ListedBefore(sort, r, s) \/ ListedBefore(sort, s, r)
      /\ \A r, s \in S : ~(ListedBefore(sort, r, s) /\ ListedBefore(sort, s, r))
      /\ \A r, s, t \in S :
           ListedBefore(sort, r, s) /\ ListedBefore(sort, s, t) => ListedBefore(sort, r, t)
  BY ListsAreTotallyOrdered DEF DistinctIds
<1>2. kept \subseteq S /\ \A r \in S : r \in kept <=> Cardinality(before(r)) < limit
  BY DEF Kept
<1> HIDE DEF kept
<1>3. kept # {}
  <2>1. PICK first \in S : \A s \in S \ {first} : ListedBefore(sort, first, s)
    BY ListsHaveEnds
  <2>2. before(first) = {}
    BY <1>1, <2>1
  <2>3. Cardinality(before(first)) = 0
    BY <2>2, FS_EmptySet
  <2> QED
    BY <1>2, <2>3
<1>4. \E last \in S : IsLast(sort, kept, last)
  <2>1. IsFiniteSet(kept) /\ kept \subseteq Rows /\ DistinctIds(kept)
    BY <1>2, FS_Subset DEF DistinctIds
  <2>2. \E r \in kept : \A s \in kept \ {r} : ListedBefore(sort, s, r)
    BY <1>3, <2>1, ListsHaveEnds
  <2> QED
    BY <1>2, <2>2 DEF IsLast
<1>5. ASSUME NEW r \in S, NEW s \in S, ListedBefore(sort, r, s), s \in kept
      PROVE  r \in kept
  <2>1. before(r) \subseteq before(s)
    BY <1>1, <1>5
  <2>2. IsFiniteSet(before(r)) /\ IsFiniteSet(before(s))
    BY FS_Subset
  <2>3. Cardinality(before(r)) <= Cardinality(before(s))
    BY <2>1, <2>2, FS_Subset
  <2>4. Cardinality(before(r)) \in Nat /\ Cardinality(before(s)) \in Nat
    BY <2>2, FS_CardinalityType
  <2>5. Cardinality(before(s)) < limit
    BY <1>2, <1>5
  <2>6. Cardinality(before(r)) < limit
    BY <2>3, <2>4, <2>5
  <2> QED
    BY <1>2, <2>6
<1>6. ASSUME NEW last \in S, IsLast(sort, kept, last), NEW r \in S
      PROVE  r \in kept <=> ~ListedBefore(sort, last, r)
  BY <1>1, <1>5, <1>6 DEF IsLast
<1> QED
  BY <1>4, <1>6 DEF kept

\* ... and a list no longer than that is kept whole.
LEMMA ShortListsAreKept ==
  ASSUME NEW sort \in Sorts, NEW S, IsFiniteSet(S), S \subseteq Rows,
         NEW limit \in Nat, ~(Cardinality(S) > limit), NEW r \in S
  PROVE  r \in Kept(sort, S, limit)
<1> DEFINE before == {s \in S : ListedBefore(sort, s, r)}
<1>1. before \subseteq S /\ before # S
  BY ListsAreTotallyOrdered
<1>2. IsFiniteSet(before) /\ Cardinality(before) <= Cardinality(S) /\ Cardinality(before) # Cardinality(S)
  BY <1>1, FS_Subset
<1>3. Cardinality(before) \in Nat /\ Cardinality(S) \in Nat
  BY <1>2, FS_CardinalityType
<1> QED
  BY <1>2, <1>3 DEF Kept

\* The least-number principle, for sets of natural numbers.
LEMMA LeastNumber ==
  ASSUME NEW S, S \subseteq Nat, S # {}
  PROVE  \E n \in S : \A m \in S : n <= m
<1>1. PICK n \in S : \A m \in S : ~(<<m, n>> \in OpToRel(<, Nat))
  BY NatLessThanWellFounded, WFMin
<1>2. \A m \in S : <<m, n>> \in OpToRel(<, Nat) <=> m < n
  BY DEF OpToRel
<1>3. \A m \in S : m \in Nat /\ ~(m < n)
  BY <1>1, <1>2
<1> QED
  BY <1>3
=============================================================================
