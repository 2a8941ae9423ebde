------------------------- MODULE CatalogQueryProofs -------------------------
(***************************************************************************)
(* Proofs about CatalogQuery, for catalogues of every size: the sort is a  *)
(* permutation into the SELECT's order and leaves sorted rows alone, the   *)
(* index finds what the feed shows, and the pages of a query tile it.      *)
(***************************************************************************)
EXTENDS CatalogQuery, FiniteSetTheorems, SequenceTheorems, WellFoundedInduction, TLAPS

-----------------------------------------------------------------------------
(* The order.                                                              *)

LEMMA SortKeys ==
  ASSUME NEW a \in Item
  PROVE  a.score \in Int /\ Date(a) \in Nat /\ (Date(a) = 0 <=> a.published_at = None)
BY QueryAssumption DEF Item, Date

(* Rows are ordered by score, then by date, then by their place.           *)
LEMMA Lexicographic ==
  ASSUME NEW rs \in Seq(Item), NEW i \in 1..Len(rs), NEW j \in 1..Len(rs)
  PROVE  Precedes(rs, i, j) <=>
           \/ rs[i].score > rs[j].score
           \/ rs[i].score = rs[j].score /\ Date(rs[i]) > Date(rs[j])
           \/ rs[i].score = rs[j].score /\ Date(rs[i]) = Date(rs[j]) /\ i < j
<1>1. rs[i] \in Item /\ rs[j] \in Item /\ i \in Int /\ j \in Int
  OBVIOUS
<1>2. /\ rs[i].score \in Int /\ rs[j].score \in Int
      /\ Date(rs[i]) \in Nat /\ Date(rs[j]) \in Nat
  BY <1>1, SortKeys
<1> QED
  BY <1>1, <1>2 DEF Precedes, Ahead

LEMMA StrictOrder ==
  ASSUME NEW rs \in Seq(Item), NEW i \in 1..Len(rs), NEW j \in 1..Len(rs),
         NEW k \in 1..Len(rs)
  PROVE  /\ ~Precedes(rs, i, i)
         /\ i = j \/ Precedes(rs, i, j) \/ Precedes(rs, j, i)
         /\ Precedes(rs, i, j) /\ Precedes(rs, j, k) => Precedes(rs, i, k)
<1>1. rs[i] \in Item /\ rs[j] \in Item /\ rs[k] \in Item /\ i \in Int /\ j \in Int /\ k \in Int
  OBVIOUS
<1>2. /\ rs[i].score \in Int /\ rs[j].score \in Int /\ rs[k].score \in Int
      /\ Date(rs[i]) \in Nat /\ Date(rs[j]) \in Nat /\ Date(rs[k]) \in Nat
  BY <1>1, SortKeys
<1>3. ~Precedes(rs, i, i)
  BY <1>1, <1>2, Lexicographic
<1>4. i = j \/ Precedes(rs, i, j) \/ Precedes(rs, j, i)
  BY <1>1, <1>2, Lexicographic
<1>5. Precedes(rs, i, j) /\ Precedes(rs, j, k) => Precedes(rs, i, k)
  BY <1>1, <1>2, Lexicographic, SMTT(30)
<1> QED
  BY <1>3, <1>4, <1>5

-----------------------------------------------------------------------------
(* The places.                                                             *)

(* The rows that come before row j.                                        *)
RowsAhead(rs, j) == {i \in 1..Len(rs) : Precedes(rs, i, j)}

LEMMA PlaceFacts ==
  ASSUME NEW rs \in Seq(Item), NEW j \in 1..Len(rs)
  PROVE  /\ IsFiniteSet(RowsAhead(rs, j)) /\ Cardinality(RowsAhead(rs, j)) \in Nat
         /\ Place(rs, j) = 1 + Cardinality(RowsAhead(rs, j))
         /\ Place(rs, j) \in 1..Len(rs)
<1>1. Len(rs) \in Nat /\ DOMAIN rs = 1..Len(rs)
  OBVIOUS
<1>2. /\ IsFiniteSet(1..Len(rs)) /\ Cardinality(1..Len(rs)) = Len(rs)
  BY <1>1, FS_Interval, SMTT(30)
<1>3. /\ IsFiniteSet((1..Len(rs)) \ {j})
      /\ Cardinality((1..Len(rs)) \ {j}) = Len(rs) - 1
  BY <1>2, FS_RemoveElement
<1>4. RowsAhead(rs, j) \subseteq (1..Len(rs)) \ {j}
  BY StrictOrder DEF RowsAhead
<1>5. IsFiniteSet(RowsAhead(rs, j)) /\ Cardinality(RowsAhead(rs, j)) <= Len(rs) - 1
  BY <1>3, <1>4, FS_Subset
<1>6. Cardinality(RowsAhead(rs, j)) \in Nat
  BY <1>5, FS_CardinalityType
<1>7. Place(rs, j) = 1 + Cardinality(RowsAhead(rs, j))
  BY <1>1 DEF Place, RowsAhead
<1> QED
  BY <1>1, <1>5, <1>6, <1>7

(* Who precedes has the lower place.                                       *)
LEMMA PlaceMonotone ==
  ASSUME NEW rs \in Seq(Item), NEW i \in 1..Len(rs), NEW j \in 1..Len(rs),
         Precedes(rs, i, j)
  PROVE  Place(rs, i) < Place(rs, j)
<1>1. RowsAhead(rs, i) \subseteq RowsAhead(rs, j)
  BY StrictOrder DEF RowsAhead
<1>2. i \in RowsAhead(rs, j) /\ i \notin RowsAhead(rs, i)
  BY StrictOrder DEF RowsAhead
<1>3. /\ Cardinality(RowsAhead(rs, i)) <= Cardinality(RowsAhead(rs, j))
      /\ Cardinality(RowsAhead(rs, i)) # Cardinality(RowsAhead(rs, j))
  BY <1>1, <1>2, PlaceFacts, FS_Subset
<1> QED
  BY <1>3, PlaceFacts

(* Every place is taken by one row: among n rows with different places of  *)
(* 1..n none is left out.                                                  *)
LEMMA OnePerPlace ==
  ASSUME NEW rs \in Seq(Item), NEW k \in 1..Len(rs)
  PROVE  \E j \in 1..Len(rs) : Place(rs, j) = k
<1> DEFINE n == Len(rs)
           P == [j \in 1..n |-> Place(rs, j)]
<1>1. n \in Nat
  OBVIOUS
<1>2. P \in [1..n -> 1..n]
  BY PlaceFacts
<1>3. \A i, j \in 1..n : P[i] = P[j] => i = j
  <2> SUFFICES ASSUME NEW i \in 1..n, NEW j \in 1..n, Place(rs, i) = Place(rs, j), i # j
               PROVE  FALSE
    OBVIOUS
  <2>1. Precedes(rs, i, j) \/ Precedes(rs, j, i)
    BY StrictOrder
  <2>2. Place(rs, i) < Place(rs, j) \/ Place(rs, j) < Place(rs, i)
    BY <2>1, PlaceMonotone
  <2>3. Place(rs, i) \in Nat
    BY PlaceFacts
  <2> QED
    BY <2>2, <2>3
<1> HIDE DEF P
<1>4. P \in Injection(1..n, 1..n)
  BY <1>2, <1>3 DEF Injection, IsInjective
<1>5. IsFiniteSet(1..n)
  BY <1>1, FS_Interval
<1>6. P \in Surjection(1..n, 1..n)
  BY <1>4, <1>5, FS_Injection
<1>7. \E j \in 1..n : P[j] = k
  BY <1>6 DEF Surjection
<1> QED
  BY <1>7 DEF P

(* The row that the feed has at place k.                                   *)
Origin(rs, k) == CHOOSE j \in DOMAIN rs : Place(rs, j) = k

LEMMA FeedIsPermutation ==
  ASSUME NEW rs \in Seq(Item)
  PROVE  /\ DOMAIN Feed(rs) = 1..Len(rs) /\ Feed(rs) \in Seq(Item) /\ Len(Feed(rs)) = Len(rs)
         /\ \A k \in 1..Len(rs) : /\ Origin(rs, k) \in 1..Len(rs)
                                  /\ Place(rs, Origin(rs, k)) = k
                                  /\ Feed(rs)[k] = rs[Origin(rs, k)]
         /\ \A j \in 1..Len(rs) : Place(rs, j) \in 1..Len(rs) /\ Origin(rs, Place(rs, j)) = j
         /\ \A k, l \in 1..Len(rs) : k < l => Precedes(rs, Origin(rs, k), Origin(rs, l))
<1>1. Len(rs) \in Nat /\ DOMAIN rs = 1..Len(rs) /\ rs \in [1..Len(rs) -> Item]
  OBVIOUS
<1>2. ASSUME NEW k \in 1..Len(rs)
      PROVE  Origin(rs, k) \in 1..Len(rs) /\ Place(rs, Origin(rs, k)) = k
  BY <1>1, OnePerPlace DEF Origin
<1>3. Feed(rs) = [k \in 1..Len(rs) |-> rs[Origin(rs, k)]]
  BY <1>1 DEF Feed, Origin
<1>4. Feed(rs) \in [1..Len(rs) -> Item]
  BY <1>1, <1>2, <1>3
<1>5. Feed(rs) \in Seq(Item) /\ Len(Feed(rs)) = Len(rs)
  BY <1>1, <1>4
<1>6. ASSUME NEW k \in 1..Len(rs), NEW l \in 1..Len(rs), k < l
      PROVE  Precedes(rs, Origin(rs, k), Origin(rs, l))
  <2>1. Origin(rs, k) # Origin(rs, l)
    BY <1>1, <1>2, <1>6
  <2>2. ~Precedes(rs, Origin(rs, l), Origin(rs, k))
    <3> SUFFICES ASSUME Precedes(rs, Origin(rs, l), Origin(rs, k)) PROVE FALSE
      OBVIOUS
    <3>1. l < k
      BY <1>2, PlaceMonotone
    <3> QED
      BY <1>1, <1>6, <3>1
  <2> QED
    BY <1>2, <2>1, <2>2, StrictOrder
<1>7. ASSUME NEW j \in 1..Len(rs)
      PROVE  Place(rs, j) \in 1..Len(rs) /\ Origin(rs, Place(rs, j)) = j
  <2>1. Place(rs, j) \in 1..Len(rs)
    BY PlaceFacts
  <2> DEFINE i == Origin(rs, Place(rs, j))
  <2>2. i \in 1..Len(rs) /\ Place(rs, i) = Place(rs, j)
    BY <1>2, <2>1
  <2> HIDE DEF i
  <2>3. ~Precedes(rs, i, j) /\ ~Precedes(rs, j, i)
    <3>1. ~(Place(rs, i) < Place(rs, j)) /\ ~(Place(rs, j) < Place(rs, i))
      BY <1>1, <2>1, <2>2
    <3> QED
      BY <2>2, <3>1, PlaceMonotone
  <2>4. i = j
    BY <2>2, <2>3, StrictOrder
  <2> QED
    BY <2>1, <2>4 DEF i
<1> QED
  BY <1>2, <1>3, <1>4, <1>5, <1>6, <1>7

-----------------------------------------------------------------------------
(* The feed against the SELECT.                                            *)

LEMMA FeedSorted ==
  ASSUME NEW rs \in Seq(Item)
  PROVE  SqlOrdered(Feed(rs))
<1> SUFFICES ASSUME NEW k \in 1..Len(rs), NEW l \in 1..Len(rs), k < l
             PROVE  LET a == Feed(rs)[k]
                        b == Feed(rs)[l]
                    IN  \/ a.score > b.score
                        \/ /\ a.score = b.score
                           /\ \/ b.published_at = None
                              \/ a.published_at # None /\ a.published_at >= b.published_at
  BY FeedIsPermutation DEF SqlOrdered
<1> DEFINE i == Origin(rs, k)
           j == Origin(rs, l)
<1>1. /\ i \in 1..Len(rs) /\ j \in 1..Len(rs) /\ Precedes(rs, i, j)
      /\ Feed(rs)[k] = rs[i] /\ Feed(rs)[l] = rs[j]
  BY FeedIsPermutation
<1> HIDE DEF i, j
<1>2. rs[i] \in Item /\ rs[j] \in Item
  BY <1>1
<1>3. /\ rs[i].score \in Int /\ rs[j].score \in Int
      /\ Date(rs[i]) \in Nat /\ Date(rs[j]) \in Nat
      /\ Date(rs[i]) = 0 <=> rs[i].published_at = None
      /\ Date(rs[j]) = 0 <=> rs[j].published_at = None
  BY <1>2, SortKeys
<1>4. \/ rs[i].score > rs[j].score
      \/ rs[i].score = rs[j].score /\ Date(rs[i]) >= Date(rs[j])
  BY <1>1, <1>3, Lexicographic
<1>5. Date(rs[i]) >= Date(rs[j]) =>
        \/ rs[j].published_at = None
        \/ rs[i].published_at # None /\ rs[i].published_at >= rs[j].published_at
  BY <1>3 DEF Date
<1> QED
  BY <1>1, <1>4, <1>5

(* Rows in a SELECT's order keep their places: the sort is stable.         *)
LEMMA SortedStay ==
  ASSUME NEW rs \in Seq(Item), SqlOrdered(rs)
  PROVE  Feed(rs) = rs
<1>1. Len(rs) \in Nat /\ DOMAIN rs = 1..Len(rs) /\ rs \in [1..Len(rs) -> Item]
  OBVIOUS
<1>2. ASSUME NEW i \in 1..Len(rs), NEW j \in 1..Len(rs), i < j
      PROVE  Precedes(rs, i, j)
  <2>1. rs[i] \in Item /\ rs[j] \in Item
    BY <1>1
  <2>2. /\ rs[i].score \in Int /\ rs[j].score \in Int
        /\ Date(rs[i]) \in Nat /\ Date(rs[j]) \in Nat
        /\ Date(rs[i]) = 0 <=> rs[i].published_at = None
        /\ Date(rs[j]) = 0 <=> rs[j].published_at = None
    BY <2>1, SortKeys
  <2>3. \/ rs[i].score > rs[j].score
        \/ /\ rs[i].score = rs[j].score
           /\ \/ rs[j].published_at = None
              \/ rs[i].published_at # None /\ rs[i].published_at >= rs[j].published_at
    BY <1>1, <1>2 DEF SqlOrdered
  <2>4. rs[i].score > rs[j].score
        \/ (rs[i].score = rs[j].score /\ Date(rs[i]) >= Date(rs[j]))
    BY <2>2, <2>3 DEF Date
  <2> QED
    BY <1>2, <2>2, <2>4, Lexicographic
<1>3. ASSUME NEW j \in 1..Len(rs) PROVE Place(rs, j) = j
  <2>1. RowsAhead(rs, j) = 1..(j - 1)
    <3>1. ASSUME NEW i \in 1..Len(rs) PROVE Precedes(rs, i, j) <=> i < j
      <4>1. i < j => Precedes(rs, i, j)
        BY <1>2
      <4>2. j < i => Precedes(rs, j, i)
        BY <1>2
      <4>3. Precedes(rs, i, j) => ~Precedes(rs, j, i) /\ i # j
        BY StrictOrder
      <4> QED
        BY <1>1, <4>1, <4>2, <4>3
    <3> QED
      BY <1>1, <3>1 DEF RowsAhead
  <2>2. Cardinality(1..(j - 1)) = j - 1
    <3>1. 1 \in Int /\ j - 1 \in Int /\ j - 1 >= 0
      BY <1>1
    <3> QED
      BY <3>1, FS_Interval
  <2> QED
    BY <1>1, <2>1, <2>2, PlaceFacts
<1>4. ASSUME NEW k \in 1..Len(rs) PROVE Feed(rs)[k] = rs[k]
  BY <1>3, FeedIsPermutation
<1> QED
  BY <1>1, <1>4, FeedIsPermutation, SeqEqual

-----------------------------------------------------------------------------
(* A snapshot is the sorted vector of rows with different ids.             *)
CatalogInv ==
  /\ rows \in Seq(Item)
  /\ \A i, j \in 1..Len(rows) : rows[i].id = rows[j].id => i = j
  /\ items = Feed(rows)

LEMMA CatalogInvariant == CatalogSpec => []CatalogInv
<1>1. CatalogInit => CatalogInv
  <2> SUFFICES ASSUME rows = <<>>, items = <<>> PROVE CatalogInv
    BY DEF CatalogInit
  <2>1. rows \in Seq(Item) /\ Len(rows) = 0 /\ DOMAIN rows = {}
    OBVIOUS
  <2>2. SqlOrdered(rows)
    BY <2>1 DEF SqlOrdered
  <2>3. \A i, j \in 1..Len(rows) : rows[i].id = rows[j].id => i = j
    BY <2>1
  <2>4. items = Feed(rows)
    BY <2>1, <2>2, SortedStay
  <2> QED
    BY <2>1, <2>3, <2>4 DEF CatalogInv
<1>2. CatalogInv /\ [CatalogNext]_catalogVars => CatalogInv'
  <2>1. ASSUME CatalogInv, UNCHANGED catalogVars PROVE CatalogInv'
    BY <2>1 DEF CatalogInv, catalogVars
  <2>2. ASSUME CatalogInv, NEW a \in Item, \A k \in DOMAIN rows : rows[k].id # a.id,
               rows' = Append(rows, a), items' = Feed(rows')
        PROVE  CatalogInv'
    <3>1. Len(rows) \in Nat /\ DOMAIN rows = 1..Len(rows)
      BY <2>2 DEF CatalogInv
    <3>2. /\ rows' \in Seq(Item) /\ Len(rows') = Len(rows) + 1 /\ rows'[Len(rows) + 1] = a
          /\ \A k \in 1..Len(rows) : rows'[k] = rows[k]
      BY <2>2 DEF CatalogInv
    <3>3. ASSUME NEW i \in 1..Len(rows'), NEW j \in 1..Len(rows'), rows'[i].id = rows'[j].id
          PROVE  i = j
      BY <2>2, <3>1, <3>2, <3>3 DEF CatalogInv
    <3> QED
      BY <2>2, <3>2, <3>3 DEF CatalogInv
  <2> QED
    BY <2>1, <2>2 DEF CatalogNext
<1> QED
  BY <1>1, <1>2, PTL DEF CatalogSpec

(* Catalog's constructor and find: whatever the number and the order of    *)
(* the rows, the feed is in the SELECT's order, rows that already are stay *)
(* as they are, equal and undated ones included, and an id leads to the    *)
(* item that the feed shows under it and to none that was not loaded.      *)
THEOREM ViewsAlwaysAgree == CatalogSpec => []ViewsAgree
<1>1. CatalogInv => ViewsAgree
  <2> SUFFICES ASSUME CatalogInv PROVE ViewsAgree
    OBVIOUS
  <2> DEFINE n == Len(rows)
  <2>1. /\ rows \in Seq(Item) /\ items = Feed(rows) /\ DOMAIN rows = 1..n
        /\ \A i, j \in 1..n : rows[i].id = rows[j].id => i = j
    BY DEF CatalogInv
  <2>2. SqlOrdered(items) /\ (SqlOrdered(rows) => items = rows)
    BY <2>1, FeedSorted, SortedStay
  <2>3. /\ DOMAIN items = 1..n /\ items \in Seq(Item)
        /\ \A k \in 1..n : /\ Origin(rows, k) \in 1..n /\ Place(rows, Origin(rows, k)) = k
                           /\ items[k] = rows[Origin(rows, k)]
        /\ \A j \in 1..n : Place(rows, j) \in 1..n /\ Origin(rows, Place(rows, j)) = j
    BY <2>1, FeedIsPermutation
  <2> HIDE DEF n
  <2>4. \A k, l \in 1..n : items[k].id = items[l].id => k = l
    <3> SUFFICES ASSUME NEW k \in 1..n, NEW l \in 1..n, items[k].id = items[l].id
                 PROVE  k = l
      OBVIOUS
    <3>1. Origin(rows, k) = Origin(rows, l)
      BY <2>1, <2>3
    <3> QED
      BY <2>3, <3>1
  <2>5. ASSUME NEW k \in DOMAIN items PROVE FindItem(items[k].id) = items[k]
    <3>1. ById(items[k].id) = {k}
      BY <2>3, <2>4 DEF ById
    <3> QED
      BY <3>1 DEF FindItem
  <2>6. ASSUME NEW id \in Ids
        PROVE  FindItem(id) = None <=> \A k \in DOMAIN rows : rows[k].id # id
    <3>1. ById(id) = {} <=> \A k \in DOMAIN rows : rows[k].id # id
      <4>1. ASSUME NEW k \in 1..n, items[k].id = id
            PROVE  Origin(rows, k) \in 1..n /\ rows[Origin(rows, k)].id = id
        BY <2>3, <4>1
      <4>2. ASSUME NEW j \in 1..n, rows[j].id = id
            PROVE  Place(rows, j) \in 1..n /\ items[Place(rows, j)].id = id
        BY <2>3, <4>2
      <4>3. (\E k \in 1..n : items[k].id = id) <=> (\E j \in 1..n : rows[j].id = id)
        BY <4>1, <4>2
      <4>4. ById(id) = {} <=> ~(\E k \in 1..n : items[k].id = id)
        BY <2>3 DEF ById
      <4> QED
        BY <2>1, <4>3, <4>4
    <3>2. ASSUME ById(id) # {} PROVE FindItem(id) # None
      <4>1. \A k \in ById(id) : items[k] \in Item
        <5>1. items \in Seq(Item)
          BY <2>3
        <5>2. \A k \in DOMAIN items : items[k] \in Item
          BY <5>1
        <5> QED
          BY <5>2 DEF ById
      <4>2. PICK k \in ById(id) : FindItem(id) = items[k]
        BY <3>2 DEF FindItem
      <4> QED
        BY <4>1, <4>2, QueryAssumption
    <3>3. ById(id) = {} => FindItem(id) = None
      BY DEF FindItem
    <3> QED
      BY <3>1, <3>2, <3>3
  <2> QED
    BY <2>2, <2>5, <2>6 DEF ViewsAgree
<1> QED
  BY <1>1, CatalogInvariant, PTL

-----------------------------------------------------------------------------
(* Induction over the natural numbers.  The library's induction theorems   *)
(* take an operator; that a set of numbers has a least element is first    *)
(* order and follows from its well-founded relations.                      *)

(* A set of natural numbers that has an element has a least one.           *)
LEMMA LeastNumber ==
  ASSUME NEW T \in SUBSET Nat, T # {}
  PROVE  \E n \in T : \A m \in T : n <= m
<1> DEFINE R == OpToRel(<, Nat)
<1>1. IsWellFoundedOn(R, Nat)
  BY NatLessThanWellFounded
<1>2. \A x, y \in Nat : <<y, x>> \in R <=> y < x
  BY DEF OpToRel
<1> HIDE DEF R
<1>3. \E x \in T : \A y \in T : ~ (<<y, x>> \in R)
  BY <1>1, WFMin
<1>4. PICK x \in T : \A y \in T : ~ (<<y, x>> \in R)
  BY <1>3
<1>5. ASSUME NEW y \in T PROVE x <= y
  <2>1. x \in Nat /\ y \in Nat /\ ~ (<<y, x>> \in R)
    BY <1>4
  <2>2. ~(y < x)
    BY <1>2, <2>1
  <2> QED
    BY <2>1, <2>2
<1> QED
  BY <1>5

(* Induction, for a set of numbers: it holds 0 and with every number below *)
(* n the next one.                                                         *)
LEMMA Induction ==
  ASSUME NEW n \in Nat, NEW H, 0 \in H, \A i \in 0..n : i \in H /\ i < n => i + 1 \in H
  PROVE  \A i \in 0..n : i \in H
<1> DEFINE T == {i \in 0..n : i \notin H}
<1>1. ASSUME T # {} PROVE FALSE
  <2>1. T \in SUBSET Nat
    OBVIOUS
  <2>2. PICK m \in T : \A k \in T : m <= k
    <3> HIDE DEF T
    <3> QED
      BY <1>1, <2>1, LeastNumber
  <2>3. m \in Nat /\ m <= n /\ m # 0 /\ m \notin H
    OBVIOUS
  <2>4. m - 1 \in 0..n /\ m - 1 < n /\ (m - 1) + 1 = m /\ m - 1 < m
    BY <2>3
  <2>5. m - 1 \in H
    BY <2>2, <2>4
  <2> QED
    BY <2>3, <2>4, <2>5
<1> QED
  BY <1>1

(* The largest element of a set of positions.                              *)
LEMMA MaxFacts ==
  ASSUME NEW n \in Nat, NEW s \in SUBSET (1..n), s # {}
  PROVE  Max(s) \in s /\ \A y \in s : y <= Max(s)
<1> DEFINE T == {n - x : x \in s}
<1>1. T \in SUBSET Nat /\ T # {}
  OBVIOUS
<1>2. PICK m \in T : \A k \in T : m <= k
  <2> HIDE DEF T
  <2> QED
    BY <1>1, LeastNumber
<1>3. PICK x \in s : m = n - x
  OBVIOUS
<1>4. \A y \in s : x >= y
  <2> SUFFICES ASSUME NEW y \in s PROVE x >= y
    OBVIOUS
  <2>1. n - x <= n - y
    BY <1>2, <1>3
  <2> QED
    BY <2>1
<1>5. Max(s) \in s /\ \A y \in s : Max(s) >= y
  BY <1>4 DEF Max
<1> QED
  BY <1>5

(* An upper bound in the set is its largest element.                       *)
LEMMA MaxIs ==
  ASSUME NEW n \in Nat, NEW s \in SUBSET (1..n), NEW x \in s, \A y \in s : y <= x
  PROVE  Max(s) = x
<1>1. Max(s) \in s /\ x <= Max(s)
  BY MaxFacts
<1>2. PICK m : m = Max(s)
  OBVIOUS
<1>3. m \in s /\ x <= m /\ m <= x
  BY <1>1, <1>2
<1>4. m \in 1..n /\ x \in 1..n
  BY <1>3
<1>5. m = x
  BY <1>3, <1>4
<1> QED
  BY <1>2, <1>5

-----------------------------------------------------------------------------
(* The loop of query is a fold; here is its state before the first turn.   *)
Start == [skipped |-> 0, out |-> <<>>, done |-> FALSE]

(* The equation that defines the fold: a set of positions loses its        *)
(* largest element, so 1..j comes from 1..(j - 1) and the item at j.       *)
Turns(g, n, tag, size, offset, limit) ==
  [s \in SUBSET (1..n) |->
     IF s = {} THEN Start
     ELSE Visit(g[s \ {Max(s)}], items[Max(s)], tag, size, offset, limit)]

(* The equation has a solution, so the fold is one.                        *)
LEMMA TurnsExist ==
  ASSUME NEW n \in Nat, NEW tag, NEW size, NEW offset, NEW limit
  PROVE  \E g : g = Turns(g, n, tag, size, offset, limit)
<1> DEFINE Op(v, x) == Visit(v, items[x], tag, size, offset, limit)
           H == {i \in 0..n : \E g : g = Turns(g, i, tag, size, offset, limit)}
<1>1. 0 \in H
  <2>1. SUBSET (1..0) = {{}}
    OBVIOUS
  <2>2. [s \in {{}} |-> Start] = Turns([s \in {{}} |-> Start], 0, tag, size, offset, limit)
    BY <2>1 DEF Turns
  <2> QED
    BY <2>2
<1>2. ASSUME NEW i \in 0..n, i \in H, i < n PROVE i + 1 \in H
  <2>1. PICK g : g = Turns(g, i, tag, size, offset, limit)
    BY <1>2
  <2> HIDE DEF Op
  <2>2. \A s \in SUBSET (1..i) : g[s] = IF s = {} THEN Start ELSE Op(g[s \ {Max(s)}], Max(s))
    BY <2>1 DEF Turns, Op
  <2> DEFINE h == [s \in SUBSET (1..(i + 1)) |-> IF i + 1 \in s THEN Op(g[s \ {i + 1}], i + 1)
                                                ELSE g[s]]
  <2>3. ASSUME NEW s \in SUBSET (1..(i + 1))
        PROVE  h[s] = IF s = {} THEN Start ELSE Op(h[s \ {Max(s)}], Max(s))
    <3>1. i \in Nat /\ i + 1 \in Nat
      OBVIOUS
    <3>2. CASE i + 1 \in s
      <4>1. Max(s) = i + 1
        <5>1. \A y \in s : y <= i + 1
          BY <3>1
        <5> QED
          BY <3>1, <3>2, <5>1, MaxIs
      <4>2. s \ {i + 1} \in SUBSET (1..(i + 1)) /\ i + 1 \notin s \ {i + 1}
        OBVIOUS
      <4>3. h[s \ {i + 1}] = g[s \ {i + 1}]
        BY <4>2
      <4>4. h[s] = Op(g[s \ {i + 1}], i + 1)
        BY <3>2
      <4> QED
        BY <3>2, <4>1, <4>3, <4>4
    <3>3. CASE i + 1 \notin s
      <4>1. s \in SUBSET (1..i) /\ h[s] = g[s]
        BY <3>1, <3>3
      <4>2. CASE s = {}
        BY <2>2, <4>1, <4>2
      <4>3. CASE s # {}
        <5>1. s \ {Max(s)} \in SUBSET (1..(i + 1)) /\ i + 1 \notin s \ {Max(s)}
          BY <3>3
        <5>2. h[s \ {Max(s)}] = g[s \ {Max(s)}]
          BY <5>1
        <5>3. g[s] = Op(g[s \ {Max(s)}], Max(s))
          BY <2>2, <4>1, <4>3
        <5> QED
          BY <4>1, <4>3, <5>2, <5>3
      <4> QED
        BY <4>2, <4>3
    <3> QED
      BY <3>2, <3>3
  <2>4. h = Turns(h, i + 1, tag, size, offset, limit)
    <3>1. h = [s \in SUBSET (1..(i + 1)) |-> h[s]]
      OBVIOUS
    <3> HIDE DEF h
    <3> QED
      BY <2>3, <3>1 DEF Turns, Op
  <2>5. i + 1 \in 0..n
    BY <1>2
  <2> HIDE DEF h
  <2> QED
    BY <2>4, <2>5
<1> HIDE DEF H
<1>3. \A i \in 0..n : i \in H
  BY <1>1, <1>2, Induction
<1> QED
  BY <1>3 DEF H

(* query's loop: what it has after each item of the feed.                  *)
LEMMA QueryTurns ==
  ASSUME items \in Seq(Item), NEW tag, NEW size, NEW offset, NEW limit
  PROVE  \E acc : /\ acc[0] = Start
                  /\ \A j \in 1..Len(items) :
                       acc[j] = Visit(acc[j - 1], items[j], tag, size, offset, limit)
                  /\ Query(tag, size, offset, limit) = acc[Len(items)].out
<1> DEFINE n == Len(items)
<1>1. n \in Nat /\ DOMAIN items = 1..n
  OBVIOUS
<1>2. Query(tag, size, offset, limit) =
         (CHOOSE g : g = Turns(g, n, tag, size, offset, limit))[1..n].out
  <2> HIDE DEF n
  <2> QED
    BY <1>1, Zenon DEF Query, FoldLeft, MapThenFoldSet, Turns, Start
<1> HIDE DEF n
<1>3. PICK g : g = CHOOSE f : f = Turns(f, n, tag, size, offset, limit)
  OBVIOUS
<1>4. g = Turns(g, n, tag, size, offset, limit)
  BY <1>1, <1>3, TurnsExist
<1> DEFINE acc == [j \in 0..n |-> g[1..j]]
<1>5. acc[0] = Start
  <2>1. 1..0 = {} /\ {} \in SUBSET (1..n)
    BY <1>1
  <2> QED
    BY <1>1, <1>4, <2>1 DEF Turns
<1>6. ASSUME NEW j \in 1..n
      PROVE  acc[j] = Visit(acc[j - 1], items[j], tag, size, offset, limit)
  <2>1. /\ j \in Nat /\ j \in 0..n /\ j - 1 \in 0..n /\ 1..j \in SUBSET (1..n) /\ j \in 1..j
        /\ \A y \in 1..j : y <= j
    BY <1>1
  <2>2. Max(1..j) = j
    BY <1>1, <2>1, MaxIs
  <2>3. (1..j) \ {j} = 1..(j - 1) /\ 1..j # {}
    <3>1. ASSUME NEW y PROVE y \in (1..j) \ {j} <=> y \in 1..(j - 1)
      BY <2>1
    <3> QED
      BY <2>1, <3>1
  <2>4. g[1..j] = Visit(g[(1..j) \ {Max(1..j)}], items[Max(1..j)], tag, size, offset, limit)
    BY <1>4, <2>1, <2>3 DEF Turns
  <2> QED
    BY <2>1, <2>2, <2>3, <2>4
<1>7. acc[n] = g[1..n]
  BY <1>1
<1> HIDE DEF acc
<1> QED
  BY <1>2, <1>3, <1>5, <1>6, <1>7 DEF n

-----------------------------------------------------------------------------
(* The items that pass a filter, counted from the front of the feed.       *)
Count(j, tag, size) == Cardinality({k \in 1..j : Matches(items[k], tag, size)})

(* Counting goes up by one at an item that passes, and only there.         *)
LEMMA CountFacts ==
  ASSUME NEW tag, NEW size
  PROVE  /\ Count(0, tag, size) = 0
         /\ \A j \in Nat : Count(j, tag, size) \in Nat
         /\ \A j \in Nat : Count(j + 1, tag, size) =
              IF Matches(items[j + 1], tag, size) THEN Count(j, tag, size) + 1
              ELSE Count(j, tag, size)
         /\ \A i, j \in Nat : i <= j => Count(i, tag, size) <= Count(j, tag, size)
<1> DEFINE M(j) == {k \in 1..j : Matches(items[k], tag, size)}
<1>1. \A j : Count(j, tag, size) = Cardinality(M(j))
  BY DEF Count
<1>2. M(0) = {}
  OBVIOUS
<1>3. \A i, j \in Nat : i <= j => M(i) \subseteq M(j)
  OBVIOUS
<1>4. \A j \in Nat : j + 1 \notin M(j)
  OBVIOUS
<1>5. \A j \in Nat : M(j + 1) = IF Matches(items[j + 1], tag, size) THEN M(j) \cup {j + 1} ELSE M(j)
  <2> SUFFICES ASSUME NEW j \in Nat
               PROVE  M(j + 1) = IF Matches(items[j + 1], tag, size) THEN M(j) \cup {j + 1} ELSE M(j)
    OBVIOUS
  <2>1. \A k : k \in 1..(j + 1) <=> k \in 1..j \/ k = j + 1
    OBVIOUS
  <2>2. CASE Matches(items[j + 1], tag, size)
    BY <2>1, <2>2
  <2>3. CASE ~Matches(items[j + 1], tag, size)
    BY <2>1, <2>3
  <2> QED
    BY <2>2, <2>3
<1>6. \A j \in Nat : IsFiniteSet(M(j))
  <2> SUFFICES ASSUME NEW j \in Nat PROVE IsFiniteSet(M(j))
    OBVIOUS
  <2>1. 1 \in Int /\ j \in Int
    OBVIOUS
  <2>2. IsFiniteSet(1..j) /\ M(j) \subseteq 1..j
    BY <2>1, FS_Interval
  <2> HIDE DEF M
  <2> QED
    BY <2>2, FS_Subset
<1> HIDE DEF M
<1>7. \A j \in Nat : Cardinality(M(j)) \in Nat
  BY <1>6, FS_CardinalityType
<1>8. \A j \in Nat : Cardinality(M(j) \cup {j + 1}) = Cardinality(M(j)) + 1
  BY <1>4, <1>6, FS_AddElement
<1>9. \A i, j \in Nat : i <= j => Cardinality(M(i)) <= Cardinality(M(j))
  BY <1>3, <1>6, FS_Subset
<1>10. Cardinality(M(0)) = 0
  BY <1>2, FS_EmptySet, Zenon
<1> QED
  BY <1>1, <1>5, <1>7, <1>8, <1>9, <1>10

(* The place in the feed of the r-th item that passes a filter.            *)
At(r, tag, size) ==
  CHOOSE k \in DOMAIN items : Matches(items[k], tag, size) /\ Count(k, tag, size) = r

(* Count and At are inverse to each other.                                 *)
LEMMA AtFacts ==
  ASSUME items \in Seq(Item), NEW tag, NEW size
  PROVE  /\ \A k \in 1..Len(items) : Matches(items[k], tag, size) =>
              /\ Count(k, tag, size) \in 1..Count(Len(items), tag, size)
              /\ At(Count(k, tag, size), tag, size) = k
         /\ \A r \in 1..Count(Len(items), tag, size) :
              /\ At(r, tag, size) \in 1..Len(items)
              /\ Matches(items[At(r, tag, size)], tag, size)
              /\ Count(At(r, tag, size), tag, size) = r
<1> DEFINE C(j) == Count(j, tag, size)
           n == Len(items)
           P(k) == Matches(items[k], tag, size)
<1>1. n \in Nat /\ DOMAIN items = 1..n
  OBVIOUS
<1>2. /\ C(0) = 0
      /\ \A j \in Nat : C(j) \in Nat /\ C(j + 1) = IF P(j + 1) THEN C(j) + 1 ELSE C(j)
      /\ \A i, j \in Nat : i <= j => C(i) <= C(j)
  BY CountFacts
<1>3. \A r : At(r, tag, size) = CHOOSE k \in 1..n : P(k) /\ C(k) = r
  BY <1>1 DEF At
<1> HIDE DEF C, n, P
<1>4. ASSUME NEW k \in 1..n
      PROVE  k \in Nat /\ k - 1 \in Nat /\ C(k) \in Nat /\ C(k - 1) \in Nat
             /\ C(k) = IF P(k) THEN C(k - 1) + 1 ELSE C(k - 1)
  <2>1. k \in Nat /\ k - 1 \in Nat /\ (k - 1) + 1 = k
    BY <1>1
  <2> QED
    BY <1>2, <2>1
<1>5. ASSUME NEW k \in 1..n, NEW l \in 1..n, P(l), k < l PROVE C(k) < C(l)
  <2>1. C(l) = C(l - 1) + 1 /\ C(l - 1) \in Nat
    BY <1>4, <1>5
  <2>2. k \in Nat /\ l - 1 \in Nat /\ k <= l - 1
    BY <1>4, <1>5
  <2>3. C(k) <= C(l - 1) /\ C(k) \in Nat
    BY <1>2, <2>2
  <2> QED
    BY <2>1, <2>3
<1>6. ASSUME NEW k \in 1..n, NEW l \in 1..n, P(k), P(l), C(k) = C(l) PROVE k = l
  <2>1. k \in Nat /\ l \in Nat /\ C(k) \in Nat /\ C(l) \in Nat
    BY <1>4
  <2>2. ~(k < l) /\ ~(l < k)
    BY <1>5, <1>6, <2>1
  <2> QED
    BY <2>1, <2>2
<1>7. ASSUME NEW k \in 1..n, P(k)
      PROVE  C(k) \in 1..C(n) /\ At(C(k), tag, size) = k
  <2>1. C(k) = C(k - 1) + 1 /\ C(k - 1) \in Nat /\ k <= n /\ k \in Nat
    BY <1>1, <1>4, <1>7
  <2>2. C(k) <= C(n) /\ C(n) \in Nat
    BY <1>1, <1>2, <2>1
  <2>3. C(k) \in 1..C(n)
    BY <2>1, <2>2
  <2>4. PICK l : l = CHOOSE j \in 1..n : P(j) /\ C(j) = C(k)
    OBVIOUS
  <2>5. l \in 1..n /\ P(l) /\ C(l) = C(k)
    BY <1>7, <2>4
  <2>6. l = k
    BY <1>6, <1>7, <2>5
  <2> QED
    BY <1>3, <2>3, <2>4, <2>6
<1>8. ASSUME NEW r \in 1..C(n)
      PROVE  /\ At(r, tag, size) \in 1..n /\ P(At(r, tag, size))
             /\ C(At(r, tag, size)) = r
  <2> DEFINE T == {j \in Nat : r <= C(j)}
  <2>1. T \in SUBSET Nat /\ n \in T
    BY <1>1, <1>2
  <2> HIDE DEF T
  <2>2. PICK j \in T : \A i \in T : j <= i
    BY <2>1, LeastNumber
  <2> USE DEF T
  <2>3. j \in Nat /\ r <= C(j) /\ j <= n /\ r >= 1 /\ r \in Nat
    BY <1>1, <1>2, <2>1, <2>2
  <2>4. j # 0
    BY <1>2, <2>3
  <2>5. j \in 1..n /\ j - 1 \in Nat /\ j - 1 < j
    BY <1>1, <2>3, <2>4
  <2>6. ~(r <= C(j - 1))
    BY <2>2, <2>3, <2>5
  <2>7. P(j) /\ C(j) = r
    BY <1>4, <2>3, <2>5, <2>6
  <2> QED
    BY <1>3, <2>5, <2>7
<1> QED
  BY <1>7, <1>8 DEF C, n, P

(* What the loop holds after c items that pass the filter.                 *)
PageAfter(acc, c, tag, size, offset, limit) ==
  /\ acc.skipped = (IF c < offset THEN c ELSE offset)
  /\ acc.out \in Seq(Item)
  /\ Len(acc.out) = (IF c <= offset THEN 0 ELSE IF c - offset < limit THEN c - offset ELSE limit)
  /\ \A i \in 1..Len(acc.out) : acc.out[i] = items[At(offset + i, tag, size)]
  /\ acc.done <=> Len(acc.out) >= limit

(* A turn of the loop keeps PageAfter: an item that passes is counted,     *)
(* then shown, then, with the page full, ignored; others change nothing.   *)
LEMMA VisitFacts ==
  ASSUME NEW acc, NEW c \in Nat, NEW tag, NEW size, NEW offset \in Nat, NEW limit \in Nat,
         limit >= 1, PageAfter(acc, c, tag, size, offset, limit), NEW a \in Item,
         acc \in [skipped : Nat, out : Seq(Item), done : BOOLEAN]
  PROVE  LET v == Visit(acc, a, tag, size, offset, limit)
         IN  /\ v \in [skipped : Nat, out : Seq(Item), done : BOOLEAN]
             /\ ~Matches(a, tag, size) => PageAfter(v, c, tag, size, offset, limit)
             /\ Matches(a, tag, size) /\ a = items[At(c + 1, tag, size)]
                  => PageAfter(v, c + 1, tag, size, offset, limit)
<1> DEFINE v == Visit(acc, a, tag, size, offset, limit)
           Typ == [skipped : Nat, out : Seq(Item), done : BOOLEAN]
<1>1. CASE ~Matches(a, tag, size)
  BY <1>1 DEF Visit
<1>2. CASE Matches(a, tag, size) /\ acc.done
  <2>1. v = acc
    BY <1>2 DEF Visit
  <2>2. PageAfter(acc, c + 1, tag, size, offset, limit)
    BY <1>2 DEF PageAfter
  <2> QED
    BY <1>2, <2>1, <2>2
<1>3. CASE Matches(a, tag, size) /\ ~acc.done /\ acc.skipped < offset
  <2>1. /\ v.skipped = acc.skipped + 1 /\ v.out = acc.out /\ v.done = acc.done
        /\ v \in Typ
    BY <1>3 DEF Visit
  <2>2. c < offset
    BY <1>3 DEF PageAfter
  <2>3. PageAfter(v, c + 1, tag, size, offset, limit)
    BY <2>1, <2>2 DEF PageAfter
  <2> QED
    BY <1>3, <2>1, <2>3
<1>4. CASE Matches(a, tag, size) /\ ~acc.done /\ ~(acc.skipped < offset)
  <2>1. v = [acc EXCEPT !.out = Append(acc.out, a), !.done = Len(acc.out) + 1 >= limit]
    BY <1>4 DEF Visit
  <2>2. /\ v.skipped = acc.skipped /\ v.out = Append(acc.out, a)
        /\ v.done <=> Len(acc.out) + 1 >= limit
        /\ v \in Typ
    <3>1. acc.out \in Seq(Item) /\ acc.skipped \in Nat /\ Append(acc.out, a) \in Seq(Item)
      <4>1. acc.out \in Seq(Item) /\ acc.skipped \in Nat
        OBVIOUS
      <4> QED
        BY <4>1
    <3> HIDE DEF v
    <3>2. v.skipped = acc.skipped /\ v.out = Append(acc.out, a)
      BY <2>1
    <3>3. v.done <=> Len(acc.out) + 1 >= limit
      BY <2>1
    <3>4. v \in Typ
      <4>1. v.done \in BOOLEAN
        BY <2>1
      <4>2. v = [skipped |-> v.skipped, out |-> v.out, done |-> v.done]
        BY <2>1
      <4> QED
        BY <3>1, <3>2, <4>1, <4>2
    <3> QED
      BY <3>2, <3>3, <3>4
  <2>3. ~(c < offset) /\ acc.skipped = offset
    BY <1>4 DEF PageAfter
  <2>4. Len(acc.out) = c - offset /\ c - offset < limit
    BY <1>4, <2>3 DEF PageAfter
  <2>5. /\ v.out \in Seq(Item) /\ Len(v.out) = c + 1 - offset
        /\ v.out[c + 1 - offset] = a
        /\ \A i \in 1..(c - offset) : v.out[i] = acc.out[i]
    <3>1. PICK o \in Seq(Item) : o = acc.out
      BY <2>2
    <3>2. v.out = Append(o, a)
      BY <2>2, <3>1
    <3>3. c - offset \in Nat /\ c + 1 - offset = (c - offset) + 1
      BY <2>3
    <3> QED
      BY <2>4, <3>1, <3>2, <3>3
  <2>6. ASSUME a = items[At(c + 1, tag, size)]
        PROVE  \A i \in 1..Len(v.out) : v.out[i] = items[At(offset + i, tag, size)]
    <3> SUFFICES ASSUME NEW i \in 1..(c + 1 - offset)
                 PROVE  v.out[i] = items[At(offset + i, tag, size)]
      BY <2>5
    <3>1. CASE i = c + 1 - offset
      <4>1. offset + i = c + 1
        BY <3>1
      <4> QED
        BY <2>5, <2>6, <3>1, <4>1
    <3>2. CASE i # c + 1 - offset
      <4>1. i \in 1..(c - offset)
        BY <2>3, <3>2
      <4>2. acc.out[i] = items[At(offset + i, tag, size)]
        BY <2>4, <4>1 DEF PageAfter
      <4> QED
        BY <2>5, <4>1, <4>2
    <3> QED
      BY <3>1, <3>2
  <2>7. /\ v.skipped = (IF c + 1 < offset THEN c + 1 ELSE offset)
        /\ Len(v.out) = (IF c + 1 <= offset THEN 0
                         ELSE IF c + 1 - offset < limit THEN c + 1 - offset ELSE limit)
        /\ v.done <=> Len(v.out) >= limit
    BY <2>2, <2>3, <2>4, <2>5
  <2> HIDE DEF v
  <2>8. a = items[At(c + 1, tag, size)] => PageAfter(v, c + 1, tag, size, offset, limit)
    BY <2>5, <2>6, <2>7 DEF PageAfter
  <2> QED
    BY <1>4, <2>2, <2>8 DEF v
<1> QED
  BY <1>1, <1>2, <1>3, <1>4

(* query: a page is the items of the feed that pass the filter, from the   *)
(* offset on, as many as the limit allows.                                 *)
LEMMA QueryIsSlice ==
  ASSUME items \in Seq(Item), NEW tag, NEW size, NEW offset \in Nat, NEW limit \in Nat,
         limit >= 1
  PROVE  LET c == Count(Len(items), tag, size)
             page == Query(tag, size, offset, limit)
         IN  /\ page \in Seq(Item)
             /\ Len(page) = (IF c <= offset THEN 0
                             ELSE IF c - offset < limit THEN c - offset ELSE limit)
             /\ \A i \in 1..Len(page) : page[i] = items[At(offset + i, tag, size)]
<1>1. PICK n \in Nat : n = Len(items) /\ DOMAIN items = 1..n
  OBVIOUS
<1>2. PICK acc : /\ acc[0] = Start
                 /\ \A j \in 1..n :
                      acc[j] = Visit(acc[j - 1], items[j], tag, size, offset, limit)
                 /\ Query(tag, size, offset, limit) = acc[n].out
  BY <1>1, QueryTurns
<1> DEFINE C(j) == Count(j, tag, size)
           Typ == [skipped : Nat, out : Seq(Item), done : BOOLEAN]
           H == {j \in 0..n : acc[j] \in Typ /\ PageAfter(acc[j], C(j), tag, size, offset, limit)}
<1>3. 0 \in H
  <2>1. C(0) = 0
    BY CountFacts
  <2>2. Start \in Typ /\ Start.skipped = 0 /\ Start.out = <<>> /\ Start.done = FALSE
    BY DEF Start
  <2>3. PageAfter(Start, 0, tag, size, offset, limit)
    BY <2>2 DEF PageAfter
  <2> QED
    BY <1>2, <2>1, <2>2, <2>3
<1>4. ASSUME NEW j \in 0..n, j \in H, j < n PROVE j + 1 \in H
  <2> DEFINE a == items[j + 1]
  <2>1. j \in Nat /\ j + 1 \in 1..n /\ j + 1 \in 0..n /\ (j + 1) - 1 = j /\ a \in Item
    BY <1>1, <1>4
  <2>2. acc[j + 1] = Visit(acc[j], a, tag, size, offset, limit)
    BY <1>2, <2>1
  <2>3. /\ C(j) \in Nat /\ C(j + 1) \in Nat
        /\ C(j + 1) = IF Matches(a, tag, size) THEN C(j) + 1 ELSE C(j)
    <3>1. /\ \A i \in Nat : C(i) \in Nat
          /\ \A i \in Nat : C(i + 1) =
               IF Matches(items[i + 1], tag, size) THEN C(i) + 1 ELSE C(i)
      BY CountFacts
    <3> HIDE DEF C, a
    <3>2. C(j) \in Nat /\ C(j + 1) \in Nat
      <4>1. j \in Nat /\ j + 1 \in Nat
        BY <2>1
      <4> QED
        BY <3>1, <4>1, Zenon
    <3>3. C(j + 1) = IF Matches(items[j + 1], tag, size) THEN C(j) + 1 ELSE C(j)
      BY <2>1, <3>1
    <3> QED
      BY <3>2, <3>3 DEF a
  <2>4. Matches(a, tag, size) => a = items[At(C(j) + 1, tag, size)]
    <3>1. \A k \in 1..n : Matches(items[k], tag, size) => At(C(k), tag, size) = k
      BY <1>1, AtFacts, ZenonT(30)
    <3> HIDE DEF C
    <3> QED
      BY <2>1, <2>3, <3>1
  <2>5. acc[j] \in Typ /\ PageAfter(acc[j], C(j), tag, size, offset, limit)
    BY <1>4
  <2> HIDE DEF a, C
  <2>6. /\ acc[j + 1] \in Typ
        /\ ~Matches(a, tag, size) => PageAfter(acc[j + 1], C(j), tag, size, offset, limit)
        /\ Matches(a, tag, size) => PageAfter(acc[j + 1], C(j) + 1, tag, size, offset, limit)
    <3>1. PICK x, c : x = acc[j] /\ c = C(j)
      OBVIOUS
    <3>2. /\ c \in Nat /\ a \in Item /\ x \in Typ
          /\ PageAfter(x, c, tag, size, offset, limit)
      BY <2>1, <2>3, <2>5, <3>1
    <3>3. LET v == Visit(x, a, tag, size, offset, limit)
          IN  /\ v \in Typ
              /\ ~Matches(a, tag, size) => PageAfter(v, c, tag, size, offset, limit)
              /\ Matches(a, tag, size) /\ a = items[At(c + 1, tag, size)]
                   => PageAfter(v, c + 1, tag, size, offset, limit)
      BY <3>2, VisitFacts
    <3> QED
      BY <2>2, <2>4, <3>1, <3>3
  <2>7. PageAfter(acc[j + 1], C(j + 1), tag, size, offset, limit)
    BY <2>3, <2>6
  <2> QED
    BY <2>1, <2>6, <2>7
<1> HIDE DEF H
<1>5. n \in 0..n /\ \A j \in 0..n : j \in H
  BY <1>3, <1>4, Induction
<1>6. PageAfter(acc[n], C(n), tag, size, offset, limit)
  BY <1>5 DEF H
<1> QED
  BY <1>1, <1>2, <1>6 DEF PageAfter

-----------------------------------------------------------------------------
(* FlattenSeq puts the sequences one after the other.                      *)
Joins(g, n, ss) == [i \in 1..n |-> IF i = 1 THEN ss[i] ELSE g[i - 1] \o ss[i]]

(* The equation that defines FlattenSeq has a solution.                    *)
LEMMA JoinsExist ==
  ASSUME NEW n \in Nat, NEW ss
  PROVE  \E g : g = Joins(g, n, ss)
<1> DEFINE H == {i \in 0..n : \E g : g = Joins(g, i, ss)}
<1>1. 0 \in H
  <2>1. \A g : Joins(g, 0, ss) = <<>>
    BY DEF Joins
  <2>2. <<>> = Joins(<<>>, 0, ss)
    BY <2>1
  <2> QED
    BY <2>2
<1>2. ASSUME NEW i \in 0..n, i \in H, i < n PROVE i + 1 \in H
  <2>1. PICK g : g = Joins(g, i, ss)
    BY <1>2
  <2> DEFINE h == [k \in 1..(i + 1) |-> IF k = 1 THEN ss[k]
                                        ELSE IF k <= i THEN g[k] ELSE g[i] \o ss[k]]
  <2>2. \A k \in 1..i : g[k] = IF k = 1 THEN ss[k] ELSE g[k - 1] \o ss[k]
    BY <2>1 DEF Joins
  <2>3. \A k \in 1..i : h[k] = g[k]
    BY <2>2
  <2>4. ASSUME NEW k \in 1..(i + 1) PROVE h[k] = IF k = 1 THEN ss[k] ELSE h[k - 1] \o ss[k]
    <3>1. CASE k = 1
      BY <3>1
    <3>2. CASE k # 1 /\ k <= i
      <4>1. k \in 1..i /\ k - 1 \in 1..i
        BY <3>2
      <4> QED
        BY <2>2, <2>3, <3>2, <4>1
    <3>3. CASE k # 1 /\ ~(k <= i)
      <4>1. k - 1 = i /\ i \in 1..i
        BY <3>3
      <4>2. h[k] = g[i] \o ss[k]
        BY <3>3
      <4> QED
        BY <2>3, <3>3, <4>1, <4>2
    <3> QED
      BY <3>1, <3>2, <3>3
  <2>5. h = Joins(h, i + 1, ss)
    <3>1. h = [k \in 1..(i + 1) |-> h[k]]
      OBVIOUS
    <3> HIDE DEF h
    <3> QED
      BY <2>4, <3>1 DEF Joins
  <2>6. i + 1 \in 0..n
    BY <1>2
  <2> HIDE DEF h
  <2> QED
    BY <2>5, <2>6
<1> HIDE DEF H
<1>3. n \in 0..n /\ \A i \in 0..n : i \in H
  BY <1>1, <1>2, Induction
<1> QED
  BY <1>3 DEF H

LEMMA FlattenFacts ==
  ASSUME NEW S, NEW ss \in Seq(Seq(S))
  PROVE  \E f \in [0..Len(ss) -> Seq(S)] :
           /\ f[0] = <<>>
           /\ \A i \in 1..Len(ss) : f[i] = f[i - 1] \o ss[i]
           /\ FlattenSeq(ss) = f[Len(ss)]
<1>1. PICK n \in Nat : n = Len(ss) /\ \A i \in 1..n : ss[i] \in Seq(S)
  OBVIOUS
<1>2. PICK g : g = CHOOSE j : j = Joins(j, n, ss)
  OBVIOUS
<1>3. g = Joins(g, n, ss)
  BY <1>2, JoinsExist
<1>4. FlattenSeq(ss) = IF n = 0 THEN ss ELSE g[n]
  <2>1. FlattenSeq(ss) = IF Len(ss) = 0 THEN ss
                         ELSE (CHOOSE j : j = Joins(j, Len(ss), ss))[Len(ss)]
    BY Zenon DEF FlattenSeq, Joins
  <2> QED
    BY <1>1, <1>2, <2>1
<1>5. \A i \in 1..n : g[i] = IF i = 1 THEN ss[i] ELSE g[i - 1] \o ss[i]
  BY <1>3 DEF Joins
<1> DEFINE f == [i \in 0..n |-> IF i = 0 THEN <<>> ELSE g[i]]
           H == {i \in 0..n : f[i] \in Seq(S)}
<1>6. ASSUME NEW i \in 1..n
      PROVE  (i = 1 => f[i - 1] = <<>>) /\ (i # 1 => f[i - 1] = g[i - 1])
  OBVIOUS
<1>7. 0 \in H
  BY <1>1
<1>8. ASSUME NEW i \in 0..n, i \in H, i < n PROVE i + 1 \in H
  <2>1. i + 1 \in 1..n /\ i + 1 \in 0..n /\ f[i] \in Seq(S) /\ ss[i + 1] \in Seq(S)
    BY <1>1, <1>8
  <2>2. CASE i = 0
    BY <1>5, <2>1, <2>2
  <2>3. CASE i # 0
    <3>1. f[i + 1] = g[i + 1] /\ f[i] = g[i] /\ g[i + 1] = g[i] \o ss[i + 1]
      <4>1. i + 1 # 0 /\ i + 1 # 1 /\ (i + 1) - 1 = i
        BY <2>3
      <4>2. f[i + 1] = g[i + 1] /\ f[i] = g[i]
        BY <2>1, <2>3, <4>1
      <4>3. g[i + 1] = g[i] \o ss[i + 1]
        BY <1>5, <2>1, <4>1
      <4> QED
        BY <4>2, <4>3
    <3> HIDE DEF f
    <3>2. f[i + 1] \in Seq(S)
      BY <2>1, <3>1
    <3> QED
      BY <2>1, <3>2
  <2> QED
    BY <2>2, <2>3
<1>9. \A i \in 0..n : f[i] \in Seq(S)
  <2> HIDE DEF H
  <2>1. \A i \in 0..n : i \in H
    BY <1>7, <1>8, Induction
  <2> QED
    BY <2>1 DEF H
<1>10. f \in [0..n -> Seq(S)]
  <2>1. f = [i \in 0..n |-> f[i]]
    OBVIOUS
  <2> HIDE DEF f
  <2> QED
    BY <1>9, <2>1
<1>11. f[0] = <<>> /\ FlattenSeq(ss) = f[n]
  <2>1. f[0] = <<>> /\ f[n] = (IF n = 0 THEN <<>> ELSE g[n])
    BY <1>1
  <2>2. n = 0 => ss = <<>>
    BY <1>1, EmptySeq
  <2> QED
    BY <1>4, <2>1, <2>2
<1>12. ASSUME NEW i \in 1..n PROVE f[i] = f[i - 1] \o ss[i]
  <2>1. f[i] = g[i] /\ ss[i] \in Seq(S)
    BY <1>1
  <2>2. CASE i = 1
    <3>1. f[i - 1] = <<>> /\ g[i] = ss[i]
      BY <1>5, <2>2
    <3> HIDE DEF f
    <3> QED
      BY <2>1, <3>1
  <2>3. CASE i # 1
    <3>1. f[i - 1] = g[i - 1] /\ g[i] = g[i - 1] \o ss[i]
      <4>1. i - 1 \in 0..n /\ i - 1 # 0
        BY <2>3
      <4>2. f[i - 1] = g[i - 1]
        BY <4>1
      <4> QED
        BY <1>5, <2>3, <4>2
    <3> QED
      BY <2>1, <3>1
  <2> QED
    BY <2>2, <2>3
<1> HIDE DEF f
<1> QED
  BY <1>1, <1>10, <1>11, <1>12

-----------------------------------------------------------------------------
(* The sequences ss are the slices of a list h of length c: slice p starts *)
(* after off[p - 1] elements and has limit elements, the last ones fewer.  *)
Slices(S, ss, N, h, c, off, limit) ==
  /\ ss \in Seq(Seq(S)) /\ N \in Nat /\ Len(ss) = N /\ c \in Nat /\ limit \in Nat
  /\ off \in [0..N -> Nat] /\ off[0] = 0 /\ c <= off[N]
  /\ \A p \in 1..N : off[p] = off[p - 1] + limit
  /\ \A p \in 1..N :
       /\ Len(ss[p]) = (IF c <= off[p - 1] THEN 0
                        ELSE IF c - off[p - 1] < limit THEN c - off[p - 1] ELSE limit)
       /\ \A i \in 1..Len(ss[p]) : ss[p][i] = h[off[p - 1] + i]

(* Pages that are the slices of a list, one after the other, join to it.   *)
LEMMA SlicesJoin ==
  ASSUME NEW S, NEW ss, NEW N, NEW h, NEW c, NEW off, NEW limit,
         Slices(S, ss, N, h, c, off, limit)
  PROVE  /\ FlattenSeq(ss) \in Seq(S) /\ Len(FlattenSeq(ss)) = c
         /\ \A i \in 1..c : FlattenSeq(ss)[i] = h[i]
<1>0. ss \in Seq(Seq(S)) /\ N \in Nat /\ Len(ss) = N /\ c \in Nat /\ limit \in Nat
  BY DEF Slices
<1>1. PICK f \in [0..N -> Seq(S)] :
        /\ f[0] = <<>>
        /\ \A p \in 1..N : f[p] = f[p - 1] \o ss[p]
        /\ FlattenSeq(ss) = f[N]
  BY <1>0, FlattenFacts
<1> DEFINE G == {p \in 0..N : /\ Len(f[p]) = (IF off[p] <= c THEN off[p] ELSE c)
                              /\ \A i \in 1..Len(f[p]) : f[p][i] = h[i]}
<1>2. 0 \in G
  <2>1. 0 \in 0..N /\ off[0] = 0 /\ 0 <= c
    BY <1>0 DEF Slices
  <2>2. Len(f[0]) = 0 /\ 1..Len(f[0]) = {}
    BY <1>1
  <2> QED
    BY <2>1, <2>2
<1>3. ASSUME NEW p \in 0..N, p \in G, p < N PROVE p + 1 \in G
  <2>1. p + 1 \in 1..N /\ p + 1 \in 0..N /\ (p + 1) - 1 = p
    BY <1>0, <1>3
  <2>2. PICK o \in Nat : o = off[p]
    BY <1>0 DEF Slices
  <2>3. PICK s \in Seq(S) : s = f[p]
    BY <1>0
  <2>4. PICK t \in Seq(S) : t = ss[p + 1]
    BY <1>0, <2>1
  <2>5. Len(s) = (IF o <= c THEN o ELSE c) /\ \A i \in 1..Len(s) : s[i] = h[i]
    BY <1>0, <1>3, <2>2, <2>3
  <2>6. /\ Len(t) = (IF c <= o THEN 0 ELSE IF c - o < limit THEN c - o ELSE limit)
        /\ \A i \in 1..Len(t) : t[i] = h[o + i]
    BY <1>0, <2>1, <2>2, <2>4 DEF Slices
  <2>7. f[p + 1] = s \o t /\ off[p + 1] = o + limit
    BY <1>0, <1>1, <2>1, <2>2, <2>3, <2>4 DEF Slices
  <2>8. Len(s \o t) = (IF o + limit <= c THEN o + limit ELSE c)
    <3>1. Len(s \o t) = Len(s) + Len(t)
      BY <1>0
    <3>2. CASE c <= o
      BY <1>0, <2>5, <2>6, <3>1, <3>2
    <3>3. CASE ~(c <= o) /\ c - o < limit
      BY <1>0, <2>5, <2>6, <3>1, <3>3
    <3>4. CASE ~(c <= o) /\ ~(c - o < limit)
      BY <1>0, <2>5, <2>6, <3>1, <3>4
    <3> QED
      BY <1>0, <3>2, <3>3, <3>4
  <2>9. ASSUME NEW i \in 1..Len(s \o t) PROVE (s \o t)[i] = h[i]
    <3>1. CASE i <= Len(s)
      BY <1>0, <2>5, <3>1
    <3>2. CASE ~(i <= Len(s))
      <4>1. i - Len(s) \in 1..Len(t) /\ (s \o t)[i] = t[i - Len(s)]
        BY <1>0, <3>2
      <4>2. Len(s) = o
        BY <1>0, <2>5, <2>6, <4>1
      <4>3. t[i - o] = h[o + (i - o)]
        BY <1>0, <2>6, <4>1, <4>2
      <4>4. o + (i - o) = i
        BY <1>0
      <4> QED
        BY <1>0, <4>1, <4>2, <4>3, <4>4
    <3> QED
      BY <1>0, <3>1, <3>2
  <2> QED
    BY <1>0, <2>1, <2>7, <2>8, <2>9
<1> HIDE DEF G
<1>4. \A p \in 0..N : p \in G /\ p < N => p + 1 \in G
  BY <1>0, <1>3
<1>5. \A p \in 0..N : p \in G
  BY <1>0, <1>2, <1>4, Induction
<1>6. N \in 0..N /\ N \in G
  BY <1>0, <1>5
<1>7. f[N] \in Seq(S) /\ Len(f[N]) = c /\ \A i \in 1..Len(f[N]) : f[N][i] = h[i]
  BY <1>0, <1>6 DEF G, Slices
<1> QED
  BY <1>0, <1>1, <1>7

(* No more items pass than there are.                                      *)
LEMMA CountAtMost ==
  ASSUME NEW tag, NEW size, NEW n \in Nat
  PROVE  Count(n, tag, size) \in Nat /\ Count(n, tag, size) <= n
<1> DEFINE C(j) == Count(j, tag, size)
           H == {j \in 0..n : C(j) <= j}
<1>1. C(0) = 0 /\ \A j \in Nat : C(j) \in Nat /\ C(j + 1) \in {C(j), C(j) + 1}
  BY CountFacts
<1> HIDE DEF C
<1>2. 0 \in H
  BY <1>1
<1>3. ASSUME NEW j \in 0..n, j \in H, j < n PROVE j + 1 \in H
  <2>1. C(j) <= j /\ j \in Nat /\ j + 1 \in 0..n
    BY <1>3
  <2>2. C(j) \in Nat /\ C(j + 1) \in {C(j), C(j) + 1}
    BY <1>1, <2>1
  <2>3. C(j + 1) <= j + 1
    BY <2>1, <2>2
  <2> QED
    BY <2>1, <2>3
<1> HIDE DEF H
<1>4. n \in 0..n /\ n \in H
  BY <1>2, <1>3, Induction
<1> QED
  BY <1>1, <1>4 DEF C, H

(* The pages of a filter, joined, are its items in the feed's order.       *)
LEMMA PagesJoin ==
  ASSUME items \in Seq(Item), NEW tag, NEW size, NEW limit \in Nat, limit >= 1
  PROVE  LET pages == [p \in 1..(Len(items) + 1) |-> Query(tag, size, (p - 1) * limit, limit)]
         IN  /\ InOrder(FlattenSeq(pages), {k \in DOMAIN items : Matches(items[k], tag, size)})
             /\ \A p \in DOMAIN pages : Len(pages[p]) <= limit
<1> DEFINE pages == [p \in 1..(Len(items) + 1) |-> Query(tag, size, (p - 1) * limit, limit)]
           M == {k \in DOMAIN items : Matches(items[k], tag, size)}
<1>1. PICK n \in Nat : n = Len(items) /\ DOMAIN items = 1..n
  OBVIOUS
<1>2. PICK c \in Nat : c = Count(n, tag, size) /\ c <= n
  BY CountAtMost
<1>3. PICK off : off = [p \in 0..(n + 1) |-> p * limit]
  OBVIOUS
<1>4. /\ off \in [0..(n + 1) -> Nat] /\ off[0] = 0
      /\ \A p \in 1..(n + 1) : off[p] = off[p - 1] + limit /\ off[p - 1] = (p - 1) * limit
  <2>1. 0 * limit = 0 /\ 0 \in 0..(n + 1)
    OBVIOUS
  <2>2. ASSUME NEW p \in 1..(n + 1) PROVE off[p] = off[p - 1] + limit /\ off[p - 1] = (p - 1) * limit
    <3>1. off[p] = p * limit /\ off[p - 1] = (p - 1) * limit
      BY <1>3
    <3>2. p * limit = (p - 1) * limit + limit
      OBVIOUS
    <3> QED
      BY <3>1, <3>2
  <2>3. \A p \in Nat : p * limit \in Nat
    OBVIOUS
  <2> QED
    BY <1>3, <2>1, <2>2, <2>3
<1>5. c <= off[n + 1]
  <2>1. PICK m \in Nat : m = n + 1
    OBVIOUS
  <2>2. m <= m * limit
    OBVIOUS
  <2>3. off[m] = m * limit
    BY <1>3, <2>1
  <2> QED
    BY <1>2, <2>1, <2>2, <2>3
<1>6. PICK h : h = [r \in 1..c |-> items[At(r, tag, size)]]
  OBVIOUS
<1>7. ASSUME NEW p \in 1..(n + 1)
      PROVE  /\ pages[p] \in Seq(Item)
             /\ Len(pages[p]) = (IF c <= off[p - 1] THEN 0
                                 ELSE IF c - off[p - 1] < limit THEN c - off[p - 1] ELSE limit)
             /\ \A i \in 1..Len(pages[p]) : pages[p][i] = h[off[p - 1] + i]
             /\ Len(pages[p]) <= limit
  <2>1. PICK o \in Nat : o = off[p - 1]
    BY <1>4
  <2>2. pages[p] = Query(tag, size, o, limit)
    BY <1>1, <1>4, <2>1
  <2>3. PICK page : page = Query(tag, size, o, limit)
    OBVIOUS
  <2> HIDE DEF pages
  <2>4. /\ page \in Seq(Item)
        /\ Len(page) = (IF c <= o THEN 0 ELSE IF c - o < limit THEN c - o ELSE limit)
        /\ \A i \in 1..Len(page) : page[i] = items[At(o + i, tag, size)]
    <3>1. LET d == Count(Len(items), tag, size)
              q == Query(tag, size, o, limit)
          IN  /\ q \in Seq(Item)
              /\ Len(q) = (IF d <= o THEN 0 ELSE IF d - o < limit THEN d - o ELSE limit)
              /\ \A i \in 1..Len(q) : q[i] = items[At(o + i, tag, size)]
      BY QueryIsSlice
    <3> QED
      BY <1>1, <1>2, <2>3, <3>1
  <2>5. Len(page) <= limit
    BY <2>4
  <2>6. ASSUME NEW i \in 1..Len(page) PROVE page[i] = h[o + i]
    <3>1. o + i \in 1..c
      BY <2>4
    <3> QED
      BY <1>6, <2>4, <3>1
  <2> QED
    BY <2>1, <2>2, <2>3, <2>4, <2>5, <2>6
<1>8. pages \in Seq(Seq(Item)) /\ Len(pages) = n + 1 /\ DOMAIN pages = 1..(n + 1)
  <2>1. pages = [p \in 1..(n + 1) |-> pages[p]]
    BY <1>1
  <2> HIDE DEF pages
  <2>2. pages \in [1..(n + 1) -> Seq(Item)] /\ n + 1 \in Nat
    BY <1>7, <2>1
  <2> QED
    BY <2>2, IsASeq
<1> HIDE DEF pages
<1>9. PICK t : t = FlattenSeq(pages)
  OBVIOUS
<1>10. t \in Seq(Item) /\ Len(t) = c /\ \A i \in 1..c : t[i] = h[i]
  <2> HIDE DEF M
  <2>1. PICK N \in Nat : N = n + 1
    OBVIOUS
  <2>2. Slices(Item, pages, N, h, c, off, limit)
    BY <1>4, <1>5, <1>7, <1>8, <2>1 DEF Slices
  <2>3. pages \in Seq(Seq(Item)) /\ Len(pages) = N
    BY <1>8, <2>1
  <2>4. /\ FlattenSeq(pages) \in Seq(Item) /\ Len(FlattenSeq(pages)) = c
        /\ \A i \in 1..c : FlattenSeq(pages)[i] = h[i]
    BY <2>2, SlicesJoin
  <2> QED
    BY <1>9, <2>4
<1>11. /\ \A k \in M : Count(k, tag, size) \in 1..c /\ At(Count(k, tag, size), tag, size) = k
       /\ \A r \in 1..c : At(r, tag, size) \in M /\ Count(At(r, tag, size), tag, size) = r
  BY <1>1, <1>2, AtFacts
<1> DEFINE at == [r \in 1..c |-> At(r, tag, size)]
<1>12. at \in [1..c -> M]
  BY <1>11
<1>13. \A i \in 1..c : t[i] = items[at[i]]
  BY <1>6, <1>10
<1>14. ASSUME NEW i \in 1..c, NEW j \in 1..c, i < j PROVE at[i] < at[j]
  <2>1. PICK k, l : k = at[i] /\ l = at[j]
    OBVIOUS
  <2>2. k \in Nat /\ l \in Nat /\ Count(k, tag, size) = i /\ Count(l, tag, size) = j
    BY <1>1, <1>11, <2>1
  <2>3. l <= k => Count(l, tag, size) <= Count(k, tag, size)
    BY <2>2, CountFacts
  <2>4. k < l
    BY <1>14, <2>2, <2>3
  <2> QED
    BY <2>1, <2>4
<1>15. ASSUME NEW k \in M PROVE \E i \in 1..c : at[i] = k
  BY <1>11
<1>16. InOrder(t, M)
  <2> HIDE DEF at, M
  <2> QED
    BY <1>10, <1>12, <1>13, <1>14, <1>15 DEF InOrder
<1>17. \A p \in DOMAIN pages : Len(pages[p]) <= limit
  BY <1>7, <1>8
<1> QED
  BY <1>9, <1>16, <1>17 DEF pages

(* The chip of a tag: the first page of the tag has an item exactly when   *)
(* some item of the feed has the tag.                                      *)
LEMMA ChipLeads ==
  ASSUME items \in Seq(Item), NEW tag \in Tags
  PROVE  tag \in AllTags <=> Query(tag, None, 0, 1) # <<>>
<1>1. PICK n \in Nat : n = Len(items) /\ DOMAIN items = 1..n
  OBVIOUS
<1>2. PICK c \in Nat : c = Count(n, tag, None)
  BY CountFacts
<1>3. PICK page : page = Query(tag, None, 0, 1)
  OBVIOUS
<1>4. page \in Seq(Item) /\ Len(page) = (IF c <= 0 THEN 0 ELSE 1)
  <2>1. PICK o \in Nat, l \in Nat : o = 0 /\ l = 1
    OBVIOUS
  <2>2. LET d == Count(Len(items), tag, None)
            q == Query(tag, None, o, l)
        IN  /\ q \in Seq(Item)
            /\ Len(q) = (IF d <= o THEN 0 ELSE IF d - o < l THEN d - o ELSE l)
            /\ \A i \in 1..Len(q) : q[i] = items[At(o + i, tag, None)]
    <3>1. l >= 1
      BY <2>1
    <3> QED
      BY <3>1, QueryIsSlice
  <2>3. page = Query(tag, None, o, l)
    BY <1>3, <2>1
  <2> QED
    BY <1>1, <1>2, <2>1, <2>2, <2>3
<1>5. page # <<>> <=> c > 0
  <2>1. Len(page) > 0 <=> c > 0
    BY <1>4
  <2>2. page # <<>> <=> Len(page) > 0
    <3>1. page \in Seq(Item) /\ Len(page) \in Nat
      BY <1>4
    <3>2. page # <<>> => Len(page) \in Nat \ {0}
      BY <3>1, EmptySeq
    <3>3. page = <<>> => Len(page) = 0
      OBVIOUS
    <3> QED
      BY <3>1, <3>2, <3>3
  <2> QED
    BY <2>1, <2>2
<1>6. \A k \in 1..n : Matches(items[k], tag, None) <=> tag \in items[k].tags
  <2>1. tag # None
    BY QueryAssumption
  <2> QED
    BY <2>1 DEF Matches
<1>7. tag \in AllTags <=> \E k \in 1..n : Matches(items[k], tag, None)
  BY <1>1, <1>6 DEF AllTags
<1>8. ASSUME NEW k \in 1..n, Matches(items[k], tag, None) PROVE c > 0
  <2>1. Count(k, tag, None) \in 1..c
    BY <1>1, <1>2, <1>8, AtFacts
  <2> QED
    BY <2>1
<1>9. ASSUME c > 0 PROVE \E k \in 1..n : Matches(items[k], tag, None)
  <2>1. 1 \in 1..c
    BY <1>9
  <2>2. At(1, tag, None) \in 1..n /\ Matches(items[At(1, tag, None)], tag, None)
    BY <1>1, <1>2, <2>1, AtFacts
  <2> QED
    BY <2>2
<1> QED
  BY <1>3, <1>5, <1>7, <1>8, <1>9

(* Catalog::query, for feeds of every length: whatever the filter and the  *)
(* page length, the pages one after the other show every matching item     *)
(* once and in the order of the feed, and the chip of a tag never leads to *)
(* an empty feed.                                                          *)
THEOREM PagesAlwaysTile == CatalogSpec => []PagesTileTheFeed
<1>1. CatalogInv => PagesTileTheFeed
  <2> SUFFICES ASSUME CatalogInv PROVE PagesTileTheFeed
    OBVIOUS
  <2>1. items \in Seq(Item) /\ Len(items) = Len(rows) /\ Len(rows) \in Nat
    BY FeedIsPermutation DEF CatalogInv
  <2>2. ASSUME NEW tag, NEW size, NEW limit \in 1..(Len(rows) + 1)
        PROVE  LET pages == [p \in 1..(Len(rows) + 1) |-> Query(tag, size, (p - 1) * limit, limit)]
               IN  /\ InOrder(FlattenSeq(pages), {k \in DOMAIN items : Matches(items[k], tag, size)})
                   /\ \A p \in DOMAIN pages : Len(pages[p]) <= limit
    <3>1. limit \in Nat /\ limit >= 1
      BY <2>1
    <3>2. LET pages == [p \in 1..(Len(items) + 1) |-> Query(tag, size, (p - 1) * limit, limit)]
          IN  /\ InOrder(FlattenSeq(pages), {k \in DOMAIN items : Matches(items[k], tag, size)})
              /\ \A p \in DOMAIN pages : Len(pages[p]) <= limit
      BY <2>1, <3>1, PagesJoin
    <3>3. Len(items) = Len(rows)
      BY <2>1
    <3> QED
      BY <3>2, <3>3, Zenon
  <2>3. \A tag \in Tags : tag \in AllTags <=> Query(tag, None, 0, 1) # <<>>
    BY <2>1, ChipLeads
  <2> QED
    BY <2>2, <2>3, Zenon DEF PagesTileTheFeed
<1> QED
  BY <1>1, CatalogInvariant, PTL
=============================================================================
