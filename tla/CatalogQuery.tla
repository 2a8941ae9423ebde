---------------------------- MODULE CatalogQuery ----------------------------
(***************************************************************************)
(* A catalogue snapshot as the handlers see it (catalog.cpp): feed order,  *)
(* index by id, tags, filtered slices.  The rows arrive in any order, as   *)
(* the constructor allows; which rows is CatalogRefresh's subject.         *)
(***************************************************************************)
EXTENDS Integers, Sequences, FiniteSets, SequencesExt

CONSTANTS
  Ids,           (* items.id, the primary key: rows have distinct ids      *)
  Scores,        (* items.score                                            *)
  Times,         (* items.published_at, when it is not NULL                *)
  Tags, Sizes,   (* values of the child tables                             *)
  None           (* the empty filter, no item, published_at NULL           *)

VARIABLES
  rows,          (* the vector given to the constructor                    *)
  items          (* items_, what it made of it                             *)

catalogVars == <<rows, items>>

Item == [id : Ids, score : Scores, published_at : Times \cup {None},
         tags : SUBSET Tags, sizes : SUBSET Sizes]

ASSUME QueryAssumption ==
  /\ IsFiniteSet(Ids) /\ Scores \subseteq Int /\ Times \subseteq Nat \ {0}
  /\ None \notin Tags /\ None \notin Sizes /\ None \notin Times /\ None \notin Item

(* published_at.value_or(0).                                               *)
Date(a) == IF a.published_at = None THEN 0 ELSE a.published_at

(* The comparator.                                                         *)
Ahead(a, b) == a.score > b.score \/ (a.score = b.score /\ Date(a) > Date(b))

(* std::stable_sort: a row is preceded by the rows ahead of it and by the  *)
(* earlier rows it is not ahead of.                                        *)
Precedes(rs, i, j) == Ahead(rs[i], rs[j]) \/ (i < j /\ ~Ahead(rs[j], rs[i]))

Place(rs, j) == 1 + Cardinality({i \in DOMAIN rs : Precedes(rs, i, j)})

Feed(rs) == [k \in DOMAIN rs |-> rs[CHOOSE j \in DOMAIN rs : Place(rs, j) = k]]

(* by_id_: positions in the sorted vector.  The bug: in the one given.     *)
ByIdUnsorted(id) == {k \in DOMAIN rows : rows[k].id = id}

ById(id) == {k \in DOMAIN items : items[k].id = id}

FindItem(id) == IF ById(id) = {} THEN None ELSE items[CHOOSE k \in ById(id) : TRUE]

AllTags == UNION {items[k].tags : k \in DOMAIN items}

Matches(a, tag, size) == tag \in a.tags \cup {None} /\ size \in a.sizes \cup {None}

(* One turn of query's loop.  The bug: the items of earlier pages are      *)
(* counted before the filter.                                              *)
VisitCountingAll(acc, a, tag, size, offset, limit) ==
  IF acc.skipped < offset THEN [acc EXCEPT !.skipped = @ + 1]
  ELSE IF acc.done \/ ~Matches(a, tag, size) THEN acc
  ELSE [acc EXCEPT !.out = Append(@, a), !.done = Len(acc.out) + 1 >= limit]

Visit(acc, a, tag, size, offset, limit) ==
  IF acc.done \/ ~Matches(a, tag, size) THEN acc
  ELSE IF acc.skipped < offset THEN [acc EXCEPT !.skipped = @ + 1]
  ELSE [acc EXCEPT !.out = Append(@, a), !.done = Len(acc.out) + 1 >= limit]

Query(tag, size, offset, limit) ==
  FoldLeft(LAMBDA acc, a : Visit(acc, a, tag, size, offset, limit),
           [skipped |-> 0, out |-> <<>>, done |-> FALSE], items).out

-----------------------------------------------------------------------------
CatalogInit == rows = <<>> /\ items = <<>>

CatalogNext ==
  \E a \in Item :
    /\ \A k \in DOMAIN rows : rows[k].id # a.id
    /\ rows' = Append(rows, a)
    /\ items' = Feed(rows')

CatalogSpec == CatalogInit /\ [][CatalogNext]_catalogVars

-----------------------------------------------------------------------------
(* ORDER BY score DESC, published_at DESC (db.cpp:162), where NULL is      *)
(* smaller than every value.                                               *)
SqlOrdered(rs) ==
  \A i, j \in DOMAIN rs : i < j =>
    \/ rs[i].score > rs[j].score
    \/ /\ rs[i].score = rs[j].score
       /\ \/ rs[j].published_at = None
          \/ rs[i].published_at # None /\ rs[i].published_at >= rs[j].published_at

(* The views of a snapshot agree.  catalog.cpp:21, "The DB already         *)
(* returns feed order": sorting leaves a SELECT's rows as they are, undated *)
(* and equal items included, and brings any others into a SELECT's order;  *)
(* the item page and the redirect go by id and find the item whose link    *)
(* was followed in the feed.                                               *)
ViewsAgree ==
  /\ SqlOrdered(items) /\ (SqlOrdered(rows) => items = rows)
  /\ \A k \in DOMAIN items : FindItem(items[k].id) = items[k]
  /\ \A id \in Ids : FindItem(id) = None <=> \A k \in DOMAIN rows : rows[k].id # id

(* The list t shows the items of the feed at these positions, each once    *)
(* and in order.                                                           *)
InOrder(t, positions) ==
  \E at \in [1..Len(t) -> positions] :
    /\ \A i \in 1..Len(t) : t[i] = items[at[i]]
    /\ \A i, j \in 1..Len(t) : i < j => at[i] < at[j]
    /\ \A k \in positions : \E i \in 1..Len(t) : at[i] = k

(* query's slices: for every filter and page length the pages one after    *)
(* the other are the matching items of the feed, each once and in order;   *)
(* so a tag's chip never leads to an empty feed.                           *)
PagesTileTheFeed ==
  /\ \A tag \in Tags : tag \in AllTags <=> Query(tag, None, 0, 1) # <<>>
  /\ \A tag \in Tags \cup {None}, size \in Sizes \cup {None}, limit \in 1..(Len(rows) + 1) :
       LET pages == [p \in 1..(Len(rows) + 1) |-> Query(tag, size, (p - 1) * limit, limit)]
       IN  /\ InOrder(FlattenSeq(pages), {k \in DOMAIN items : Matches(items[k], tag, size)})
           /\ \A p \in DOMAIN pages : Len(pages[p]) <= limit
=============================================================================
