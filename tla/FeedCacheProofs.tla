--------------------------- MODULE FeedCacheProofs ---------------------------
(***************************************************************************)
(* Proofs about FeedCache for every number of addresses, every cache size  *)
(* and every set of filter values.                                         *)
(***************************************************************************)
EXTENDS FeedCache, FiniteSetTheorems, SequenceTheorems, TLAPS

(* No filter value holds the character the key is joined with: what        *)
(* handle_feed takes for granted and does not check.                       *)
NoSeparator == \A t \in Texts : \A i \in DOMAIN t : t[i] # US

(* Filter values are sequences.                                            *)
LEMMA TextsAreSeqs ==
  \E C : US \in C /\ Texts \subseteq Seq(C)
<1> DEFINE C == (UNION {{t[i] : i \in DOMAIN t} : t \in Texts}) \cup {US}
<1>1. US \in C
  OBVIOUS
<1>2. Texts \subseteq Seq(C)
  BY FeedAssumption, Zenon
<1> QED
  BY <1>1, <1>2, Zenon

(* Where the two values and the separator sit in a cache key.              *)
LEMMA KeyShape ==
  ASSUME NEW C, US \in C, NEW a \in Seq(C), NEW b \in Seq(C)
  PROVE  /\ a \o <<US>> \o b \in Seq(C)
         /\ Len(a \o <<US>> \o b) = Len(a) + 1 + Len(b)
         /\ \A i \in 1..Len(a) : (a \o <<US>> \o b)[i] = a[i]
         /\ (a \o <<US>> \o b)[Len(a) + 1] = US
         /\ \A i \in 1..Len(b) : (a \o <<US>> \o b)[Len(a) + 1 + i] = b[i]
<1> DEFINE u == a \o <<US>>
<1>1. /\ u \in Seq(C) /\ Len(u) = Len(a) + 1 /\ u[Len(a) + 1] = US
      /\ \A i \in 1..Len(a) : u[i] = a[i]
  OBVIOUS
<1>2. /\ Len(a) \in Nat /\ Len(b) \in Nat
  OBVIOUS
<1> HIDE DEF u
<1>3. /\ u \o b \in Seq(C) /\ Len(u \o b) = Len(u) + Len(b)
      /\ \A i \in 1..Len(u) : (u \o b)[i] = u[i]
      /\ \A i \in 1..Len(b) : (u \o b)[Len(u) + i] = b[i]
  BY <1>1
<1>4. \A i \in 1..(Len(a) + 1) : (u \o b)[i] = u[i]
  BY <1>1, <1>3
<1>5. /\ u \o b \in Seq(C) /\ Len(u \o b) = Len(a) + 1 + Len(b)
      /\ \A i \in 1..Len(a) : (u \o b)[i] = a[i]
      /\ (u \o b)[Len(a) + 1] = US
      /\ \A i \in 1..Len(b) : (u \o b)[Len(a) + 1 + i] = b[i]
  BY <1>1, <1>2, <1>3, <1>4
<1> QED
  BY <1>5 DEF u

(* A value cannot end where another, still going on, has the separator.    *)
LEMMA SameLength ==
  ASSUME NoSeparator, NEW C, US \in C, Texts \subseteq Seq(C),
         NEW a \in Texts, NEW b \in Texts, NEW c \in Texts, NEW d \in Texts,
         a \o <<US>> \o b = c \o <<US>> \o d
  PROVE  ~(Len(a) < Len(c))
<1> SUFFICES ASSUME Len(a) < Len(c) PROVE FALSE
  OBVIOUS
<1>1. a \in Seq(C) /\ b \in Seq(C) /\ c \in Seq(C) /\ d \in Seq(C)
  OBVIOUS
<1>2. (a \o <<US>> \o b)[Len(a) + 1] = US
  BY <1>1, KeyShape
<1>3. Len(a) + 1 \in 1..Len(c) /\ Len(a) + 1 \in DOMAIN c
  BY <1>1
<1>4. (c \o <<US>> \o d)[Len(a) + 1] = c[Len(a) + 1]
  BY <1>1, <1>3, KeyShape
<1> QED
  BY <1>2, <1>3, <1>4 DEF NoSeparator

(* Without the separator in a value, the key determines the filter pair.   *)
LEMMA KeyInjective ==
  ASSUME NoSeparator, NEW r \in Request, NEW q \in Request, Key(r) = Key(q)
  PROVE  r.tag = q.tag /\ r.size = q.size
<1>1. PICK C : US \in C /\ Texts \subseteq Seq(C)
  BY TextsAreSeqs
<1> DEFINE a == r.tag
           b == r.size
           c == q.tag
           d == q.size
<1>2. a \in Texts /\ b \in Texts /\ c \in Texts /\ d \in Texts
  BY DEF Request
<1>3. a \o <<US>> \o b = c \o <<US>> \o d
  BY DEF Key
<1> HIDE DEF a, b, c, d
<1>4. a \in Seq(C) /\ b \in Seq(C) /\ c \in Seq(C) /\ d \in Seq(C)
  BY <1>1, <1>2
<1>5. Len(a) = Len(c)
  <2>1. ~(Len(a) < Len(c)) /\ ~(Len(c) < Len(a))
    BY <1>1, <1>2, <1>3, SameLength
  <2>2. Len(a) \in Nat /\ Len(c) \in Nat
    BY <1>4
  <2> QED
    BY <2>1, <2>2
<1>6. a = c
  <2>1. \A i \in 1..Len(a) : a[i] = c[i]
    BY <1>1, <1>3, <1>4, <1>5, KeyShape
  <2> QED
    BY <1>4, <1>5, <2>1, SeqEqual
<1> DEFINE k == a \o <<US>> \o b
<1>6a. /\ Len(k) = Len(a) + 1 + Len(b)
       /\ \A i \in 1..Len(b) : k[Len(a) + 1 + i] = b[i]
  BY <1>1, <1>4, KeyShape
<1>6b. /\ Len(k) = Len(a) + 1 + Len(d)
       /\ \A i \in 1..Len(d) : k[Len(a) + 1 + i] = d[i]
  <2>1. k = a \o <<US>> \o d
    BY <1>3, <1>6
  <2> HIDE DEF k
  <2> QED
    BY <1>1, <1>4, <2>1, KeyShape
<1> HIDE DEF k
<1>7. Len(b) = Len(d)
  <2>1. Len(a) + 1 + Len(b) = Len(a) + 1 + Len(d)
    BY <1>6a, <1>6b
  <2>2. Len(a) \in Nat /\ Len(b) \in Nat /\ Len(d) \in Nat
    BY <1>4
  <2> QED
    BY <2>1, <2>2
<1>8. b = d
  <2>1. \A i \in 1..Len(b) : b[i] = d[i]
    BY <1>6a, <1>6b, <1>7
  <2> QED
    BY <1>4, <1>7, <2>1, SeqEqual
<1> QED
  BY <1>6, <1>8 DEF a, b, c, d

-----------------------------------------------------------------------------
(* The page for a request rendered from version v.                         *)
PageOf(v, r) == [ver |-> v, tag |-> r.tag, size |-> r.size, query |-> r.query]

(* The pointers are what they should be, and a snapshot somebody holds is  *)
(* still the one that was put at its address.                              *)
Pointers ==
  /\ heap \in [Addrs -> 0..MaxVersion]
  /\ ptr \in Addrs
  /\ fresh \in Addrs \cup {Null} /\ cacheFor \in Addrs \cup {Null}
  /\ held \in Addrs \cup {Null}
  /\ version \in 1..MaxVersion
  /\ req \in Request
  /\ heap[ptr] \in 1..version
  /\ fresh # Null => heap[fresh] = version
  /\ held # Null => heap[held] = heldVer /\ heldVer \in 1..heap[ptr]
  /\ newest \in 0..heap[ptr]
  /\ held # Null => newest <= heldVer

(* Every page in the cache was rendered from the snapshot the cache is     *)
(* for, for some filter pair with its key.                                 *)
Filled ==
  \A e \in cache :
    /\ cacheFor # Null
    /\ \E r \in Request : /\ ~r.query /\ e[1] = Key(r)
                          /\ e[2] = PageOf(heap[cacheFor], r)

(* The inductive invariant: what is cached, and what was answered.         *)
CacheInv ==
  /\ Pointers /\ Filled
  /\ held # Null /\ page # NoPage =>
       \E r \in Request : /\ page = PageOf(heldVer, r) /\ r.query = req.query
                          /\ r = req \/ Key(r) = Key(req)

(* A reference keeps its snapshot where it is.                             *)
LEMMA BuildKeeps ==
  ASSUME CacheInv, NEW a \in Addrs, Build(a)
  PROVE  CacheInv'
<1>1. /\ fresh = Null /\ version < MaxVersion
      /\ a # ptr /\ a # held /\ a # cacheFor
      /\ version' = version + 1 /\ fresh' = a
      /\ heap' = [heap EXCEPT ![a] = version + 1]
      /\ UNCHANGED <<ptr, cacheFor, cache, req, held, heldVer, page, newest>>
  BY DEF Build, Live, httpVars
<1>2. /\ heap'[a] = version + 1 /\ heap'[ptr] = heap[ptr]
      /\ held # Null => heap'[held] = heap[held]
      /\ cacheFor # Null => heap'[cacheFor] = heap[cacheFor]
  BY <1>1 DEF CacheInv, Pointers
<1>3. heap' \in [Addrs -> 0..MaxVersion] /\ version' \in 1..MaxVersion
  BY <1>1, FeedAssumption DEF CacheInv, Pointers
<1>4. Pointers'
  BY <1>1, <1>2, <1>3, FeedAssumption DEF CacheInv, Pointers
<1>5. Filled'
  BY <1>1, <1>2 DEF CacheInv, Filled
<1> QED
  BY <1>1, <1>4, <1>5 DEF CacheInv

(* CatalogHandle::set only advances.                                       *)
LEMMA SwapKeeps ==
  ASSUME CacheInv, Swap
  PROVE  CacheInv'
<1>1. /\ fresh # Null /\ ptr' = fresh /\ fresh' = Null
      /\ UNCHANGED <<heap, version, cacheFor, cache, req, held, heldVer, page,
                     newest>>
  BY DEF Swap, httpVars
<1>2. fresh \in Addrs /\ heap[fresh] = version /\ heap[ptr] \in 1..version
  BY <1>1 DEF CacheInv, Pointers
<1>3. Pointers'
  BY <1>1, <1>2, FeedAssumption DEF CacheInv, Pointers
<1>4. Filled'
  BY <1>1 DEF CacheInv, Filled
<1> QED
  BY <1>1, <1>3, <1>4 DEF CacheInv

(* handle_feed takes its reference.                                        *)
LEMMA GetKeeps ==
  ASSUME CacheInv, NEW r \in Request, FeedGet(r)
  PROVE  CacheInv'
<1>1. /\ held = Null /\ held' = ptr /\ heldVer' = heap[ptr] /\ req' = r
      /\ page' = NoPage
      /\ UNCHANGED <<heap, ptr, fresh, version, cacheFor, cache, newest>>
  BY DEF FeedGet, dbVars
<1>2. Pointers'
  BY <1>1, FeedAssumption DEF CacheInv, Pointers
<1>3. Filled'
  BY <1>1 DEF CacheInv, Filled
<1> QED
  BY <1>1, <1>2, <1>3 DEF CacheInv

(* The cached pages that pass the check on the snapshot's address.         *)
LEMMA ValidPages ==
  ASSUME CacheInv, held # Null, NEW e \in ValidCache
  PROVE  /\ e \in cache
         /\ \E r \in Request : /\ ~r.query /\ e[1] = Key(r)
                               /\ e[2] = PageOf(heldVer, r)
<1>1. e \in cache /\ cacheFor = held
  BY DEF ValidCache
<1> QED
  BY <1>1 DEF CacheInv, Pointers, Filled

(* A page is the answer for somebody with the same key and its version     *)
(* that of the snapshot held, from the cache or not.                       *)
LEMMA AnswerKeeps ==
  ASSUME CacheInv, FeedAnswer
  PROVE  CacheInv' /\ newest' >= newest
<1>1. /\ held # Null /\ page = NoPage /\ cacheFor' = held
      /\ newest' = page'.ver
      /\ UNCHANGED <<heap, ptr, fresh, version, req, held, heldVer>>
  BY DEF FeedAnswer, dbVars
<1>2. /\ heap[held] = heldVer /\ heldVer \in 1..heap[ptr] /\ req \in Request
      /\ held \in Addrs /\ heldVer \in Nat /\ newest \in 0..heldVer
      /\ Render(held, req) = PageOf(heldVer, req)
  BY <1>1 DEF CacheInv, Pointers, Render, PageOf
<1>3. \A v, r : PageOf(v, r).ver = v
  BY DEF PageOf
<1>4. \E r \in Request : /\ page' = PageOf(heldVer, r) /\ r.query = req.query
                         /\ r = req \/ Key(r) = Key(req)
  <2>1. CASE page' = Render(held, req)
    BY <1>2, <2>1
  <2>2. ASSUME NEW e \in ValidCache, e[1] = Key(req), Cacheable(req), page' = e[2]
        PROVE  \E r \in Request : /\ page' = PageOf(heldVer, r)
                                  /\ r.query = req.query
                                  /\ r = req \/ Key(r) = Key(req)
    <3>1. PICK r \in Request : /\ ~r.query /\ e[1] = Key(r)
                               /\ e[2] = PageOf(heldVer, r)
      BY <1>1, ValidPages
    <3>2. r.query \in BOOLEAN /\ req.query \in BOOLEAN
      BY <1>2 DEF Request
    <3>3. r.query = req.query
      BY <2>2, <3>1, <3>2 DEF Cacheable
    <3> QED
      BY <2>2, <3>1, <3>3
  <2> QED
    BY <2>1, <2>2 DEF FeedAnswer
<1>5. newest' = heldVer
  BY <1>1, <1>3, <1>4
<1>6. Pointers' /\ newest' >= newest
  BY <1>1, <1>2, <1>5 DEF CacheInv, Pointers
<1>7. \A e \in cache' :
        \/ e \in ValidCache
        \/ Cacheable(req) /\ e = <<Key(req), PageOf(heldVer, req)>>
  BY <1>2 DEF FeedAnswer, Store
<1>8. Filled'
  <2> SUFFICES ASSUME NEW e \in cache'
               PROVE  \E r \in Request : /\ ~r.query /\ e[1] = Key(r)
                                         /\ e[2] = PageOf(heldVer, r)
    BY <1>1, <1>2 DEF Filled
  <2>1. CASE e \in ValidCache
    BY <1>1, <2>1, ValidPages
  <2>2. CASE Cacheable(req) /\ e = <<Key(req), PageOf(heldVer, req)>>
    BY <1>2, <2>2 DEF Cacheable
  <2> QED
    BY <1>7, <2>1, <2>2
<1> QED
  BY <1>1, <1>4, <1>6, <1>8 DEF CacheInv

(* A page that cannot be rendered leaves the cache checked.                *)
LEMMA FailKeeps ==
  ASSUME CacheInv, FeedFail
  PROVE  CacheInv'
<1>1. /\ held # Null /\ held' = Null /\ cacheFor' = held /\ cache' = ValidCache
      /\ UNCHANGED <<heap, ptr, fresh, version, req, heldVer, page, newest>>
  BY DEF FeedFail, dbVars
<1>2. Pointers'
  BY <1>1 DEF CacheInv, Pointers
<1>3. Filled'
  <2> SUFFICES ASSUME NEW e \in ValidCache
               PROVE  \E r \in Request : /\ ~r.query /\ e[1] = Key(r)
                                         /\ e[2] = PageOf(heap[held], r)
    BY <1>1 DEF Filled
  <2> QED
    BY <1>1, ValidPages DEF CacheInv, Pointers
<1> QED
  BY <1>1, <1>2, <1>3 DEF CacheInv

(* The handler's reference goes away.                                      *)
LEMMA ReturnKeeps ==
  ASSUME CacheInv, FeedReturn
  PROVE  CacheInv'
<1>1. /\ held' = Null
      /\ UNCHANGED <<heap, ptr, fresh, version, cacheFor, cache, req, heldVer,
                     page, newest>>
  BY DEF FeedReturn, dbVars
<1>2. Pointers'
  BY <1>1 DEF CacheInv, Pointers
<1>3. Filled'
  BY <1>1 DEF CacheInv, Filled
<1> QED
  BY <1>1, <1>2, <1>3 DEF CacheInv

(* The invariant holds in every reachable state.                           *)
LEMMA CacheInvariant == Spec => []CacheInv
<1>1. Init => CacheInv
  <2> SUFFICES ASSUME NEW a \in Addrs,
                      heap = [b \in Addrs |-> IF b = a THEN 1 ELSE 0],
                      ptr = a, fresh = Null, version = 1, cacheFor = Null,
                      cache = {}, held = Null, newest = 0,
                      req = [tag |-> <<>>, size |-> <<>>, query |-> FALSE]
               PROVE  CacheInv
    BY DEF Init
  <2>1. req \in Request
    BY FeedAssumption DEF Request
  <2>2. heap \in [Addrs -> 0..MaxVersion] /\ heap[ptr] = 1
    BY FeedAssumption
  <2>3. Pointers
    BY <2>1, <2>2, FeedAssumption DEF Pointers
  <2> QED
    BY <2>3 DEF CacheInv, Filled
<1>2. CacheInv /\ [Next]_vars => CacheInv'
  <2>1. CacheInv /\ UNCHANGED vars => CacheInv'
    BY DEF CacheInv, Pointers, Filled, vars, dbVars, httpVars
  <2> QED
    BY <2>1, BuildKeeps, SwapKeeps, GetKeeps, AnswerKeeps, FailKeeps, ReturnKeeps
    DEF Next
<1> QED
  BY <1>1, <1>2, PTL DEF Spec

(* As long as no filter value holds the separator, every answer of         *)
(* handle_feed is the page this request would get if it were rendered now  *)
(* from the snapshot it took, however addresses are reused and whatever    *)
(* the size of the cache.                                                  *)
THEOREM FreshWithoutSeparator ==
  ASSUME NoSeparator
  PROVE  Spec => []AnswerIsFresh
<1>1. CacheInv => AnswerIsFresh
  <2> SUFFICES ASSUME CacheInv PROVE AnswerIsFresh
    OBVIOUS
  <2>1. held # Null => heap[held] = heldVer
    BY DEF CacheInv, Pointers
  <2>2. ASSUME held # Null, page # NoPage PROVE page = PageOf(heldVer, req)
    <3>1. PICK r \in Request : /\ page = PageOf(heldVer, r)
                               /\ r.query = req.query
                               /\ r = req \/ Key(r) = Key(req)
      BY <2>2 DEF CacheInv
    <3>2. req \in Request
      BY DEF CacheInv, Pointers
    <3>3. r.tag = req.tag /\ r.size = req.size
      BY <3>1, <3>2, KeyInjective
    <3> QED
      BY <3>1, <3>3 DEF PageOf
  <2> QED
    BY <2>1, <2>2 DEF AnswerIsFresh, PageOf
<1> QED
  BY <1>1, CacheInvariant, PTL

(* No visitor gets a page older than one answered before it, whatever the  *)
(* filter values hold (handle_feed, CatalogHandle::set).                   *)
THEOREM PagesNeverOlder == Spec => NeverOlder
<1>1. CacheInv /\ [Next]_vars => [newest' >= newest]_vars
  <2> SUFFICES ASSUME CacheInv, Next PROVE newest' >= newest
    OBVIOUS
  <2>1. newest \in Int
    BY DEF CacheInv, Pointers
  <2>2. CASE FeedAnswer
    BY <2>2, AnswerKeeps
  <2>3. CASE ~FeedAnswer
    <3>1. newest' = newest
      BY <2>3 DEF Next, Build, Swap, FeedGet, FeedFail, FeedReturn, httpVars
    <3> QED
      BY <2>1, <3>1
  <2> QED
    BY <2>2, <2>3
<1> QED
  BY <1>1, CacheInvariant, PTL DEF Spec, NeverOlder

-----------------------------------------------------------------------------
(* The cache is finite, within its cap, and has one page per key.          *)
SizeInv ==
  /\ heldVer \in 0..MaxVersion /\ page \in Page \cup {NoPage}
  /\ IsFiniteSet(cache) /\ Cardinality(cache) <= MaxCached
  /\ \A e \in cache : e[2] \in Page
  /\ \A e, f \in cache : e[1] = f[1] => e = f

(* Dropping the cache and storing a page whose key is not there.           *)
LEMMA StoreKeeps ==
  ASSUME SizeInv, NEW k, NEW p \in Page, NEW stored,
         \/ stored = ValidCache
         \/ stored = Store(ValidCache, k, p) /\ \A e \in ValidCache : e[1] # k
  PROVE  /\ IsFiniteSet(stored) /\ Cardinality(stored) <= MaxCached
         /\ \A e \in stored : e[2] \in Page
         /\ \A e, f \in stored : e[1] = f[1] => e = f
<1>1. /\ IsFiniteSet(ValidCache) /\ Cardinality(ValidCache) <= MaxCached
      /\ ValidCache \subseteq cache
  BY FS_EmptySet, FeedAssumption DEF SizeInv, ValidCache
<1>2. CASE stored = ValidCache
  BY <1>1, <1>2 DEF SizeInv
<1>3. CASE /\ stored = ValidCache \cup {<<k, p>>} /\ Cardinality(ValidCache) < MaxCached
           /\ \A e \in ValidCache : e[1] # k
  <2>1. /\ IsFiniteSet(stored)
        /\ Cardinality(stored) = IF <<k, p>> \in ValidCache THEN Cardinality(ValidCache)
                                 ELSE Cardinality(ValidCache) + 1
    BY <1>1, <1>3, FS_AddElement
  <2>2. Cardinality(ValidCache) \in Nat /\ MaxCached \in Nat
    BY <1>1, FS_CardinalityType, FeedAssumption
  <2>3. Cardinality(stored) <= MaxCached
    BY <1>3, <2>1, <2>2
  <2>4. \A e \in stored : e[2] \in Page
    BY <1>1, <1>3 DEF SizeInv
  <2>5. \A e, f \in stored : e[1] = f[1] => e = f
    BY <1>1, <1>3 DEF SizeInv
  <2> QED
    BY <2>1, <2>3, <2>4, <2>5
<1> QED
  BY <1>2, <1>3 DEF Store

LEMMA SizeKept ==
  ASSUME CacheInv, SizeInv, [Next]_vars
  PROVE  SizeInv'
<1>1. CASE FeedAnswer
  <2>1. held # Null /\ heldVer' = heldVer
    BY <1>1 DEF FeedAnswer
  <2>2. Render(held, req) \in Page
    <3>1. /\ req \in Request /\ heap[held] \in 1..MaxVersion
      BY <2>1, FeedAssumption DEF CacheInv, Pointers
    <3> QED
      BY <3>1 DEF Render, Page, Request
  <2>3. page' \in Page
    <3>1. ValidCache \subseteq cache
      BY DEF ValidCache
    <3> QED
      BY <1>1, <2>2, <3>1 DEF FeedAnswer, SizeInv
  <2>4. \/ cache' = ValidCache
        \/ /\ cache' = Store(ValidCache, Key(req), Render(held, req))
           /\ \A e \in ValidCache : e[1] # Key(req)
    BY <1>1 DEF FeedAnswer
  <2>5. /\ IsFiniteSet(cache') /\ Cardinality(cache') <= MaxCached
        /\ \A e \in cache' : e[2] \in Page
        /\ \A e, f \in cache' : e[1] = f[1] => e = f
    BY <2>2, <2>4, StoreKeeps
  <2> QED
    BY <2>1, <2>3, <2>5 DEF SizeInv
<1>2. CASE FeedFail
  <2>1. cache' = ValidCache /\ UNCHANGED <<heldVer, page>>
    BY <1>2 DEF FeedFail
  <2>2. CASE cacheFor = held
    BY <2>1, <2>2 DEF SizeInv, ValidCache
  <2>3. CASE cacheFor # held
    BY <2>1, <2>3, FS_EmptySet, FeedAssumption DEF SizeInv, ValidCache
  <2> QED
    BY <2>2, <2>3
<1>3. CASE ~FeedAnswer /\ ~FeedFail
  <2>1. cache' = cache
    BY <1>3 DEF Next, Build, Swap, FeedGet, FeedReturn, vars, httpVars
  <2>2. /\ page' = page \/ page' = NoPage
        /\ heldVer' = heldVer \/ heldVer' = heap[ptr]
    BY <1>3 DEF Next, Build, Swap, FeedGet, FeedReturn, vars, httpVars
  <2>3. heap[ptr] \in 0..MaxVersion
    BY DEF CacheInv, Pointers
  <2> QED
    BY <2>1, <2>2, <2>3 DEF SizeInv
<1> QED
  BY <1>1, <1>2, <1>3

(* handle_feed never stores more than kMaxCachedFeeds pages nor two pages  *)
(* under one key, and all pointers stay within their types.                *)
THEOREM TypeCorrect == Spec => []TypeOK
<1>1. Init => SizeInv
  BY FS_EmptySet, FeedAssumption DEF Init, SizeInv
<1>2. CacheInv /\ SizeInv => TypeOK
  <2> SUFFICES ASSUME CacheInv, SizeInv PROVE TypeOK
    OBVIOUS
  <2>1. newest \in 0..MaxVersion
    BY FeedAssumption DEF CacheInv, Pointers
  <2> QED
    BY <2>1 DEF CacheInv, Pointers, SizeInv, TypeOK
<1> QED
  BY <1>1, <1>2, SizeKept, CacheInvariant, PTL DEF Spec
=============================================================================
