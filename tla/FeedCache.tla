------------------------------ MODULE FeedCache ------------------------------
(***************************************************************************)
(* The feed page and its cache (handle_feed, HandlerContext) against the   *)
(* DB thread's swaps of the catalogue (CatalogHandle).  A snapshot is an   *)
(* object at an address; its address may be used again once nobody holds   *)
(* a reference to it, and the cache recognises "its" snapshot by address.  *)
(* A page is what it was rendered from: snapshot version and request.      *)
(***************************************************************************)
EXTENDS Integers, Sequences, FiniteSets

CONSTANTS
  Addrs,          (* addresses the allocator hands out                     *)
  Null,           (* the null CatalogPtr                                   *)
  Texts,          (* values of ?tag= and ?size= as character sequences;    *)
                  (* <<>> is a parameter that is not there                 *)
  US,             (* the character "\x1f" that joins the two               *)
  MaxCached,      (* kMaxCachedFeeds                                       *)
  MaxVersion      (* bound: snapshots ever built                           *)

ASSUME FeedAssumption ==
  /\ Null \notin Addrs
  /\ <<>> \in Texts
  /\ Texts \subseteq
       Seq((UNION {{t[i] : i \in DOMAIN t} : t \in Texts}) \cup {US})
  /\ MaxCached \in Nat /\ MaxVersion \in Nat \ {0}

VARIABLES
  heap,           (* version of the snapshot at an address, 0: never used  *)
  ptr,            (* CatalogHandle::ptr_                                   *)
  fresh,          (* the DB thread's local, built and not yet swapped in   *)
  version,        (* version of the latest snapshot                        *)
  cacheFor,       (* HandlerContext::feed_cache_for                        *)
  cache,          (* HandlerContext::feed_cache: a set of <<key, page>>    *)
  req,            (* the request being handled                             *)
  held,           (* its catalogue: the local CatalogPtr of handle_feed    *)
  heldVer,        (* history: the version it got from the handle           *)
  page,           (* the page answered, or NoPage                          *)
  newest          (* history: version of the page answered last            *)

dbVars   == <<heap, ptr, fresh, version>>
httpVars == <<cacheFor, cache, req, held, heldVer, page, newest>>
vars     == <<dbVars, httpVars>>

NoPage  == [ver |-> 0]
Request == [tag : Texts, size : Texts, query : BOOLEAN]
Page    == [ver : 1..MaxVersion, tag : Texts, size : Texts, query : BOOLEAN]

(* References that keep a snapshot alive.  The bug: the cache remembers    *)
(* the address without holding a reference.                                *)
LiveWithoutCache == {ptr, held, fresh}

Live == {ptr, held, fresh, cacheFor}

-----------------------------------------------------------------------------
(* DB thread: make_shared at any address that is free ...                  *)
Build(a) ==
  /\ fresh = Null
  /\ version < MaxVersion
  /\ a \notin Live
  /\ version' = version + 1
  /\ heap' = [heap EXCEPT ![a] = version']
  /\ fresh' = a
  /\ UNCHANGED <<ptr, httpVars>>

(* ... and CatalogHandle::set.                                             *)
Swap ==
  /\ fresh # Null
  /\ ptr' = fresh
  /\ fresh' = Null
  /\ UNCHANGED <<heap, version, httpVars>>

-----------------------------------------------------------------------------
(* HTTP thread: handle_feed takes a reference to the current snapshot ...  *)
FeedGet(r) ==
  /\ held = Null
  /\ held' = ptr
  /\ heldVer' = heap[ptr]
  /\ req' = r
  /\ page' = NoPage
  /\ UNCHANGED <<dbVars, cacheFor, cache, newest>>

(* The page for a request, rendered from the snapshot at an address.       *)
Render(a, r) ==
  [ver |-> heap[a], tag |-> r.tag, size |-> r.size, query |-> r.query]

(* Pages of a free-text search are not shared.  The bug: they are.         *)
CacheableAlways(r) == TRUE

Cacheable(r) == ~r.query

Key(r) == r.tag \o <<US>> \o r.size

(* The cached pages valid for the snapshot held.  The bug: the cache       *)
(* outlives the snapshot it was filled from.                               *)
ValidCacheForever == cache

ValidCache == IF cacheFor # held THEN {} ELSE cache

(* emplace below the cap.  The bug: the cap is off by one.                 *)
StoreOffByOne(valid, k, p) ==
  IF Cardinality(valid) <= MaxCached THEN valid \cup {<<k, p>>} ELSE valid

Store(valid, k, p) ==
  IF Cardinality(valid) < MaxCached THEN valid \cup {<<k, p>>} ELSE valid

(* ... drops a cache filled from another snapshot, answers from the cache  *)
(* or renders the page and stores it while there is room.  Nothing else    *)
(* touches this state, so the rest of the handler is one step.             *)
FeedAnswer ==
  /\ held # Null /\ page = NoPage
  /\ LET hits == {e \in ValidCache : e[1] = Key(req)} IN
       \/ \E e \in hits :
            /\ Cacheable(req)
            /\ page' = e[2]
            /\ cache' = ValidCache
       \/ /\ ~Cacheable(req) \/ hits = {}
          /\ page' = Render(held, req)
          /\ cache' = IF Cacheable(req)
                      THEN Store(ValidCache, Key(req), Render(held, req))
                      ELSE ValidCache
  /\ cacheFor' = held
  /\ newest' = page'.ver
  /\ UNCHANGED <<dbVars, req, held, heldVer>>

(* tpl.render throws: dispatch answers 500 without a page, and the check   *)
(* of the cache against the snapshot has been made all the same.           *)
FeedFail ==
  /\ held # Null /\ page = NoPage
  /\ ~Cacheable(req) \/ \A e \in ValidCache : e[1] # Key(req)
  /\ cache' = ValidCache
  /\ cacheFor' = held
  /\ held' = Null
  /\ UNCHANGED <<dbVars, req, heldVer, page, newest>>

(* The handler returns and its reference goes away.                        *)
FeedReturn ==
  /\ held # Null /\ page # NoPage
  /\ held' = Null
  /\ UNCHANGED <<dbVars, cacheFor, cache, req, heldVer, page, newest>>

Init ==
  \E a \in Addrs :
    /\ heap = [b \in Addrs |-> IF b = a THEN 1 ELSE 0]
    /\ ptr = a /\ fresh = Null /\ version = 1
    /\ cacheFor = Null /\ cache = {}
    /\ req = [tag |-> <<>>, size |-> <<>>, query |-> FALSE]
    /\ held = Null /\ heldVer = 0 /\ page = NoPage /\ newest = 0

Next ==
  \/ \E a \in Addrs : Build(a)
  \/ Swap
  \/ \E r \in Request : FeedGet(r)
  \/ FeedAnswer
  \/ FeedFail
  \/ FeedReturn

Spec == Init /\ [][Next]_vars

-----------------------------------------------------------------------------
(* Types; the cache stays within kMaxCachedFeeds and has one page per key. *)
TypeOK ==
  /\ heap \in [Addrs -> 0..MaxVersion]
  /\ ptr \in Addrs /\ {fresh, cacheFor, held} \subseteq Addrs \cup {Null}
  /\ version \in 1..MaxVersion /\ {heldVer, newest} \subseteq 0..MaxVersion
  /\ req \in Request /\ page \in Page \cup {NoPage}
  /\ Cardinality(cache) <= MaxCached
  /\ \A e \in cache : e[2] \in Page
  /\ \A e, f \in cache : e[1] = f[1] => e = f

(* handlers.hpp:27 "valid for exactly one catalog snapshot": the answer,   *)
(* from the cache or not, is the page this request would get if it were    *)
(* rendered now from the snapshot it took, which is still the object it    *)
(* took, however often the DB thread swapped and reused addresses since.   *)
AnswerIsFresh ==
  /\ held # Null => heap[held] = heldVer
  /\ held # Null /\ page # NoPage =>
       page = [ver |-> heldVer, tag |-> req.tag, size |-> req.size,
               query |-> req.query]

(* Pages never go back in time: no visitor gets a page rendered from an    *)
(* older snapshot than a page answered before it (feed_cache is dropped    *)
(* wholesale when the snapshot changes, CatalogHandle::set only advances). *)
NeverOlder == [][newest' >= newest]_vars
=============================================================================
