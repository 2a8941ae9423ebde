-------------------------- MODULE ImpressionTracker --------------------------
(***************************************************************************)
(* The impression tracker of the page (static/app.js) and the handler its  *)
(* batches reach (handle_beacon): a card half visible starts a dwell timer,*)
(* a timer that fires puts the card in a queue, the queue is sent every    *)
(* few seconds with fetch and with sendBeacon when the page is hidden or   *)
(* left.  One visitor opens several pages in one session.                  *)
(*                                                                         *)
(* Cards are the items of a page, each shown once (feed.html, item.html).  *)
(* While the tab is hidden the browser computes no intersections, but its  *)
(* timers run.                                                             *)
(***************************************************************************)
EXTENDS Naturals, Sequences, FiniteSets, SequencesExt

CONSTANTS
  Cards,       (* items of a page                                          *)
  MaxBatch,    (* MAX_BATCH of app.js                                      *)
  KMaxBatch,   (* kMaxBatch of handle_beacon                               *)
  MaxPages,    (* bound: pages opened in the session                       *)
  Lossy        (* requests may fail and the tab may be killed              *)

(* A feed page has at most 120 cards (handle_feed) and both caps are 200.  *)
ASSUME TrackerAssumption ==
  /\ IsFiniteSet(Cards) /\ Cardinality(Cards) <= MaxBatch
  /\ MaxBatch <= KMaxBatch /\ KMaxBatch \in Nat /\ MaxBatch \in Nat
  /\ MaxPages \in Nat \ {0} /\ Lossy \in BOOLEAN

VARIABLES
  page, hidden,              (* number of the open page; its tab is hidden *)
  visible, timers, observed, (* cards: half visible, dwelling, observed    *)
  seen, queue,               (* seen of every page so far; the open page's *)
                             (* queue                                      *)
  wire,                      (* batches under way                          *)
  reported, lost             (* events logged and never logged, by page    *)

view == <<visible, timers, observed>>
trackerVars == <<page, hidden, visible, timers, observed, seen, queue, wire, reported, lost>>

Pages == 1..MaxPages

-----------------------------------------------------------------------------
(* The observer's callback for a card that crosses the ratio upwards, and  *)
(* downwards.                                                              *)
Enter(c) ==
  /\ ~hidden /\ c \in observed \ visible
  /\ visible' = visible \cup {c} /\ timers' = timers \cup {c}
  /\ UNCHANGED <<page, hidden, observed, seen, queue, wire, reported, lost>>

Leave(c) ==
  /\ ~hidden /\ c \in observed \cap visible
  /\ visible' = visible \ {c} /\ timers' = timers \ {c}
  /\ UNCHANGED <<page, hidden, observed, seen, queue, wire, reported, lost>>

(* enqueue: a card not yet seen is marked seen, and queued unless the      *)
(* queue is full.                                                          *)
Enqueue(c) ==
  /\ seen' = [seen EXCEPT ![page] = @ \cup {c}]
  /\ queue' = IF c \in seen[page] \/ Len(queue) >= MaxBatch THEN queue
              ELSE Append(queue, c)

Dwelt(c) ==
  /\ c \in timers
  /\ Enqueue(c)
  /\ timers' = timers \ {c} /\ observed' = observed \ {c}
  /\ UNCHANGED <<page, hidden, visible, wire, reported, lost>>

(* flush: the queue becomes a batch under way.  The bug: the queue is not  *)
(* emptied.                                                                *)
Batch == [page |-> page, items |-> queue]

FlushKeepingQueue ==
  /\ wire' = IF queue = <<>> THEN wire ELSE Append(wire, Batch)
  /\ UNCHANGED queue

Flush ==
  /\ wire' = IF queue = <<>> THEN wire ELSE Append(wire, Batch)
  /\ queue' = <<>>

Interval ==
  /\ queue # <<>> /\ Flush
  /\ UNCHANGED <<page, hidden, view, seen, reported, lost>>

Hide ==
  /\ ~hidden /\ hidden' = TRUE
  /\ Flush
  /\ UNCHANGED <<page, view, seen, reported, lost>>

Show ==
  /\ hidden /\ hidden' = FALSE
  /\ UNCHANGED <<page, view, seen, queue, wire, reported, lost>>

NextPage ==
  /\ page < MaxPages /\ page' = page + 1 /\ hidden' = FALSE
  /\ visible' = {} /\ timers' = {} /\ observed' = Cards
  /\ UNCHANGED <<seen, reported>>

(* pagehide flushes, then the next page loads with fresh state.  The bug:  *)
(* no listener.                                                            *)
LeavePageSilently == NextPage /\ queue' = <<>> /\ UNCHANGED <<wire, lost>>

LeavePage == NextPage /\ Flush /\ UNCHANGED lost

(* The browser kills the tab and the visitor opens the page again.         *)
TabKilled ==
  /\ Lossy /\ NextPage
  /\ lost' = lost \cup ({page} \X ToSet(queue)) /\ queue' = <<>>
  /\ UNCHANGED wire

(* handle_beacon logs at most kMaxBatch items of a batch.                  *)
Accepted(items) ==
  SubSeq(items, 1, IF Len(items) < KMaxBatch THEN Len(items) ELSE KMaxBatch)

Receive(k) ==
  /\ LET b == wire[k]
         HowOften(i) == Cardinality({j \in DOMAIN Accepted(b.items) : b.items[j] = i})
     IN  reported' = [x \in Pages \X Cards |->
                        reported[x] + (IF x[1] = b.page THEN HowOften(x[2]) ELSE 0)]
  /\ wire' = RemoveAt(wire, k)
  /\ UNCHANGED <<page, hidden, view, seen, queue, lost>>

(* fetch's catch, or a beacon that never arrives: nothing is sent again.   *)
SendFails(k) ==
  /\ Lossy
  /\ lost' = lost \cup ({wire[k].page} \X ToSet(wire[k].items))
  /\ wire' = RemoveAt(wire, k)
  /\ UNCHANGED <<page, hidden, view, seen, queue, reported>>

-----------------------------------------------------------------------------
TrackerInit ==
  /\ page = 1 /\ hidden = FALSE
  /\ visible = {} /\ timers = {} /\ observed = Cards
  /\ seen = [p \in Pages |-> {}] /\ queue = <<>> /\ wire = <<>>
  /\ reported = [x \in Pages \X Cards |-> 0] /\ lost = {}

TrackerNext ==
  \/ \E c \in Cards : Enter(c) \/ Leave(c) \/ Dwelt(c)
  \/ Interval \/ Hide \/ Show \/ LeavePage \/ TabKilled
  \/ \E k \in DOMAIN wire : Receive(k) \/ SendFails(k)

TrackerSpec ==
  /\ TrackerInit /\ [][TrackerNext]_trackerVars
  /\ WF_trackerVars(Interval) /\ WF_trackerVars(wire # <<>> /\ Receive(1))

-----------------------------------------------------------------------------
(* How often a card of a page is queued, under way, logged or lost.        *)
Traces(p, c) ==
  reported[<<p, c>>]
  + Cardinality({i \in DOMAIN queue : p = page /\ queue[i] = c})
  + Cardinality({x \in (DOMAIN wire) \X (1..MaxBatch) :
                   /\ wire[x[1]].page = p /\ x[2] \in DOMAIN wire[x[1]].items
                   /\ wire[x[1]].items[x[2]] = c})
  + Cardinality({<<p, c>>} \cap lost)

(* app.js:23 "Deduplicated for the life of the page": a card seen on a     *)
(* page is reported from that page exactly once, unless the request or the *)
(* tab is lost: no flush sends it twice or forgets it, and kMaxBatch cuts  *)
(* no batch.  How often a session reports it is OncePerSession's matter.   *)
SeenOncePerPage ==
  \A p \in Pages, c \in Cards : Traces(p, c) = IF c \in seen[p] THEN 1 ELSE 0

(* docs/analytics.md:128 wants impressions deduplicated within a session:  *)
(* no card is reported from two pages of one.  app.js keeps its set of     *)
(* seen cards with the page, so the second page reports the card again.    *)
OncePerSession ==
  \A c \in Cards : \A p, q \in Pages :
    reported[<<p, c>>] > 0 /\ reported[<<q, c>>] > 0 => p = q

(* app.js:47: sendBeacon saves "the last batch": every card seen is logged *)
(* in the end, whenever the visitor leaves, unless its request or its tab  *)
(* is lost.                                                                *)
SeenIsLogged ==
  \A p \in Pages, c \in Cards :
    c \in seen[p] ~> reported[<<p, c>>] = 1 \/ <<p, c>> \in lost
==============================================================================
