--------------------------- MODULE MetricsPipeline ---------------------------
(***************************************************************************)
(* The metrics write path of s-size: the HTTP thread's handlers that log   *)
(* events and accept postbacks, the two queues (events.cpp), the database  *)
(* thread that flushes them (db_worker.cpp), the events and conversions    *)
(* tables (db.cpp), and the orderly shutdown of main.cpp.                  *)
(*                                                                         *)
(* Three threads take steps: HTTP (one request at a time; a beacon pushes  *)
(* its events one by one), the DB thread (one step per queue access,       *)
(* transaction or statement) and main.  A process may crash at any point   *)
(* and is then started again; the tables survive, the queues do not.       *)
(***************************************************************************)
EXTENDS Integers, Sequences, FiniteSets

CONSTANTS
  MaxPending,     (* Config::event_queue_capacity                          *)
  KMaxBatch,      (* kMaxBatch: events accepted from one beacon            *)
  Orders,         (* order references a partner may quote                  *)
  NoOrder,        (* a postback without an order reference (SQL NULL)      *)
  StatusInputs,   (* what the status parameter may hold, legal or not      *)
  MaxEvents,      (* bound: events ever logged                             *)
  MaxPostbacks,   (* bound: postbacks ever accepted                        *)
  MaxBeacon,      (* bound: well-formed entries in one beacon body         *)
  MaxFaults       (* bound: crashes and failing database statements        *)

ASSUME PipelineAssumption ==
  /\ MaxPending \in Nat /\ KMaxBatch \in Nat
  /\ MaxEvents \in Nat /\ MaxPostbacks \in Nat /\ MaxBeacon \in Nat
  /\ MaxFaults \in Nat
  /\ NoOrder \notin Orders

VARIABLES
  mpc,          (* main thread                                             *)
  left,         (* entries the beacon being handled still has to push      *)
  pending,      (* EventQueue::pending_                                    *)
  convq,        (* ConversionQueue::pending_                               *)
  dpc,          (* DB thread                                               *)
  batch,        (* the batch local to flush_events                         *)
  cbatch,       (* what is left of the batch local to flush_conversions    *)
  events,       (* table events, in rowid order                            *)
  conversions,  (* table conversions, a set of rows                        *)
  nextEv,       (* the next event; also the click token it would carry     *)
  nextPb,       (* the next postback; also its time stamp                  *)
  issued,       (* click tokens handed to a partner by a redirect          *)
  dropped,      (* events push() refused (the code keeps their number)     *)
  lost,         (* history: events discarded by a failed flush or a crash  *)
  pruned,       (* history: events deleted by prune_events                 *)
  warned,       (* history: postbacks logged as "unknown click token"      *)
  faults        (* crashes and failed statements so far                    *)

httpVars  == <<left, nextEv, nextPb, issued, dropped>>
dbVars    == <<dpc, batch, cbatch, events, conversions, lost, pruned, warned,
               faults>>
vars      == <<mpc, pending, convq, httpVars, dbVars>>

-----------------------------------------------------------------------------
(***************************************************************************)
(* Data.  An event is its serial number and its type; the click token of   *)
(* an outbound event is that number (make_click_token draws 71 random      *)
(* bits: tokens are taken to be distinct).  Token 0 is one nobody issued.  *)
(* A postback's status stands for everything a later postback for the same *)
(* order overwrites (status, amount_kopek).  Its field inTime is history:  *)
(* whether it arrived after its click was drained, or while both will      *)
(* still be drained by the same round.  No handler logs a Search event.    *)
(***************************************************************************)
EventTypes == {"impression", "card_click", "outbound"}
Statuses   == {"pending", "approved", "rejected"}
Event      == [id : 1..MaxEvents, type : EventTypes]
Unissued   == 0
Postback   == [ts : 1..MaxPostbacks, token : 0..MaxEvents,
               order : Orders \cup {NoOrder}, status : Statuses,
               inTime : BOOLEAN]
Row        == [ts : 1..MaxPostbacks, token : 0..MaxEvents,
               order : Orders \cup {NoOrder}, status : Statuses]

Ids(s)    == {s[i].id : i \in DOMAIN s}
Tokens(s) == {s[i].id : i \in {j \in DOMAIN s : s[j].type = "outbound"}}

-----------------------------------------------------------------------------
(***************************************************************************)
(* HTTP thread.  A request is only started while the io_context runs; one  *)
(* that has started runs to its end (HttpServer::stop joins the thread).   *)
(***************************************************************************)
Serving == mpc = "running" /\ left = 0

(* EventQueue::push, called by log_event: a full queue refuses the event.  *)
(* The bugs: the bound is off by one, either way; a full queue overwrites  *)
(* its oldest.                                                             *)
PushEarlyRefusal(e) ==
  IF Len(pending) + 1 >= MaxPending
  THEN dropped' = dropped \cup {e.id} /\ UNCHANGED pending
  ELSE pending' = Append(pending, e) /\ UNCHANGED dropped

PushOffByOne(e) ==
  IF Len(pending) > MaxPending
  THEN dropped' = dropped \cup {e.id} /\ UNCHANGED pending
  ELSE pending' = Append(pending, e) /\ UNCHANGED dropped

PushRing(e) ==
  IF Len(pending) >= MaxPending
  THEN pending' = Append(Tail(pending), e) /\ UNCHANGED dropped
  ELSE pending' = Append(pending, e) /\ UNCHANGED dropped

Push(e) ==
  IF Len(pending) >= MaxPending
  THEN dropped' = dropped \cup {e.id} /\ UNCHANGED pending
  ELSE pending' = Append(pending, e) /\ UNCHANGED dropped

LogEvent(type) ==
  /\ nextEv <= MaxEvents
  /\ nextEv' = nextEv + 1
  /\ Push([id |-> nextEv, type |-> type])

(* GET /item/{id}: one card_click.                                         *)
HandleItem ==
  /\ Serving
  /\ LogEvent("card_click")
  /\ UNCHANGED <<mpc, left, convq, nextPb, issued, dbVars>>

(* GET /r/{id}: one outbound event.  The token reaches the partner when    *)
(* the item's partner is usable, whether or not the queue took the event.  *)
HandleRedirect(usable) ==
  /\ Serving
  /\ LogEvent("outbound")
  /\ issued' = issued \cup (IF usable THEN {nextEv} ELSE {})
  /\ UNCHANGED <<mpc, left, convq, nextPb, dbVars>>

(* POST /api/ev with n well-formed entries: the loop stops at kMaxBatch.   *)
HandleBeacon(n) ==
  /\ Serving
  /\ left' = IF n > KMaxBatch THEN KMaxBatch ELSE n
  /\ nextEv + left' <= MaxEvents + 1
  /\ UNCHANGED <<mpc, pending, convq, nextEv, nextPb, issued, dropped, dbVars>>

(* One round of that loop; the DB thread may drain between two rounds.     *)
PushImpression ==
  /\ left > 0
  /\ left' = left - 1
  /\ LogEvent("impression")
  /\ UNCHANGED <<mpc, convq, nextPb, issued, dbVars>>

(* ConversionQueue::push: no bound.  The bug: a stack, not a queue.        *)
PushConversionFront(c) == convq' = <<c>> \o convq

PushConversion(c) == convq' = Append(convq, c)

(* handle_postback refuses a status the table's CHECK would not take.      *)
StatusOK(status) == status \in Statuses

InTime(token) ==
  \/ token \in Tokens(events \o batch)
  \/ token \in Tokens(pending) /\ dpc \notin {"insert_ev", "drain_cv"}

(* GET /cpa/postback, signed and with a subid: the other early returns     *)
(* change nothing.  A partner quotes a token it was given; Unissued stands *)
(* for any other.  Retries, duplicates and reorderings are further calls.  *)
HandlePostback(token, order, status) ==
  /\ Serving
  /\ nextPb <= MaxPostbacks
  /\ StatusOK(status)
  /\ PushConversion([ts |-> nextPb, token |-> token, order |-> order,
                     status |-> status,
                     inTime |-> InTime(token)])
  /\ nextPb' = nextPb + 1
  /\ UNCHANGED <<mpc, pending, left, nextEv, issued, dropped, dbVars>>

Http ==
  \/ HandleItem
  \/ \E usable \in BOOLEAN : HandleRedirect(usable)
  \/ \E n \in 1..MaxBeacon : HandleBeacon(n)
  \/ PushImpression
  \/ \E token \in issued \cup {Unissued}, order \in Orders \cup {NoOrder},
        status \in StatusInputs : HandlePostback(token, order, status)

-----------------------------------------------------------------------------
(***************************************************************************)
(* DB thread: DbWorker::run.  The refresh of the catalogue, which touches  *)
(* none of this state, is in CatalogRefresh.                              *)
(***************************************************************************)
dbLocals == <<mpc, convq, httpVars>>
Running  == mpc \in {"running", "stop_http"}      (* running_.load()        *)
Fault    == faults < MaxFaults /\ faults' = faults + 1

(* What a round does after what.  The bug: postbacks flushed first.        *)
RoundPostbacksFirst ==
  [top |-> "drain_cv", record_cv |-> "drain_ev", insert_ev |-> "maint"]

Round == [top |-> "drain_ev", insert_ev |-> "drain_cv", record_cv |-> "maint"]

(* The loop condition: another round, or the flush on the way out.         *)
(* The bugs: it never looks at running_; it waits for a full queue.        *)
DbTopLazy ==
  /\ dpc = "top"
  /\ dpc' = IF ~Running THEN "final_drain"
            ELSE IF Len(pending) < MaxPending THEN "maint" ELSE Round["top"]
  /\ UNCHANGED <<dbLocals, pending, batch, cbatch, events, conversions, lost,
                 pruned, warned, faults>>

DbTopForever ==
  /\ dpc = "top"
  /\ dpc' = Round["top"]
  /\ UNCHANGED <<dbLocals, pending, batch, cbatch, events, conversions, lost,
                 pruned, warned, faults>>

DbTop ==
  /\ dpc = "top"
  /\ dpc' = IF Running THEN Round["top"] ELSE "final_drain"
  /\ UNCHANGED <<dbLocals, pending, batch, cbatch, events, conversions, lost,
                 pruned, warned, faults>>

(* EventQueue::drain swaps the whole queue out under its lock.  The bug:   *)
(* it copies and leaves the queue as it was.                               *)
DrainEventsCopy ==
  /\ \/ dpc = "drain_ev" /\ dpc' = "insert_ev"
     \/ dpc = "final_drain" /\ dpc' = "final_insert"
  /\ batch' = pending
  /\ UNCHANGED <<dbLocals, pending, cbatch, events, conversions, lost, pruned,
                 warned, faults>>

DrainEvents ==
  /\ \/ dpc = "drain_ev" /\ dpc' = "insert_ev"
     \/ dpc = "final_drain" /\ dpc' = "final_insert"
  /\ batch' = pending
  /\ pending' = <<>>
  /\ UNCHANGED <<dbLocals, cbatch, events, conversions, lost, pruned, warned,
                 faults>>

(* insert_events: the whole batch becomes visible at COMMIT.  An empty     *)
(* batch returns early, with the same effect.  The bug: that early return  *)
(* also leaves the round, so an idle site never flushes its postbacks.     *)
InsertEventsOrSkip ==
  /\ \/ dpc = "insert_ev" /\ dpc' = IF batch = <<>> THEN "maint" ELSE "drain_cv"
     \/ dpc = "final_insert" /\ dpc' = "joined"
  /\ events' = events \o batch
  /\ batch' = <<>>
  /\ UNCHANGED <<dbLocals, pending, cbatch, conversions, lost, pruned, warned,
                 faults>>

InsertEvents ==
  /\ \/ dpc = "insert_ev" /\ dpc' = Round["insert_ev"]
     \/ dpc = "final_insert" /\ dpc' = "joined"
  /\ events' = events \o batch
  /\ batch' = <<>>
  /\ UNCHANGED <<dbLocals, pending, cbatch, conversions, lost, pruned, warned,
                 faults>>

(* The transaction throws: rolled back, the batch is a local that unwinds, *)
(* and the catch in run() is reached without flush_conversions.            *)
InsertEventsFail ==
  /\ batch # <<>>
  /\ \/ dpc = "insert_ev" /\ dpc' = "maint"
     \/ dpc = "final_insert" /\ dpc' = "joined"
  /\ Fault
  /\ lost' = lost \cup Ids(batch)
  /\ batch' = <<>>
  /\ UNCHANGED <<dbLocals, pending, cbatch, events, conversions, pruned, warned>>

DrainConversions ==
  /\ dpc = "drain_cv"
  /\ cbatch' = convq
  /\ convq' = <<>>
  /\ dpc' = "record_cv"
  /\ UNCHANGED <<mpc, httpVars, pending, batch, events, conversions, lost,
                 pruned, warned, faults>>

(* The INSERT ... ON CONFLICT(order_ref) of record_conversion: a row with  *)
(* the same order keeps its click token and takes the new ts and status.   *)
(* The bug: no conflict clause and no unique index on order_ref, which     *)
(* the schema in docs/analytics.md does not have.                          *)
UpsertPlain(c) ==
  conversions \cup {[ts |-> c.ts, token |-> c.token, order |-> c.order,
                     status |-> c.status]}

Upsert(c) ==
  LET same == {r \in conversions : c.order # NoOrder /\ r.order = c.order}
      row  == [ts |-> c.ts, token |-> c.token, order |-> c.order,
               status |-> c.status]
  IN  IF same = {}
      THEN conversions \cup {row}
      ELSE (conversions \ same) \cup
           {[r EXCEPT !.ts = c.ts, !.status = c.status] : r \in same}

(* One round of flush_conversions' loop.  The bug: no check of the token.  *)
RecordUnchecked ==
  /\ dpc = "record_cv"
  /\ cbatch # <<>>
  /\ conversions' = Upsert(Head(cbatch))
  /\ cbatch' = Tail(cbatch)
  /\ UNCHANGED <<dbLocals, dpc, pending, batch, events, lost, pruned, warned,
                 faults>>

RecordConversion ==
  /\ dpc = "record_cv"
  /\ cbatch # <<>>
  /\ LET c == Head(cbatch) IN
       \/ /\ c.token \in Tokens(events)
          /\ conversions' = Upsert(c)
          /\ UNCHANGED warned
       \/ /\ c.token \notin Tokens(events)
          /\ warned' = warned \cup {c}
          /\ UNCHANGED conversions
  /\ cbatch' = Tail(cbatch)
  /\ UNCHANGED <<dbLocals, dpc, pending, batch, events, lost, pruned, faults>>

(* A statement throws: the rest of the local batch unwinds with it.        *)
RecordConversionFail ==
  /\ dpc = "record_cv"
  /\ cbatch # <<>>
  /\ Fault
  /\ cbatch' = <<>>
  /\ dpc' = "maint"
  /\ UNCHANGED <<dbLocals, pending, batch, events, conversions, lost, pruned,
                 warned>>

ConversionsDone ==
  /\ dpc = "record_cv"
  /\ cbatch = <<>>
  /\ dpc' = Round["record_cv"]
  /\ UNCHANGED <<dbLocals, pending, batch, cbatch, events, conversions, lost,
                 pruned, warned, faults>>

(* maintenance, as far as it touches events: prune_events deletes what is  *)
(* older than the cutoff, the first k rows because rows are in time order. *)
(* k = 0 is also a round in which maintenance is not due or throws.        *)
Maintenance(k) ==
  /\ dpc = "maint"
  /\ events' = SubSeq(events, k + 1, Len(events))
  /\ pruned' = pruned \cup Ids(SubSeq(events, 1, k))
  /\ dpc' = "top"
  /\ UNCHANGED <<dbLocals, pending, batch, cbatch, conversions, lost, warned,
                 faults>>

DbThread ==
  \/ DbTop
  \/ DrainEvents \/ InsertEvents \/ InsertEventsFail
  \/ DrainConversions \/ RecordConversion \/ RecordConversionFail
  \/ ConversionsDone
  \/ \E k \in 0..Len(events) : Maintenance(k)

-----------------------------------------------------------------------------
(***************************************************************************)
(* Main thread and process.                                                *)
(***************************************************************************)
mainFrame == <<pending, convq, httpVars, dbVars>>

(* A signal arrives; HttpServer::stop stops the io_context ...             *)
StopHttp ==
  /\ mpc = "running"
  /\ mpc' = "stop_http"
  /\ UNCHANGED mainFrame

(* ... and joins its thread; only then DbWorker::stop clears running_ ...  *)
(* The bug: the database is stopped while a request may still be handled.  *)
StopDbNoJoin ==
  /\ mpc = "stop_http"
  /\ mpc' = "stop_db"
  /\ UNCHANGED mainFrame

StopDb ==
  /\ mpc = "stop_http"
  /\ left = 0
  /\ mpc' = "stop_db"
  /\ UNCHANGED mainFrame

(* ... joins the DB thread, and main returns.                              *)
Exit ==
  /\ mpc = "stop_db"
  /\ dpc = "joined"
  /\ mpc' = "exit"
  /\ UNCHANGED mainFrame

(* A new process: empty queues, both threads at their start.               *)
FreshProcess ==
  /\ mpc' = "running" /\ left' = 0 /\ dpc' = "top"
  /\ pending' = <<>> /\ convq' = <<>> /\ batch' = <<>> /\ cbatch' = <<>>
  /\ UNCHANGED <<events, conversions, nextEv, nextPb, issued, dropped, pruned,
                 warned>>

Restart ==
  /\ mpc = "exit"
  /\ FreshProcess
  /\ UNCHANGED <<lost, faults>>

(* The process dies: whatever was only in memory is gone.                  *)
Crash ==
  /\ mpc # "exit"
  /\ Fault
  /\ lost' = lost \cup Ids(batch) \cup Ids(pending)
  /\ FreshProcess

Init ==
  /\ mpc = "running" /\ left = 0 /\ dpc = "top"
  /\ pending = <<>> /\ convq = <<>> /\ batch = <<>> /\ cbatch = <<>>
  /\ events = <<>> /\ conversions = {}
  /\ nextEv = 1 /\ nextPb = 1 /\ faults = 0
  /\ issued = {} /\ dropped = {} /\ lost = {} /\ pruned = {} /\ warned = {}

Next == Http \/ DbThread \/ StopHttp \/ StopDb \/ Exit \/ Restart \/ Crash

(* The OS schedules the three threads; a handler that has started runs to  *)
(* its end and a stop that has begun goes on.  Nothing makes a request, a  *)
(* signal, a fault or a restart happen.                                    *)
Fairness ==
  /\ WF_vars(DbThread)
  /\ WF_vars(PushImpression)
  /\ WF_vars(StopDb \/ Exit)

Spec     == Init /\ [][Next]_vars
FairSpec == Spec /\ Fairness

-----------------------------------------------------------------------------
(***************************************************************************)
(* Properties.                                                             *)
(***************************************************************************)
Stream == events \o batch \o pending

(* Types; the event queue never exceeds event_queue_capacity               *)
(* (EventQueue::push) nor a beacon kMaxBatch, and no postback the table's  *)
(* CHECK would reject gets past handle_postback.                           *)
TypeOK ==
  /\ mpc \in {"running", "stop_http", "stop_db", "exit"}
  /\ dpc \in {"top", "drain_ev", "insert_ev", "drain_cv", "record_cv", "maint",
              "final_drain", "final_insert", "joined"}
  /\ left \in 0..KMaxBatch
  /\ pending \in Seq(Event) /\ Len(pending) <= MaxPending
  /\ batch \in Seq(Event) /\ events \in Seq(Event)
  /\ convq \in Seq(Postback) /\ cbatch \in Seq(Postback)
  /\ conversions \subseteq Row /\ warned \subseteq Postback
  /\ nextEv \in 1..(MaxEvents + 1) /\ nextPb \in 1..(MaxPostbacks + 1)
  /\ issued \subseteq 1..MaxEvents /\ dropped \subseteq 1..MaxEvents
  /\ lost \subseteq 1..MaxEvents /\ pruned \subseteq 1..MaxEvents
  /\ faults \in 0..MaxFaults

(* From handler to table no event is duplicated or overtaken, whatever the *)
(* interleaving of pushes with drain, commit, failed flush and crash: read *)
(* table first, then batch, then queue, the numbers strictly increase      *)
(* (EventQueue::drain, flush_events, insert_events).                       *)
InOrderOnce ==
  \A i, j \in DOMAIN Stream : i < j => Stream[i].id < Stream[j].id

(* Every event a handler logged is in exactly one place: on its way or in  *)
(* the table, refused by a full queue, lost to a counted fault, or pruned. *)
(* Nothing vanishes silently, not even across shutdown and restart.        *)
EventAccounting ==
  /\ Ids(Stream) \cup pruned \cup lost \cup dropped = 1..(nextEv - 1)
  /\ Ids(Stream) \cap (pruned \cup lost \cup dropped) = {}
  /\ pruned \cap lost = {} /\ pruned \cap dropped = {} /\ lost \cap dropped = {}

(* db_worker.cpp:95 "so a shutdown does not lose the final second of       *)
(* clicks": when main returns no event is left in memory.  Rests on the    *)
(* order of server.stop() and db.stop() and on the final flush.            *)
ShutdownKeepsClicks == mpc = "exit" => pending = <<>> /\ batch = <<>>

(* db_worker.cpp:73 "After the events: a postback can only match a click   *)
(* that has already been written": a postback whose click was drained when *)
(* it arrived, or waits for the round that will also take the postback,    *)
(* is recorded; reported as unknown, its click was pruned or its flush     *)
(* failed.  What is left is the window between a round's two drains.       *)
InTimePostbackMatches ==
  \A w \in warned : w.inTime => w.token \in pruned \cup lost

(* record_conversion: revenue is only booked against a click that reached  *)
(* the table; pruning may take the click away later, never a failed flush. *)
ConversionsHaveClicks ==
  \A r \in conversions : r.token \in Tokens(events) \cup pruned

(* Retries, duplicates and status changes of one order share one row.      *)
OneRowPerOrder ==
  \A r, s \in conversions : r.order = s.order /\ r.order # NoOrder => r = s

Supersedes(s, r) ==
  s = r \/ (s.order = r.order /\ s.token = r.token /\ s.ts > r.ts)

(* A row of the conversions table stays, and is only ever overwritten by a *)
(* postback that arrived later: through both queues and across rounds and  *)
(* restarts a stale status never replaces a newer one.                     *)
NoStaleOverwrite ==
  [][\A r \in conversions : \E s \in conversions' : Supersedes(s, r)]_vars

(* EventQueue and flush_events: an event a queue accepted gets to the      *)
(* table, shutdown or not, unless a fault takes it.                        *)
EventsReachTable ==
  \A n \in 1..MaxEvents :
    n \in Ids(pending) ~> n \in Ids(events) \cup pruned \cup lost

(* events.hpp:48 "the DB thread persists it": in a process that keeps      *)
(* running without a fault every postback that was answered 200 is written *)
(* or reported, an idle site included.                                     *)
PostbacksHandled ==
  \A t \in 1..MaxPostbacks :
    (\E i \in DOMAIN convq : convq[i].ts = t) ~>
      \/ \E r \in conversions \cup warned : r.ts = t
      \/ mpc # "running" \/ faults > 0

(* main: a shutdown that has begun ends, unless the process dies (and is   *)
(* running again): no join waits forever.                                  *)
ShutdownCompletes == mpc = "stop_http" ~> mpc \in {"exit", "running"}

(* The write path implements the log of WriteBehindLog.                    *)
Log == INSTANCE WriteBehindLog
         WITH Types <- EventTypes, Cap <- MaxPending, log <- events,
              buffer <- batch \o pending, next <- nextEv, faults <- faults

(* Every step of the three threads is a step of that log or changes        *)
(* nothing it can see.                                                     *)
ImplementsLog == Log!Spec

(* db_worker.cpp:121 on a postback whose token is not found: "Either a     *)
(* forged postback or one for a click already pruned."                     *)
UnknownIsForgedOrPruned ==
  \A w \in warned : w.token \in {Unissued} \cup pruned

(* events.cpp:34 "postbacks are money ... Dropping one loses revenue data":*)
(* none is left in memory when main returns.                               *)
ShutdownKeepsPostbacks == mpc = "exit" => convq = <<>> /\ cbatch = <<>>
=============================================================================
