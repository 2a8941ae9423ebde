----------------------- MODULE MetricsPipelineProofs -----------------------
(***************************************************************************)
(* Proofs about MetricsPipeline for every value of its constants: types,   *)
(* shutdown, the events (order, accounting, the refinement of              *)
(* WriteBehindLog) and the postbacks.  For the events every step of the    *)
(* three threads is first reduced to one of eight kinds of step on the     *)
(* events; each fact about events is then proved kind by kind.             *)
(***************************************************************************)
EXTENDS MetricsPipeline, SequenceTheorems, TLAPS

(* The ids of a piece of an event sequence are event numbers               *)
(* (Maintenance removes a prefix of the table events).                     *)
LEMMA IdsType ==
  ASSUME NEW s \in Seq(Event)
  PROVE  Ids(s) \subseteq 1..MaxEvents
<1>1. \A i \in DOMAIN s : s[i].id \in 1..MaxEvents
  <2> TAKE i \in DOMAIN s
  <2>1. s[i] \in Event
    OBVIOUS
  <2> QED
    BY <2>1 DEF Event
<1> QED
  BY <1>1 DEF Ids

(* What log_event leaves behind: one more event offered, and queue and     *)
(* drop count in shape, within the queue's capacity.                       *)
LEMMA LogEventType ==
  ASSUME TypeOK, NEW type \in EventTypes, LogEvent(type)
  PROVE  /\ nextEv \in 1..MaxEvents /\ nextEv' \in 1..(MaxEvents + 1)
         /\ pending' \in Seq(Event) /\ Len(pending') <= MaxPending
         /\ dropped' \subseteq 1..MaxEvents
<1>1. nextEv \in 1..MaxEvents /\ nextEv' \in 1..(MaxEvents + 1)
  BY PipelineAssumption DEF TypeOK, LogEvent
<1>2. [id |-> nextEv, type |-> type] \in Event
  BY <1>1 DEF Event
<1>3. CASE Len(pending) >= MaxPending
  BY <1>1, <1>3 DEF TypeOK, LogEvent, Push
<1>4. CASE ~(Len(pending) >= MaxPending)
  <2>1. pending' = Append(pending, [id |-> nextEv, type |-> type])
    BY <1>4 DEF LogEvent, Push
  <2>2. dropped' = dropped
    BY <1>4 DEF LogEvent, Push
  <2>3. pending' \in Seq(Event) /\ Len(pending') = Len(pending) + 1
    BY <1>2, <2>1 DEF TypeOK
  <2> QED
    BY <1>1, <1>4, <2>2, <2>3, PipelineAssumption DEF TypeOK
<1> QED
  BY <1>3, <1>4

(* The part of the table that prune_events leaves, and the part it takes.  *)
LEMMA PruneType ==
  ASSUME NEW s \in Seq(Event), NEW k \in 0..Len(s)
  PROVE  /\ SubSeq(s, k + 1, Len(s)) \in Seq(Event)
         /\ SubSeq(s, 1, k) \in Seq(Event)
OBVIOUS

(* record_conversion's upsert yields rows of the right shape.              *)
LEMMA UpsertType ==
  ASSUME NEW c \in Postback, conversions \subseteq Row
  PROVE  Upsert(c) \subseteq Row
<1> DEFINE same == {r \in conversions : c.order # NoOrder /\ r.order = c.order}
           row  == [ts |-> c.ts, token |-> c.token, order |-> c.order,
                    status |-> c.status]
<1>1. row \in Row
  BY DEF Postback, Row
<1>2. ASSUME NEW r \in same
      PROVE  [r EXCEPT !.ts = c.ts, !.status = c.status] \in Row
  <2>1. r \in Row
    OBVIOUS
  <2> QED
    BY <2>1 DEF Postback, Row
<1> QED
  BY <1>1, <1>2 DEF Upsert

(* Types and the capacity of the event queue, for every configuration.     *)
THEOREM TypeCorrect == Spec => []TypeOK
<1>1. Init => TypeOK
  BY PipelineAssumption DEF Init, TypeOK
<1>2. TypeOK /\ [Next]_vars => TypeOK'
  <2> SUFFICES ASSUME TypeOK, [Next]_vars PROVE TypeOK'
    OBVIOUS
  <2> USE PipelineAssumption
  <2>1. CASE HandleItem
    BY <2>1, LogEventType DEF TypeOK, HandleItem, EventTypes, dbVars
  <2>2. ASSUME NEW usable \in BOOLEAN, HandleRedirect(usable) PROVE TypeOK'
    BY <2>2, LogEventType DEF TypeOK, HandleRedirect, EventTypes, dbVars
  <2>3. ASSUME NEW n \in 1..MaxBeacon, HandleBeacon(n) PROVE TypeOK'
    BY <2>3 DEF TypeOK, HandleBeacon, Serving, dbVars
  <2>4. CASE PushImpression
    BY <2>4, LogEventType DEF TypeOK, PushImpression, EventTypes, dbVars
  <2>5. ASSUME NEW token \in issued \cup {Unissued},
               NEW order \in Orders \cup {NoOrder}, NEW status \in StatusInputs,
               HandlePostback(token, order, status)
        PROVE  TypeOK'
    <3>1. InTime(token) \in BOOLEAN
      BY DEF InTime
    <3>2. [ts |-> nextPb, token |-> token, order |-> order, status |-> status,
           inTime |-> InTime(token)] \in Postback
      BY <2>5, <3>1 DEF TypeOK, HandlePostback, StatusOK, Postback, Unissued
    <3> QED
      BY <2>5, <3>2 DEF TypeOK, HandlePostback, PushConversion, dbVars
  <2>6. CASE DbTop
    BY <2>6 DEF TypeOK, DbTop, Round, dbLocals, httpVars
  <2>7. CASE DrainEvents
    BY <2>7 DEF TypeOK, DrainEvents, dbLocals, httpVars
  <2>8. CASE InsertEvents
    BY <2>8 DEF TypeOK, InsertEvents, Round, dbLocals, httpVars
  <2>9. CASE InsertEventsFail
    <3>1. Ids(batch) \subseteq 1..MaxEvents
      BY IdsType DEF TypeOK
    <3>2. lost' \subseteq 1..MaxEvents
      BY <2>9, <3>1 DEF TypeOK, InsertEventsFail
    <3>3. faults' \in 0..MaxFaults
      BY <2>9 DEF TypeOK, InsertEventsFail, Fault
    <3> QED
      BY <2>9, <3>2, <3>3 DEF TypeOK, InsertEventsFail, dbLocals, httpVars
  <2>10. CASE DrainConversions
    BY <2>10 DEF TypeOK, DrainConversions, httpVars
  <2>11. CASE RecordConversion
    <3>1. Head(cbatch) \in Postback /\ Tail(cbatch) \in Seq(Postback)
      BY <2>11 DEF TypeOK, RecordConversion
    <3>2. Upsert(Head(cbatch)) \subseteq Row
      BY <3>1, UpsertType DEF TypeOK
    <3>3. conversions' \subseteq Row /\ warned' \subseteq Postback
      BY <2>11, <3>1, <3>2 DEF TypeOK, RecordConversion
    <3> QED
      BY <2>11, <3>1, <3>3 DEF TypeOK, RecordConversion, dbLocals, httpVars
  <2>12. CASE RecordConversionFail
    BY <2>12 DEF TypeOK, RecordConversionFail, Fault, dbLocals, httpVars
  <2>13. CASE ConversionsDone
    BY <2>13 DEF TypeOK, ConversionsDone, Round, dbLocals, httpVars
  <2>14. ASSUME NEW k \in 0..Len(events), Maintenance(k) PROVE TypeOK'
    <3>1. /\ SubSeq(events, k + 1, Len(events)) \in Seq(Event)
          /\ Ids(SubSeq(events, 1, k)) \subseteq 1..MaxEvents
      BY PruneType, IdsType DEF TypeOK
    <3> QED
      BY <2>14, <3>1 DEF TypeOK, Maintenance, dbLocals, httpVars
  <2>15. CASE StopHttp \/ StopDb \/ Exit
    BY <2>15 DEF TypeOK, StopHttp, StopDb, Exit, mainFrame, httpVars, dbVars
  <2>16. CASE Restart
    BY <2>16 DEF TypeOK, Restart, FreshProcess
  <2>17. CASE Crash
    <3>1. /\ Ids(batch) \subseteq 1..MaxEvents
          /\ Ids(pending) \subseteq 1..MaxEvents
      BY IdsType DEF TypeOK
    <3>2. lost' \subseteq 1..MaxEvents
      BY <2>17, <3>1 DEF TypeOK, Crash
    <3>3. faults' \in 0..MaxFaults
      BY <2>17 DEF TypeOK, Crash, Fault
    <3> QED
      BY <2>17, <3>2, <3>3 DEF TypeOK, Crash, FreshProcess
  <2>18. CASE UNCHANGED vars
    BY <2>18 DEF TypeOK, vars, httpVars, dbVars
  <2> QED
    BY <2>1, <2>2, <2>3, <2>4, <2>5, <2>6, <2>7, <2>8, <2>9, <2>10, <2>11,
       <2>12, <2>13, <2>14, <2>15, <2>16, <2>17, <2>18
    DEF Next, Http, DbThread
<1> QED
  BY <1>1, <1>2, PTL DEF Spec

(* Which phases of the three threads go together: the DB thread leaves its   *)
(* loop only after DbWorker::stop, which main calls only when the HTTP       *)
(* thread is joined (no beacon half pushed); main returns only when the DB   *)
(* thread is joined; from the final drain on the queue stays empty; and      *)
(* batches are locals that do not outlive flush_events and                   *)
(* flush_conversions.                                                        *)
Phases ==
  /\ dpc \in {"final_drain", "final_insert", "joined"} =>
       mpc \in {"stop_db", "exit"}
  /\ mpc \in {"stop_db", "exit"} => left = 0
  /\ mpc = "exit" => dpc = "joined"
  /\ dpc \in {"final_insert", "joined"} => pending = <<>>
  /\ dpc \notin {"insert_ev", "final_insert"} => batch = <<>>
  /\ dpc # "record_cv" => cbatch = <<>>

(* Phases is preserved by every step. The order of server.stop() and         *)
(* db.stop() in main is what makes the final drain final.                    *)
LEMMA PhasesInductive == TypeOK /\ Phases /\ [Next]_vars => Phases'
<1> SUFFICES ASSUME TypeOK, Phases, [Next]_vars PROVE Phases'
  OBVIOUS
<1> USE PipelineAssumption
<1>1. CASE HandleItem
  BY <1>1 DEF Phases, HandleItem, Serving, dbVars
<1>2. ASSUME NEW usable \in BOOLEAN, HandleRedirect(usable) PROVE Phases'
  BY <1>2 DEF Phases, HandleRedirect, Serving, dbVars
<1>3. ASSUME NEW n \in 1..MaxBeacon, HandleBeacon(n) PROVE Phases'
  BY <1>3 DEF Phases, HandleBeacon, Serving, dbVars
<1>4. CASE PushImpression
  BY <1>4 DEF TypeOK, Phases, PushImpression, dbVars
<1>5. ASSUME NEW token \in issued \cup {Unissued},
             NEW order \in Orders \cup {NoOrder}, NEW status \in StatusInputs,
             HandlePostback(token, order, status)
      PROVE  Phases'
  BY <1>5 DEF Phases, HandlePostback, Serving, dbVars
<1>6. CASE DbTop
  BY <1>6 DEF TypeOK, Phases, DbTop, Running, Round, dbLocals, httpVars
<1>7. CASE DrainEvents
  BY <1>7 DEF Phases, DrainEvents, dbLocals, httpVars
<1>8. CASE InsertEvents
  BY <1>8 DEF Phases, InsertEvents, Round, dbLocals, httpVars
<1>9. CASE InsertEventsFail
  BY <1>9 DEF Phases, InsertEventsFail, dbLocals, httpVars
<1>10. CASE DrainConversions
  BY <1>10 DEF Phases, DrainConversions, httpVars
<1>11. CASE RecordConversion
  BY <1>11 DEF Phases, RecordConversion, dbLocals, httpVars
<1>12. CASE RecordConversionFail
  BY <1>12 DEF Phases, RecordConversionFail, dbLocals, httpVars
<1>13. CASE ConversionsDone
  BY <1>13 DEF Phases, ConversionsDone, Round, dbLocals, httpVars
<1>14. ASSUME NEW k \in 0..Len(events), Maintenance(k) PROVE Phases'
  BY <1>14 DEF Phases, Maintenance, dbLocals, httpVars
<1>15. CASE StopHttp \/ StopDb \/ Exit
  BY <1>15 DEF Phases, StopHttp, StopDb, Exit, mainFrame, httpVars, dbVars
<1>16. CASE Restart \/ Crash
  BY <1>16 DEF Phases, Restart, Crash, FreshProcess
<1>17. CASE UNCHANGED vars
  BY <1>17 DEF Phases, vars, httpVars, dbVars
<1> QED
  BY <1>1, <1>2, <1>3, <1>4, <1>5, <1>6, <1>7, <1>8, <1>9, <1>10, <1>11, <1>12,
     <1>13, <1>14, <1>15, <1>16, <1>17
  DEF Next, Http, DbThread

(* When main returns no event is left in memory (main's order of stops and   *)
(* the final flush of DbWorker::run).                                        *)
THEOREM ShutdownSafe == Spec => []ShutdownKeepsClicks
<1>1. Init => Phases
  BY DEF Init, Phases
<1>2. Phases => ShutdownKeepsClicks
  BY DEF Phases, ShutdownKeepsClicks
<1> QED
  BY <1>1, <1>2, PhasesInductive, TypeCorrect, PTL DEF Spec

-----------------------------------------------------------------------------
(* The events                                                                *)

(* An empty queue, batch or table holds no events.                           *)
LEMMA IdsEmpty == Ids(<<>>) = {} /\ Tokens(<<>>) = {}
BY DEF Ids, Tokens

(* What a queue swapped out behind a table holds: insert_events appends a    *)
(* batch without losing or inventing an event or a click token.              *)
LEMMA IdsConcat ==
  ASSUME NEW s \in Seq(Event), NEW t \in Seq(Event)
  PROVE  /\ Ids(s \o t) = Ids(s) \cup Ids(t)
         /\ Tokens(s \o t) = Tokens(s) \cup Tokens(t)
<1>1. /\ s \o t \in Seq(Event) /\ Len(s \o t) = Len(s) + Len(t)
      /\ \A i \in 1..Len(s) : (s \o t)[i] = s[i]
      /\ \A i \in 1..Len(t) : (s \o t)[Len(s) + i] = t[i]
  OBVIOUS
<1>2. \A i \in DOMAIN (s \o t) :
        \/ i \in DOMAIN s /\ (s \o t)[i] = s[i]
        \/ \E j \in DOMAIN t : (s \o t)[i] = t[j]
  <2> TAKE i \in DOMAIN (s \o t)
  <2>1. CASE i <= Len(s)
    BY <1>1, <2>1
  <2>2. CASE i > Len(s)
    <3>1. i - Len(s) \in DOMAIN t /\ i = Len(s) + (i - Len(s))
      BY <1>1, <2>2
    <3> QED BY <1>1, <3>1
  <2> QED BY <1>1, <2>1, <2>2
<1>3. /\ \A i \in DOMAIN s : i \in DOMAIN (s \o t) /\ (s \o t)[i] = s[i]
      /\ \A j \in DOMAIN t : /\ Len(s) + j \in DOMAIN (s \o t)
                             /\ (s \o t)[Len(s) + j] = t[j]
  BY <1>1
<1> HIDE <1>1
<1>4. Ids(s \o t) = Ids(s) \cup Ids(t)
  <2>1. ASSUME NEW x \in Ids(s \o t) PROVE x \in Ids(s) \cup Ids(t)
     BY <1>2, <2>1 DEF Ids
  <2>2. ASSUME NEW x \in Ids(s) \cup Ids(t) PROVE x \in Ids(s \o t)
     BY <1>3, <2>2 DEF Ids
  <2> QED BY <2>1, <2>2
<1>5. Tokens(s \o t) = Tokens(s) \cup Tokens(t)
  <2>1. ASSUME NEW x \in Tokens(s \o t) PROVE x \in Tokens(s) \cup Tokens(t)
     BY <1>2, <2>1 DEF Tokens
  <2>2. ASSUME NEW x \in Tokens(s) \cup Tokens(t) PROVE x \in Tokens(s \o t)
     BY <1>3, <2>2, ZenonT(30) DEF Tokens
  <2> QED BY <2>1, <2>2
<1> QED BY <1>4, <1>5

(* What EventQueue::push adds to the queue: the event's number and, for an   *)
(* outbound event, its click token.                                          *)
LEMMA IdsAppend ==
  ASSUME NEW s \in Seq(Event), NEW e \in Event
  PROVE  /\ Ids(Append(s, e)) = Ids(s) \cup {e.id}
         /\ Tokens(Append(s, e)) =
              Tokens(s) \cup (IF e.type = "outbound" THEN {e.id} ELSE {})
<1>1. /\ <<e>> \in Seq(Event) /\ Append(s, e) = s \o <<e>>
      /\ DOMAIN <<e>> = {1} /\ <<e>>[1] = e
  OBVIOUS
<1>2. /\ Ids(<<e>>) = {e.id}
      /\ Tokens(<<e>>) = (IF e.type = "outbound" THEN {e.id} ELSE {})
  BY <1>1 DEF Ids, Tokens
<1> QED BY <1>1, <1>2, IdsConcat, ZenonT(30)

(* The table before prune_events is what it deletes followed by what it      *)
(* leaves.                                                                   *)
LEMMA Split ==
  ASSUME NEW s \in Seq(Event), NEW k \in 0..Len(s)
  PROVE  /\ SubSeq(s, 1, k) \in Seq(Event)
         /\ SubSeq(s, k + 1, Len(s)) \in Seq(Event)
         /\ s = SubSeq(s, 1, k) \o SubSeq(s, k + 1, Len(s))
<1>1. /\ SubSeq(s, 1, k) \in Seq(Event)
      /\ SubSeq(s, k + 1, Len(s)) \in Seq(Event)
  OBVIOUS
<1>2. SubSeq(s, 1, k) \o SubSeq(s, k + 1, Len(s)) = SubSeq(s, 1, Len(s))
  <2>1. /\ 1 \in 1..(Len(s) + 1) /\ k \in (1 - 1)..Len(s)
        /\ Len(s) \in k..Len(s)
    OBVIOUS
  <2> QED BY <2>1, ConcatAdjacentSubSeq
<1>3. SubSeq(s, 1, Len(s)) = s
  BY SubSeqFull
<1> QED BY <1>1, <1>2, <1>3

(* A batch is exactly the oldest part of what is buffered: cutting it off    *)
(* the front of batch and queue leaves the queue.                            *)
LEMMA CutConcat ==
  ASSUME NEW s \in Seq(Event), NEW t \in Seq(Event)
  PROVE  /\ Len(s) \in 0..Len(s \o t)
         /\ SubSeq(s \o t, 1, Len(s)) = s
         /\ SubSeq(s \o t, Len(s) + 1, Len(s \o t)) = t
<1>1. /\ s \o t \in Seq(Event) /\ Len(s) \in Nat /\ Len(t) \in Nat
      /\ Len(s \o t) = Len(s) + Len(t)
  OBVIOUS
<1>2. SubSeq(s \o t, 1, Len(s)) = s
  <2>1. CASE Len(s) = 0
    <3>1. s = <<>> /\ SubSeq(s \o t, 1, 0) = <<>>
      BY <2>1, SubSeqEmpty
    <3> QED BY <2>1, <3>1
  <2>2. CASE Len(s) > 0
    <3>1. 1 \in 1..Len(s) /\ Len(s) \in 1..Len(s)
      BY <1>1, <2>2
    <3>2. SubSeq(s \o t, 1, Len(s)) = SubSeq(s, 1, Len(s))
      BY <3>1, SubSeqOfConcat1
    <3> QED BY <3>2, SubSeqFull
  <2> QED BY <1>1, <2>1, <2>2
<1>3. SubSeq(s \o t, Len(s) + 1, Len(s) + Len(t)) = t
  <2>1. CASE Len(t) = 0
    <3>1. t = <<>> /\ SubSeq(s \o t, Len(s) + 1, Len(s)) = <<>>
      BY <1>1, <2>1, SubSeqEmpty
    <3>2. Len(s) + Len(t) = Len(s)
      BY <1>1, <2>1
    <3> QED BY <3>1, <3>2
  <2>2. CASE Len(t) > 0
    <3> DEFINE m == Len(s) + 1
               n == Len(s) + Len(t)
    <3>1. /\ m \in (Len(s) + 1)..(Len(s) + Len(t))
          /\ n \in (Len(s) + 1)..(Len(s) + Len(t))
          /\ m - Len(s) = 1 /\ n - Len(s) = Len(t)
      BY <1>1, <2>2
    <3>2. SubSeq(s \o t, m, n) = SubSeq(t, m - Len(s), n - Len(s))
      <4> HIDE DEF m, n
      <4> QED BY <3>1, SubSeqOfConcat2
    <3>3. SubSeq(t, 1, Len(t)) = t
      BY SubSeqFull
    <3> QED BY <3>1, <3>2, <3>3
  <2> QED BY <1>1, <2>1, <2>2
<1> QED BY <1>1, <1>2, <1>3

-----------------------------------------------------------------------------
(* Event numbers strictly increase along s.                                  *)
Sorted(s) == \A i, j \in DOMAIN s : i < j => s[i].id < s[j].id

(* Everything in X is below everything in Y.                                 *)
Less(X, Y) == \A x \in X, y \in Y : x < y

(* Positions in the second half of a concatenation, counted from its         *)
(* start.                                                                    *)
LEMMA Shift ==
  ASSUME NEW a \in Nat, NEW b \in Nat, NEW i \in 1..(a + b),
         NEW j \in 1..(a + b), i > a, i < j
  PROVE  /\ i - a \in 1..b /\ i = a + (i - a)
         /\ j - a \in 1..b /\ j = a + (j - a)
         /\ i - a < j - a
OBVIOUS

(* A concatenation is in order iff its halves are and the first lies below   *)
(* the second: how order survives the swap and the append.                   *)
LEMMA SortedConcat ==
  ASSUME NEW s \in Seq(Event), NEW t \in Seq(Event)
  PROVE  Sorted(s \o t) <=> Sorted(s) /\ Sorted(t) /\ Less(Ids(s), Ids(t))
<1>1. /\ DOMAIN s = 1..Len(s) /\ DOMAIN t = 1..Len(t)
      /\ Len(s) \in Nat /\ Len(t) \in Nat
      /\ DOMAIN (s \o t) = 1..(Len(s) + Len(t))
      /\ \A i \in 1..Len(s) : (s \o t)[i] = s[i]
      /\ \A i \in 1..Len(t) : (s \o t)[Len(s) + i] = t[i]
  OBVIOUS
<1>2. ASSUME Sorted(s \o t)
      PROVE  Sorted(s) /\ Sorted(t) /\ Less(Ids(s), Ids(t))
  <2>1. Sorted(s)
    BY <1>1, <1>2 DEF Sorted
  <2>2. Sorted(t)
    <3> SUFFICES ASSUME NEW i \in 1..Len(t), NEW j \in 1..Len(t), i < j
                 PROVE  t[i].id < t[j].id
      BY <1>1 DEF Sorted
    <3>1. /\ Len(s) + i \in DOMAIN (s \o t) /\ Len(s) + j \in DOMAIN (s \o t)
          /\ Len(s) + i < Len(s) + j
      BY <1>1
    <3>2. (s \o t)[Len(s) + i].id < (s \o t)[Len(s) + j].id
      BY <1>2, <3>1 DEF Sorted
    <3> QED BY <1>1, <3>2
  <2>3. Less(Ids(s), Ids(t))
    <3> SUFFICES ASSUME NEW i \in 1..Len(s), NEW j \in 1..Len(t)
                 PROVE  s[i].id < t[j].id
      BY <1>1 DEF Less, Ids
    <3>1. /\ i \in DOMAIN (s \o t) /\ Len(s) + j \in DOMAIN (s \o t)
          /\ i < Len(s) + j
      BY <1>1
    <3>2. (s \o t)[i].id < (s \o t)[Len(s) + j].id
      BY <1>2, <3>1 DEF Sorted
    <3> QED BY <1>1, <3>2
  <2> QED BY <2>1, <2>2, <2>3
<1>3. ASSUME Sorted(s), Sorted(t), Less(Ids(s), Ids(t)),
             NEW i \in DOMAIN (s \o t), NEW j \in DOMAIN (s \o t), i < j
      PROVE  (s \o t)[i].id < (s \o t)[j].id
  <2>1. CASE j <= Len(s)
    <3>1. i \in DOMAIN s /\ j \in DOMAIN s
      BY <1>1, <1>3, <2>1
    <3>2. s[i].id < s[j].id
      BY <1>3, <3>1 DEF Sorted
    <3> QED BY <1>1, <3>1, <3>2
  <2>2. CASE i > Len(s)
    <3>0. i \in 1..(Len(s) + Len(t)) /\ j \in 1..(Len(s) + Len(t)) /\ i < j
      BY <1>1, <1>3
    <3>1. /\ i - Len(s) \in DOMAIN t /\ j - Len(s) \in DOMAIN t
          /\ i - Len(s) < j - Len(s)
          /\ i = Len(s) + (i - Len(s)) /\ j = Len(s) + (j - Len(s))
      <4>1. /\ i - Len(s) \in 1..Len(t) /\ i = Len(s) + (i - Len(s))
            /\ j - Len(s) \in 1..Len(t) /\ j = Len(s) + (j - Len(s))
            /\ i - Len(s) < j - Len(s)
        BY <1>1, <2>2, <3>0, Shift
      <4> QED BY <1>1, <4>1
    <3>2. t[i - Len(s)].id < t[j - Len(s)].id
      BY <1>3, <3>1 DEF Sorted
    <3> QED BY <1>1, <3>1, <3>2
  <2>3. CASE i <= Len(s) /\ j > Len(s)
    <3>1. /\ i \in DOMAIN s /\ j - Len(s) \in DOMAIN t
          /\ j = Len(s) + (j - Len(s))
      BY <1>1, <1>3, <2>3
    <3>2. s[i].id \in Ids(s) /\ t[j - Len(s)].id \in Ids(t)
      BY <3>1 DEF Ids
    <3>3. s[i].id < t[j - Len(s)].id
      BY <1>3, <3>2 DEF Less
    <3> QED BY <1>1, <3>1, <3>3
  <2> QED BY <1>1, <2>1, <2>2, <2>3
<1> QED BY <1>2, <1>3 DEF Sorted

(* Nothing has to be compared with an empty queue.                           *)
LEMMA LessEmpty == \A X : Less(X, {}) /\ Less({}, X)
BY DEF Less

(* Less distributes over union.                                              *)
LEMMA LessUnion ==
  /\ \A X, Y, Z : Less(X, Y \cup Z) <=> Less(X, Y) /\ Less(X, Z)
  /\ \A X, Y, Z : Less(X \cup Y, Z) <=> Less(X, Z) /\ Less(Y, Z)
<1>1. \A X, Y, Z : Less(X, Y \cup Z) <=> Less(X, Y) /\ Less(X, Z)
  BY Zenon DEF Less
<1>2. \A X, Y, Z : Less(X \cup Y, Z) <=> Less(X, Z) /\ Less(Y, Z)
  BY Zenon DEF Less
<1> QED BY <1>1, <1>2

(* Sets of numbers one below the other share no member.                      *)
LEMMA LessDisjoint ==
  \A X \in SUBSET Int : \A Y : Less(X, Y) => X \cap Y = {}
<1> SUFFICES ASSUME NEW X \in SUBSET Int, NEW Y, Less(X, Y),
                    NEW x \in X, x \in Y
             PROVE  FALSE
  OBVIOUS
<1>1. x < x /\ x \in Int
  BY DEF Less
<1> QED BY <1>1

(* Sequences of length 0 and 1 are in order.                                 *)
LEMMA SortedShort ==
  /\ Sorted(<<>>)
  /\ \A e : Sorted(<<e>>)
BY DEF Sorted

-----------------------------------------------------------------------------
(* What a step of the program does to the events: EventQueue::push took      *)
(* one ...                                                                   *)
AcceptStep ==
  /\ nextEv <= MaxEvents /\ nextEv' = nextEv + 1
  /\ \E type \in EventTypes :
       pending' = Append(pending, [id |-> nextEv, type |-> type])
  /\ UNCHANGED <<events, batch, pruned, lost, dropped, faults>>

(* ... or refused one because the queue was full,                            *)
RefuseStep ==
  /\ nextEv <= MaxEvents /\ nextEv' = nextEv + 1
  /\ Len(pending) >= MaxPending
  /\ dropped' = dropped \cup {nextEv}
  /\ UNCHANGED <<events, batch, pending, pruned, lost, faults>>

(* EventQueue::drain swapped the queue into an empty batch,                  *)
DrainStep ==
  /\ batch = <<>> /\ batch' = pending /\ pending' = <<>>
  /\ UNCHANGED <<events, nextEv, pruned, lost, dropped, faults>>

(* insert_events committed the batch,                                        *)
CommitStep ==
  /\ events' = events \o batch /\ batch' = <<>>
  /\ UNCHANGED <<pending, nextEv, pruned, lost, dropped, faults>>

(* insert_events threw and the batch unwound,                                *)
FailStep ==
  /\ lost' = lost \cup Ids(batch) /\ batch' = <<>> /\ faults' = faults + 1
  /\ UNCHANGED <<events, pending, nextEv, pruned, dropped>>

(* prune_events deleted the k oldest rows,                                   *)
PruneStep(k) ==
  /\ batch = <<>>
  /\ events' = SubSeq(events, k + 1, Len(events))
  /\ pruned' = pruned \cup Ids(SubSeq(events, 1, k))
  /\ UNCHANGED <<batch, pending, nextEv, lost, dropped, faults>>

(* the process died,                                                         *)
CrashStep ==
  /\ lost' = lost \cup Ids(batch) \cup Ids(pending)
  /\ batch' = <<>> /\ pending' = <<>> /\ faults' = faults + 1
  /\ UNCHANGED <<events, nextEv, pruned, dropped>>

(* or nothing an event depends on happened, a failed conversion statement    *)
(* included.                                                                 *)
StayStep ==
  /\ UNCHANGED <<events, batch, pending, nextEv, pruned, lost, dropped>>
  /\ faults' \in {faults, faults + 1}

(* A step of the program as far as events are concerned.                     *)
EventStep ==
  \/ AcceptStep \/ RefuseStep \/ DrainStep \/ CommitStep \/ FailStep
  \/ (\E k \in 0..Len(events) : PruneStep(k)) \/ CrashStep \/ StayStep

(* log_event is an AcceptStep or a RefuseStep.                               *)
LEMMA LogEventStep ==
  ASSUME NEW type \in EventTypes, LogEvent(type),
         UNCHANGED dbVars
  PROVE  AcceptStep \/ RefuseStep
BY DEF LogEvent, Push, AcceptStep, RefuseStep, dbVars

(* Every step of the three threads is one of these. Restart needs Phases:    *)
(* nothing is in memory when main has returned.                              *)
LEMMA EventSteps == TypeOK /\ Phases /\ [Next]_vars => EventStep
<1> SUFFICES ASSUME TypeOK, Phases, [Next]_vars PROVE EventStep
  OBVIOUS
<1>1. CASE \/ HandleItem \/ PushImpression
           \/ \E usable \in BOOLEAN : HandleRedirect(usable)
  BY <1>1, LogEventStep
  DEF HandleItem, PushImpression, HandleRedirect, EventTypes, EventStep
<1>2. CASE \E n \in 1..MaxBeacon : HandleBeacon(n)
  BY <1>2 DEF HandleBeacon, EventStep, StayStep, dbVars
<1>3. CASE \E token \in issued \cup {Unissued}, order \in Orders \cup {NoOrder},
              status \in StatusInputs : HandlePostback(token, order, status)
  BY <1>3 DEF HandlePostback, EventStep, StayStep, dbVars
<1>4. CASE DbTop \/ DrainConversions \/ ConversionsDone
  BY <1>4
  DEF DbTop, DrainConversions, ConversionsDone, dbLocals, httpVars,
      EventStep, StayStep
<1>5. CASE DrainEvents
  BY <1>5 DEF DrainEvents, dbLocals, httpVars, Phases, EventStep, DrainStep
<1>6. CASE InsertEvents
  BY <1>6 DEF InsertEvents, dbLocals, httpVars, EventStep, CommitStep
<1>7. CASE InsertEventsFail
  BY <1>7 DEF InsertEventsFail, Fault, dbLocals, httpVars, EventStep, FailStep
<1>8. CASE RecordConversion
  BY <1>8 DEF RecordConversion, dbLocals, httpVars, EventStep, StayStep
<1>9. CASE RecordConversionFail
  BY <1>9
  DEF RecordConversionFail, Fault, dbLocals, httpVars, EventStep, StayStep
<1>10. CASE \E k \in 0..Len(events) : Maintenance(k)
  BY <1>10 DEF Maintenance, Phases, dbLocals, httpVars, EventStep, PruneStep
<1>11. CASE StopHttp \/ StopDb \/ Exit
  BY <1>11
  DEF StopHttp, StopDb, Exit, mainFrame, httpVars, dbVars, EventStep, StayStep
<1>12. CASE Restart
  BY <1>12 DEF Restart, FreshProcess, Phases, EventStep, StayStep
<1>13. CASE Crash
  BY <1>13 DEF Crash, Fault, FreshProcess, EventStep, CrashStep
<1>14. CASE UNCHANGED vars
  BY <1>14 DEF vars, httpVars, dbVars, EventStep, StayStep
<1> QED
  BY <1>1, <1>2, <1>3, <1>4, <1>5, <1>6, <1>7, <1>8, <1>9, <1>10, <1>11, <1>12,
     <1>13, <1>14
  DEF Next, Http, DbThread

-----------------------------------------------------------------------------
(* The stream of events, in terms of its three parts.                        *)
InOrder ==
  /\ Sorted(events) /\ Sorted(batch) /\ Sorted(pending)
  /\ Less(Ids(events), Ids(batch)) /\ Less(Ids(events), Ids(pending))
  /\ Less(Ids(batch), Ids(pending))

(* Events that are in the table, in a batch or in the queue.                 *)
Places == Ids(events) \cup Ids(batch) \cup Ids(pending)

(* EventAccounting in terms of those parts.                                  *)
Account ==
  /\ Places \cup pruned \cup lost \cup dropped = 1..(nextEv - 1)
  /\ Places \cap (pruned \cup lost \cup dropped) = {}
  /\ pruned \cap lost = {} /\ pruned \cap dropped = {} /\ lost \cap dropped = {}

(* The parts describe the stream InOrderOnce and EventAccounting speak of.   *)
LEMMA StreamFacts ==
  ASSUME TypeOK
  PROVE  /\ Stream \in Seq(Event)
         /\ Ids(Stream) = Places
         /\ Sorted(Stream) <=> InOrder
<1>1. /\ events \in Seq(Event) /\ batch \in Seq(Event) /\ pending \in Seq(Event)
      /\ events \o batch \in Seq(Event)
      /\ (events \o batch) \o pending \in Seq(Event)
  BY DEF TypeOK
<1>2. /\ Ids(events \o batch) = Ids(events) \cup Ids(batch)
      /\ Ids((events \o batch) \o pending) = Places
  BY <1>1, IdsConcat, ZenonT(30) DEF Places
<1>3. /\ Sorted(events \o batch) <=>
           Sorted(events) /\ Sorted(batch) /\ Less(Ids(events), Ids(batch))
      /\ Sorted((events \o batch) \o pending) <=>
           /\ Sorted(events \o batch) /\ Sorted(pending)
           /\ Less(Ids(events) \cup Ids(batch), Ids(pending))
  BY <1>1, <1>2, SortedConcat
<1> QED BY <1>1, <1>2, <1>3, LessUnion DEF Stream, InOrder

(* The inductive invariant of the event path. Order needs the accounting     *)
(* (a new event is above all others because those are below nextEv) and      *)
(* the accounting needs the order (what is pruned or lost leaves the         *)
(* stream because no number occurs twice).                                   *)
Ordered == InOrder /\ Account

(* The invariant is preserved by every kind of step.                         *)
LEMMA OrderedInductive ==
  ASSUME TypeOK, Ordered, EventStep
  PROVE  Ordered'
<1> USE PipelineAssumption
<1>0. /\ events \in Seq(Event) /\ batch \in Seq(Event) /\ pending \in Seq(Event)
      /\ nextEv \in Nat \ {0}
      /\ Ids(events) \subseteq Int /\ Ids(batch) \subseteq Int
      /\ Ids(pending) \subseteq Int
  <2>1. /\ Ids(events) \subseteq 1..MaxEvents
        /\ Ids(batch) \subseteq 1..MaxEvents
        /\ Ids(pending) \subseteq 1..MaxEvents
    BY IdsType DEF TypeOK
  <2> QED BY <2>1 DEF TypeOK
<1>1. CASE AcceptStep
  <2> PICK type \in EventTypes :
         pending' = Append(pending, [id |-> nextEv, type |-> type])
    BY <1>1 DEF AcceptStep
  <2> DEFINE e == [id |-> nextEv, type |-> type]
  <2>0. /\ e \in Event /\ e.id = nextEv /\ nextEv' = nextEv + 1
        /\ pending' = Append(pending, e)
    BY <1>0, <1>1 DEF AcceptStep, Event
  <2> HIDE DEF e
  <2>1. <<e>> \in Seq(Event) /\ pending' = pending \o <<e>>
    BY <1>0, <2>0
  <2>2. Ids(pending') = Ids(pending) \cup {nextEv}
    BY <1>0, <2>0, IdsAppend
  <2>3. Ids(<<e>>) = {nextEv}
    BY <2>0 DEF Ids
  <2>4. Less(Places, {nextEv})
    BY <1>0 DEF Ordered, Account, Less
  <2>4a. /\ Less(Ids(events), {nextEv}) /\ Less(Ids(batch), {nextEv})
         /\ Less(Ids(pending), {nextEv})
    BY <2>4, LessUnion DEF Places
  <2>4b. /\ Sorted(pending) /\ Sorted(<<e>>)
         /\ Less(Ids(pending), Ids(<<e>>))
    BY <2>3, <2>4a, SortedShort DEF Ordered, InOrder
  <2>5. Sorted(pending')
    BY <1>0, <2>1, <2>4b, SortedConcat, ZenonT(30)
  <2>5a. /\ Less(Ids(events), Ids(pending) \cup {nextEv})
         /\ Less(Ids(batch), Ids(pending) \cup {nextEv})
    BY <2>4a, LessUnion DEF Ordered, InOrder
  <2>6. InOrder'
    BY <1>1, <2>2, <2>5, <2>5a DEF Ordered, InOrder, AcceptStep
  <2>7. Places' = Places \cup {nextEv}
    BY <1>1, <2>2 DEF Places, AcceptStep
  <2>8. /\ 1..(nextEv' - 1) = 1..(nextEv - 1) \cup {nextEv}
        /\ nextEv \notin 1..(nextEv - 1)
    BY <1>0, <2>0
  <2>9. Account'
    BY <1>1, <2>7, <2>8 DEF Ordered, Account, AcceptStep
  <2> QED BY <2>6, <2>9 DEF Ordered
<1>2. CASE RefuseStep
  <2>1. Places' = Places /\ InOrder'
    BY <1>2 DEF RefuseStep, Places, Ordered, InOrder
  <2>2. /\ 1..(nextEv' - 1) = 1..(nextEv - 1) \cup {nextEv}
        /\ nextEv \notin 1..(nextEv - 1)
    BY <1>0, <1>2 DEF RefuseStep
  <2>3. Account'
    BY <1>2, <2>1, <2>2 DEF Ordered, Account, RefuseStep
  <2> QED BY <2>1, <2>3 DEF Ordered
<1>3. CASE DrainStep
  <2>1. Places' = Places
    BY <1>3, IdsEmpty DEF DrainStep, Places
  <2>2. InOrder'
    BY <1>3, IdsEmpty, LessEmpty, SortedShort DEF DrainStep, Ordered, InOrder
  <2>3. Account'
    BY <1>3, <2>1 DEF DrainStep, Ordered, Account
  <2> QED BY <2>2, <2>3 DEF Ordered
<1>4. CASE CommitStep
  <2>1. Ids(events') = Ids(events) \cup Ids(batch) /\ Ids(batch') = {}
    BY <1>0, <1>4, IdsConcat, IdsEmpty DEF CommitStep
  <2>2. Sorted(events')
    BY <1>0, <1>4, SortedConcat DEF CommitStep, Ordered, InOrder
  <2>3. InOrder'
    BY <1>4, <2>1, <2>2, LessEmpty, LessUnion, SortedShort, SMTT(30)
    DEF CommitStep, Ordered, InOrder
  <2>4. Account'
    BY <1>4, <2>1 DEF CommitStep, Ordered, Account, Places
  <2> QED BY <2>3, <2>4 DEF Ordered
<1>5. CASE FailStep
  <2>1. Ids(batch') = {} /\ Ids(batch) \cap (Ids(events) \cup Ids(pending)) = {}
    BY <1>0, <1>5, IdsEmpty, LessDisjoint DEF FailStep, Ordered, InOrder
  <2>2. InOrder'
    BY <1>5, <2>1, LessEmpty, SortedShort DEF FailStep, Ordered, InOrder
  <2>3. Account'
    BY <1>5, <2>1 DEF FailStep, Ordered, Account, Places
  <2> QED BY <2>2, <2>3 DEF Ordered
<1>6. ASSUME NEW k \in 0..Len(events), PruneStep(k) PROVE Ordered'
  <2> DEFINE old == SubSeq(events, 1, k)
             new == SubSeq(events, k + 1, Len(events))
  <2>1. old \in Seq(Event) /\ new \in Seq(Event) /\ events = old \o new
    BY <1>0, <1>6, Split
  <2>2. events' = new /\ pruned' = pruned \cup Ids(old)
    BY <1>6 DEF PruneStep
  <2> HIDE DEF old, new
  <2>3. /\ Sorted(new) /\ Less(Ids(old), Ids(new))
        /\ Ids(events) = Ids(old) \cup Ids(new)
    BY <2>1, SortedConcat, IdsConcat DEF Ordered, InOrder
  <2>4. Ids(old) \cap Ids(new) = {}
    BY <1>0, <2>3, LessDisjoint
  <2>5a. /\ Less(Ids(old) \cup Ids(new), Ids(batch))
         /\ Less(Ids(old) \cup Ids(new), Ids(pending))
    BY <2>3 DEF Ordered, InOrder
  <2>5b. Less(Ids(new), Ids(batch)) /\ Less(Ids(new), Ids(pending))
    BY <2>5a, LessUnion
  <2>5. InOrder'
    BY <1>6, <2>2, <2>3, <2>5b DEF PruneStep, Ordered, InOrder
  <2>6. Ids(old) \cap (Ids(batch) \cup Ids(pending)) = {}
    BY <1>0, <2>3, LessUnion, LessDisjoint DEF Ordered, InOrder
  <2>7. Account'
    BY <1>6, <2>2, <2>3, <2>4, <2>6 DEF PruneStep, Ordered, Account, Places
  <2> QED BY <2>5, <2>7 DEF Ordered
<1>7. CASE CrashStep
  <2>1. /\ Ids(batch') = {} /\ Ids(pending') = {}
        /\ Ids(events) \cap (Ids(batch) \cup Ids(pending)) = {}
    BY <1>0, <1>7, IdsEmpty, LessDisjoint DEF CrashStep, Ordered, InOrder
  <2>2. InOrder'
    BY <1>7, <2>1, LessEmpty, SortedShort DEF CrashStep, Ordered, InOrder
  <2>3. Account'
    BY <1>7, <2>1 DEF CrashStep, Ordered, Account, Places
  <2> QED BY <2>2, <2>3 DEF Ordered
<1>8. CASE StayStep
  BY <1>8 DEF StayStep, Ordered, InOrder, Account, Places
<1> QED
  BY <1>1, <1>2, <1>3, <1>4, <1>5, <1>6, <1>7, <1>8 DEF EventStep

(* The invariant behind the theorems on events.                              *)
EventInv == Phases /\ Ordered

(* It holds in every reachable state.                                        *)
LEMMA EventInvariant == Spec => []EventInv
<1>1. Init => EventInv
  <2> SUFFICES ASSUME Init PROVE EventInv
    OBVIOUS
  <2>1. Phases
    BY DEF Init, Phases
  <2>2. Ids(events) = {} /\ Ids(batch) = {} /\ Ids(pending) = {}
    BY IdsEmpty DEF Init
  <2>3. InOrder
    BY <2>2, SortedShort, LessEmpty DEF Init, InOrder
  <2>4. 1..(nextEv - 1) = {}
    BY DEF Init
  <2>5. Account
    BY <2>2, <2>4 DEF Init, Account, Places
  <2> QED BY <2>1, <2>3, <2>5 DEF EventInv, Ordered
<1>2. TypeOK /\ EventInv /\ [Next]_vars => EventInv'
  BY PhasesInductive, EventSteps, OrderedInductive DEF EventInv
<1> QED BY <1>1, <1>2, TypeCorrect, PTL DEF Spec

-----------------------------------------------------------------------------
(* From handler to table no event is duplicated or overtaken, for every      *)
(* queue capacity, beacon size and number of faults (EventQueue,             *)
(* flush_events, insert_events).                                             *)
THEOREM EventsInOrderOnce == Spec => []InOrderOnce
<1>1. TypeOK /\ EventInv => InOrderOnce
  BY StreamFacts DEF EventInv, Ordered, InOrderOnce, Sorted
<1> QED BY <1>1, TypeCorrect, EventInvariant, PTL

(* Every event logged is in exactly one place: on its way or in the table,   *)
(* refused by push, lost to a counted fault, or pruned (EventQueue::push,    *)
(* flush_events, prune_events).                                              *)
THEOREM EventsAccounted == Spec => []EventAccounting
<1>1. TypeOK /\ EventInv => EventAccounting
  BY StreamFacts DEF EventInv, Ordered, Account, EventAccounting
<1> QED BY <1>1, TypeCorrect, EventInvariant, PTL

(* Every kind of step is a step of WriteBehindLog or leaves what it sees     *)
(* unchanged.                                                                *)
LEMMA LogStep ==
  ASSUME TypeOK, EventStep
  PROVE  [Log!Next]_(Log!vars)
<1> USE PipelineAssumption
<1>0. /\ events \in Seq(Event) /\ batch \in Seq(Event) /\ pending \in Seq(Event)
      /\ batch \o pending \in Seq(Event)
      /\ nextEv \in Nat \ {0} /\ faults \in Nat
      /\ Len(batch) \in Nat /\ Len(pending) \in Nat /\ Len(events) \in Nat
      /\ Len(batch \o pending) = Len(batch) + Len(pending)
      /\ MaxPending \in Nat
  BY DEF TypeOK
<1>1. CASE AcceptStep
  <2> PICK type \in EventTypes :
         pending' = Append(pending, [id |-> nextEv, type |-> type])
    BY <1>1 DEF AcceptStep
  <2> DEFINE e == [id |-> nextEv, type |-> type]
  <2>1. e \in Event /\ pending' = Append(pending, e)
    BY <1>0, <1>1 DEF AcceptStep, Event
  <2> HIDE DEF e
  <2>2. <<e>> \in Seq(Event) /\ pending' = pending \o <<e>>
    BY <1>0, <2>1
  <2>3. (batch \o pending)' = Append(batch \o pending, e)
    <3>1. batch \o (pending \o <<e>>) = (batch \o pending) \o <<e>>
      BY <1>0, <2>2, ConcatAssociative, SMTT(30)
    <3>2. (batch \o pending) \o <<e>> = Append(batch \o pending, e)
      BY <1>0, <2>1, AppendIsConcat
    <3> QED BY <1>1, <2>2, <3>1, <3>2 DEF AcceptStep
  <2>4. Log!Accept(type)
    BY <1>1, <2>3 DEF Log!Accept, AcceptStep, e
  <2> QED BY <2>4 DEF Log!Next
<1>2. CASE RefuseStep
  <2>1. Log!Refuse
    BY <1>0, <1>2 DEF RefuseStep, Log!Refuse
  <2> QED BY <2>1 DEF Log!Next
<1>3. CASE DrainStep
  <2>1. batch \o pending = pending /\ (batch \o pending)' = pending
    BY <1>0, <1>3 DEF DrainStep
  <2> QED BY <1>3, <2>1 DEF DrainStep, Log!vars
<1>4. CASE CommitStep
  <2>1. (batch \o pending)' = pending
    BY <1>0, <1>4 DEF CommitStep
  <2>2. CASE batch = <<>>
    <3>1. events' = events /\ batch \o pending = pending
      BY <1>0, <1>4, <2>2 DEF CommitStep
    <3> QED BY <1>4, <2>1, <3>1 DEF CommitStep, Log!vars
  <2>3. CASE batch # <<>>
    <3>1. Len(batch) \in 1..Len(batch \o pending)
      BY <1>0, <2>3
    <3>2. Log!Commit(Len(batch))
      BY <1>0, <1>4, <2>1, CutConcat DEF CommitStep, Log!Commit, Log!From
    <3> QED BY <3>1, <3>2 DEF Log!Next
  <2> QED BY <2>2, <2>3
<1>5. CASE FailStep
  <2>1. (batch \o pending)' = pending
    BY <1>0, <1>5 DEF FailStep
  <2>2. Log!Lose(Len(batch))
    BY <1>0, <1>5, <2>1, CutConcat DEF FailStep, Log!Lose, Log!From
  <2>3. Len(batch) \in 0..Len(batch \o pending)
    BY <1>0
  <2> QED BY <2>2, <2>3 DEF Log!Next
<1>6. ASSUME NEW k \in 0..Len(events), PruneStep(k) PROVE [Log!Next]_(Log!vars)
  <2>1. CASE k = 0
    <3>1. events' = SubSeq(events, 1, Len(events))
      BY <1>6, <2>1 DEF PruneStep
    <3>2. events' = events
      BY <1>0, <3>1, SubSeqFull
    <3> QED BY <1>6, <3>2 DEF PruneStep, Log!vars
  <2>2. CASE k # 0
    <3>1. k \in 1..Len(events) /\ Log!Expire(k)
      BY <1>0, <1>6, <2>2 DEF PruneStep, Log!Expire, Log!From
    <3> QED BY <3>1 DEF Log!Next
  <2> QED BY <2>1, <2>2
<1>7. CASE CrashStep
  <2> DEFINE n == Len(batch \o pending)
  <2>1. (batch \o pending)' = <<>> /\ n \in Nat
    BY <1>0, <1>7 DEF CrashStep
  <2>2. SubSeq(batch \o pending, n + 1, n) = <<>>
    <3> HIDE DEF n
    <3> QED BY <2>1, SubSeqEmpty
  <2>3. Log!Lose(n)
    BY <1>7, <2>1, <2>2 DEF CrashStep, Log!Lose, Log!From
  <2> QED BY <2>1, <2>3 DEF Log!Next
<1>8. CASE StayStep
  <2>1. CASE faults' = faults
    BY <1>8, <2>1 DEF StayStep, Log!vars
  <2>2. CASE faults' = faults + 1
    <3>1. SubSeq(batch \o pending, 1, Len(batch \o pending)) = batch \o pending
      BY <1>0, SubSeqFull
    <3>2. Log!Lose(0)
      BY <1>8, <2>2, <3>1 DEF StayStep, Log!Lose, Log!From
    <3>3. 0 \in 0..Len(batch \o pending)
      BY <1>0
    <3> QED BY <3>2, <3>3 DEF Log!Next
  <2> QED BY <1>8, <2>1, <2>2 DEF StayStep
<1> QED
  BY <1>1, <1>2, <1>3, <1>4, <1>5, <1>6, <1>7, <1>8 DEF EventStep

(* The three threads implement the write-behind log.                         *)
THEOREM LogImplemented == Spec => ImplementsLog
<1>1. Init => Log!Init
  BY DEF Init, Log!Init
<1>2. TypeOK /\ EventInv /\ [Next]_vars => [Log!Next]_(Log!vars)
  BY EventSteps, LogStep DEF EventInv
<1> QED BY <1>1, <1>2, TypeCorrect, EventInvariant, PTL
        DEF Spec, ImplementsLog, Log!Spec

-----------------------------------------------------------------------------
(* The postbacks and the table conversions.  The events enter only through *)
(* the kinds of step above.                                                *)

(* Every click token is the number of an outbound event.                     *)
LEMMA TokensAreIds == \A s : Tokens(s) \subseteq Ids(s)
BY DEF Tokens, Ids

(* Tokens record_conversion would find, or whose event is gone for a         *)
(* reason.                                                                   *)
Known    == Tokens(events) \cup pruned \cup lost

(* The same once the batch at hand is committed or lost.                     *)
Coming   == Known \cup Tokens(batch)

(* The same when flush_conversions next drains its queue: between the two    *)
(* drains of a round what is still queued comes too late.                    *)
Expected == IF dpc \in {"insert_ev", "drain_cv"} THEN Coming
            ELSE Coming \cup Tokens(pending)

(* No step takes a token out of these sets: a token leaves the table only    *)
(* into pruned, a batch only into the table or into lost.                    *)
LEMMA TokensGrow ==
  ASSUME TypeOK, EventStep
  PROVE  /\ pruned \cup lost \subseteq pruned' \cup lost'
         /\ Tokens(events) \cup pruned \subseteq Tokens(events') \cup pruned'
         /\ Known \subseteq Known' /\ Coming \subseteq Coming'
         /\ Coming \cup Tokens(pending) \subseteq Coming' \cup Tokens(pending')
<1>0. /\ events \in Seq(Event) /\ batch \in Seq(Event) /\ pending \in Seq(Event)
      /\ nextEv \in Nat \ {0}
  BY DEF TypeOK
<1>1. CASE AcceptStep
  <2>1. PICK type \in EventTypes :
          pending' = Append(pending, [id |-> nextEv, type |-> type])
    BY <1>1 DEF AcceptStep
  <2>2. [id |-> nextEv, type |-> type] \in Event
    BY <1>0, <1>1 DEF AcceptStep, Event
  <2>3. Tokens(pending) \subseteq Tokens(pending')
    BY <1>0, <2>1, <2>2, IdsAppend
  <2> QED BY <1>1, <2>3 DEF AcceptStep, Known, Coming
<1>2. CASE RefuseStep
  BY <1>2 DEF RefuseStep, Known, Coming
<1>3. CASE DrainStep
  BY <1>3, IdsEmpty DEF DrainStep, Known, Coming
<1>4. CASE CommitStep
  <2>1. Tokens(events') = Tokens(events) \cup Tokens(batch)
    BY <1>0, <1>4, IdsConcat DEF CommitStep
  <2> QED BY <1>4, <2>1 DEF CommitStep, Known, Coming
<1>5. CASE FailStep
  BY <1>5, TokensAreIds DEF FailStep, Known, Coming
<1>6. ASSUME NEW k \in 0..Len(events), PruneStep(k)
      PROVE  Tokens(events) \cup pruned \subseteq Tokens(events') \cup pruned'
  <2> DEFINE old == SubSeq(events, 1, k)
             new == SubSeq(events, k + 1, Len(events))
  <2>1. old \in Seq(Event) /\ new \in Seq(Event) /\ events = old \o new
    BY <1>0, <1>6, Split
  <2>2. events' = new /\ pruned' = pruned \cup Ids(old)
    BY <1>6 DEF PruneStep
  <2> HIDE DEF old, new
  <2>3. Tokens(events) = Tokens(old) \cup Tokens(new)
    BY <2>1, IdsConcat
  <2> QED BY <2>2, <2>3, TokensAreIds
<1>7. CASE \E k \in 0..Len(events) : PruneStep(k)
  BY <1>6, <1>7 DEF PruneStep, Known, Coming
<1>8. CASE CrashStep
  BY <1>8, TokensAreIds DEF CrashStep, Known, Coming
<1>9. CASE StayStep
  BY <1>9 DEF StayStep, Known, Coming
<1> QED
  BY <1>1, <1>2, <1>3, <1>4, <1>5, <1>7, <1>8, <1>9 DEF EventStep

-----------------------------------------------------------------------------
(* What a step does to postbacks: handle_postback queued one ...             *)
ArriveStep ==
  /\ \E c \in Postback :
       /\ c.ts = nextPb
       /\ c.inTime => c.token \in Tokens(events \o batch) \cup Expected
       /\ convq' = Append(convq, c)
  /\ nextPb' = nextPb + 1
  /\ UNCHANGED <<dpc, events, batch, pending, pruned, lost, cbatch,
                 conversions, warned>>

(* ... flush_conversions or the process died with what it held,              *)
DiscardStep ==
  /\ cbatch' = <<>> /\ convq' \in {convq, <<>>}
  /\ UNCHANGED <<conversions, warned, nextPb>>

(* or nothing happened to them.                                              *)
IdleStep == UNCHANGED <<convq, cbatch, conversions, warned, nextPb>>

(* A step of the program as far as postbacks are concerned.                  *)
ConversionStep ==
  ArriveStep \/ DrainConversions \/ RecordConversion \/ DiscardStep \/ IdleStep

(* handle_postback is an ArriveStep.                                         *)
LEMMA PostbackArrives ==
  ASSUME TypeOK, NEW token \in issued \cup {Unissued},
         NEW order \in Orders \cup {NoOrder}, NEW status,
         HandlePostback(token, order, status)
  PROVE  ArriveStep
<1> DEFINE c == [ts |-> nextPb, token |-> token, order |-> order,
                 status |-> status, inTime |-> InTime(token)]
<1>1. InTime(token) \in BOOLEAN
  BY DEF InTime
<1>2. c \in Postback
  BY <1>1, PipelineAssumption
  DEF TypeOK, HandlePostback, StatusOK, Postback, Unissued
<1>3. c.ts = nextPb /\ c.token = token /\ c.inTime = InTime(token)
  OBVIOUS
<1>4. c.inTime => c.token \in Tokens(events \o batch) \cup Expected
  BY <1>3 DEF InTime, Expected
<1>5. convq' = Append(convq, c)
  BY DEF HandlePostback, PushConversion
<1> HIDE DEF c
<1> QED BY <1>2, <1>3, <1>4, <1>5 DEF HandlePostback, ArriveStep, dbVars

(* Every step of the three threads is one of these.                          *)
LEMMA ConversionSteps == TypeOK /\ [Next]_vars => ConversionStep
<1> SUFFICES ASSUME TypeOK, [Next]_vars PROVE ConversionStep
  OBVIOUS
<1>1. CASE \/ HandleItem \/ PushImpression
           \/ \E usable \in BOOLEAN : HandleRedirect(usable)
  BY <1>1
  DEF HandleItem, PushImpression, HandleRedirect, dbVars, ConversionStep,
      IdleStep
<1>2. CASE \E n \in 1..MaxBeacon : HandleBeacon(n)
  BY <1>2 DEF HandleBeacon, dbVars, ConversionStep, IdleStep
<1>3. CASE \E token \in issued \cup {Unissued}, order \in Orders \cup {NoOrder},
              status \in StatusInputs : HandlePostback(token, order, status)
  BY <1>3, PostbackArrives DEF ConversionStep
<1>4. CASE \/ DbTop \/ ConversionsDone \/ DrainEvents
           \/ InsertEvents \/ InsertEventsFail
  BY <1>4 DEF DbTop, ConversionsDone, DrainEvents, InsertEvents,
              InsertEventsFail, dbLocals, httpVars, ConversionStep, IdleStep
<1>5. CASE DrainConversions \/ RecordConversion
  BY <1>5 DEF ConversionStep
<1>6. CASE RecordConversionFail
  BY <1>6
  DEF RecordConversionFail, dbLocals, httpVars, ConversionStep, DiscardStep
<1>7. CASE \E k \in 0..Len(events) : Maintenance(k)
  BY <1>7 DEF Maintenance, dbLocals, httpVars, ConversionStep, IdleStep
<1>8. CASE StopHttp \/ StopDb \/ Exit
  BY <1>8
  DEF StopHttp, StopDb, Exit, mainFrame, httpVars, dbVars, ConversionStep,
      IdleStep
<1>9. CASE Restart \/ Crash
  BY <1>9 DEF Restart, Crash, FreshProcess, ConversionStep, DiscardStep
<1>10. CASE UNCHANGED vars
  BY <1>10 DEF vars, httpVars, dbVars, ConversionStep, IdleStep
<1> QED
  BY <1>1, <1>2, <1>3, <1>4, <1>5, <1>6, <1>7, <1>8, <1>9, <1>10
  DEF Next, Http, DbThread

(* The window between a round's two drains opens with an empty queue.        *)
LEMMA WindowOpens ==
  TypeOK /\ [Next]_vars =>
    (dpc' \in {"insert_ev", "drain_cv"} =>
       dpc \in {"insert_ev", "drain_cv"} \/ pending' = <<>>)
<1> SUFFICES ASSUME TypeOK, [Next]_vars, dpc' \in {"insert_ev", "drain_cv"}
             PROVE  dpc \in {"insert_ev", "drain_cv"} \/ pending' = <<>>
  OBVIOUS
<1>1. CASE Http
  BY <1>1 DEF Http, HandleItem, PushImpression, HandleRedirect, HandleBeacon,
              HandlePostback, dbVars
<1>2. CASE \/ DbTop \/ ConversionsDone \/ DrainEvents
           \/ InsertEvents \/ InsertEventsFail
  BY <1>2
  DEF DbTop, ConversionsDone, DrainEvents, InsertEvents, InsertEventsFail,
      Round
<1>3. CASE DrainConversions \/ RecordConversion \/ RecordConversionFail
           \/ \E k \in 0..Len(events) : Maintenance(k)
  BY <1>3
  DEF DrainConversions, RecordConversion, RecordConversionFail, Maintenance
<1>4. CASE StopHttp \/ StopDb \/ Exit \/ UNCHANGED vars
  BY <1>4 DEF StopHttp, StopDb, Exit, mainFrame, vars, dbVars
<1>5. CASE Restart \/ Crash
  BY <1>5 DEF Restart, Crash, FreshProcess
<1> QED
  BY <1>1, <1>2, <1>3, <1>4, <1>5 DEF Next, DbThread

(* Expected never shrinks, not even when that window opens.                  *)
LEMMA ExpectedGrows ==
  TypeOK /\ Phases /\ [Next]_vars => Expected \subseteq Expected'
<1> SUFFICES ASSUME TypeOK, Phases, [Next]_vars
             PROVE  Expected \subseteq Expected'
  OBVIOUS
<1>1. /\ Coming \subseteq Coming'
      /\ Coming \cup Tokens(pending) \subseteq Coming' \cup Tokens(pending')
  BY EventSteps, TokensGrow
<1>2. dpc' \in {"insert_ev", "drain_cv"} =>
        dpc \in {"insert_ev", "drain_cv"} \/ Tokens(pending') = {}
  BY WindowOpens, IdsEmpty
<1> QED BY <1>1, <1>2 DEF Expected

(* InTimePostbackMatches, carried back through the batch and the queue a     *)
(* postback passes.                                                          *)
InTimeInv ==
  /\ InTimePostbackMatches
  /\ \A i \in DOMAIN cbatch : cbatch[i].inTime => cbatch[i].token \in Known
  /\ \A i \in DOMAIN convq : convq[i].inTime => convq[i].token \in Expected

(* The invariant is preserved by every step: it is the order of the two      *)
(* flushes in a round that turns Expected into Known.                        *)
LEMMA InTimeInductive ==
  TypeOK /\ Phases /\ InTimeInv /\ [Next]_vars => InTimeInv'
<1> SUFFICES ASSUME TypeOK, Phases, InTimeInv, [Next]_vars PROVE InTimeInv'
  OBVIOUS
<1>1. /\ pruned \cup lost \subseteq pruned' \cup lost'
      /\ Known \subseteq Known' /\ Expected \subseteq Expected'
  BY EventSteps, TokensGrow, ExpectedGrows
<1>2. ConversionStep
  BY ConversionSteps
<1>3. CASE ArriveStep
  <2>1. PICK c \in Postback :
          /\ c.inTime => c.token \in Tokens(events \o batch) \cup Expected
          /\ convq' = Append(convq, c)
    BY <1>3 DEF ArriveStep
  <2>2. Tokens(events \o batch) \subseteq Expected
    BY IdsConcat DEF TypeOK, Expected, Coming, Known
  <2>3. c.inTime => c.token \in Expected'
    BY <1>1, <2>1, <2>2
  <2>4. \A i \in DOMAIN convq' :
          convq'[i] = c \/ (i \in DOMAIN convq /\ convq'[i] = convq[i])
    BY <2>1, SMTT(30) DEF TypeOK
  <2>5. \A i \in DOMAIN convq' :
          convq'[i].inTime => convq'[i].token \in Expected'
    BY <1>1, <2>3, <2>4 DEF InTimeInv
  <2>6. InTimePostbackMatches' /\ cbatch' = cbatch
    BY <1>1, <1>3 DEF ArriveStep, InTimeInv, InTimePostbackMatches
  <2> QED BY <1>1, <2>5, <2>6 DEF InTimeInv
<1>4. CASE DrainConversions
  <2>1. batch = <<>> /\ Tokens(batch) = {} /\ Expected = Known
    BY <1>4, IdsEmpty DEF Phases, DrainConversions, Expected, Coming
  <2>2. /\ cbatch' = convq /\ convq' = <<>> /\ warned' = warned
    BY <1>4 DEF DrainConversions
  <2> QED BY <1>1, <2>1, <2>2 DEF InTimeInv, InTimePostbackMatches
<1>5. CASE RecordConversion
  <2> DEFINE c == Head(cbatch)
  <2>1. /\ c = cbatch[1] /\ 1 \in DOMAIN cbatch
        /\ cbatch' = Tail(cbatch) /\ convq' = convq
        /\ \A i \in DOMAIN cbatch' :
             i + 1 \in DOMAIN cbatch /\ cbatch'[i] = cbatch[i + 1]
    BY <1>5 DEF RecordConversion, TypeOK, dbLocals
  <2> HIDE DEF c
  <2>2. /\ events' = events
        /\ \/ warned' = warned
           \/ warned' = warned \cup {c} /\ c.token \notin Tokens(events)
    BY <1>5 DEF RecordConversion, c
  <2>3. InTimePostbackMatches'
    BY <1>1, <2>1, <2>2 DEF InTimeInv, InTimePostbackMatches, Known
  <2> QED BY <1>1, <2>1, <2>3 DEF InTimeInv
<1>6. CASE DiscardStep
  BY <1>1, <1>6 DEF DiscardStep, InTimeInv, InTimePostbackMatches
<1>7. CASE IdleStep
  BY <1>1, <1>7 DEF IdleStep, InTimeInv, InTimePostbackMatches
<1> QED BY <1>2, <1>3, <1>4, <1>5, <1>6, <1>7 DEF ConversionStep

-----------------------------------------------------------------------------
(* Only record_conversion writes the table conversions.                      *)
LEMMA RowsChange ==
  TypeOK /\ [Next]_vars => RecordConversion \/ conversions' = conversions
BY ConversionSteps
DEF ConversionStep, ArriveStep, DrainConversions, DiscardStep, IdleStep

(* What the upsert of record_conversion does to the rows: other orders'      *)
(* rows stay, a row of the same order keeps its click and takes the new      *)
(* time and status.                                                          *)
LEMMA UpsertRows ==
  ASSUME NEW c \in Postback, conversions \subseteq Row
  PROVE  /\ \A s \in Upsert(c) :
              \/ s \in conversions /\ (c.order # NoOrder => s.order # c.order)
              \/ /\ s.order = c.order /\ s.ts = c.ts /\ s.status = c.status
                 /\ \/ /\ s.token = c.token
                       /\ \/ c.order = NoOrder
                          \/ \A r \in conversions : r.order # c.order
                    \/ /\ c.order # NoOrder
                       /\ \E r \in conversions :
                            r.order = c.order /\ s.token = r.token
         /\ \A r \in conversions :
              \/ r \in Upsert(c)
              \/ /\ r.order = c.order /\ c.order # NoOrder
                 /\ \E s \in Upsert(c) :
                      s.order = r.order /\ s.token = r.token /\ s.ts = c.ts
<1> DEFINE same == {r \in conversions : c.order # NoOrder /\ r.order = c.order}
           row  == [ts |-> c.ts, token |-> c.token, order |-> c.order,
                    status |-> c.status]
           Over(r) == [r EXCEPT !.ts = c.ts, !.status = c.status]
<1>1. /\ row.ts = c.ts /\ row.token = c.token
      /\ row.order = c.order /\ row.status = c.status
  OBVIOUS
<1>2. \A r \in same : /\ Over(r).ts = c.ts /\ Over(r).status = c.status
                      /\ Over(r).token = r.token /\ Over(r).order = r.order
  <2> TAKE r \in same
  <2>1. r \in Row
    OBVIOUS
  <2> QED BY <2>1 DEF Row
<1>3. Upsert(c) = IF same = {} THEN conversions \cup {row}
                  ELSE (conversions \ same) \cup {Over(r) : r \in same}
  BY DEF Upsert
<1>4. \A r \in conversions :
        r \in same <=> c.order # NoOrder /\ r.order = c.order
  OBVIOUS
<1>5. \A r \in same : r \in conversions
  OBVIOUS
<1> HIDE DEF same, row, Over
<1> QED
  <2>1. CASE same = {}
    BY <1>1, <1>3, <1>4, <2>1
  <2>2. CASE same # {}
    BY <1>2, <1>3, <1>4, <1>5, <2>2
  <2> QED BY <2>1, <2>2

(* The two invariants of the table conversions.                              *)
RowInv == ConversionsHaveClicks /\ OneRowPerOrder

(* They are preserved by every step (record_conversion's check of the        *)
(* token and its conflict clause; prune_events moves a click to pruned).     *)
LEMMA RowInductive ==
  TypeOK /\ Phases /\ RowInv /\ [Next]_vars => RowInv'
<1> SUFFICES ASSUME TypeOK, Phases, RowInv, [Next]_vars PROVE RowInv'
  OBVIOUS
<1>1. Tokens(events) \cup pruned \subseteq Tokens(events') \cup pruned'
  BY EventSteps, TokensGrow
<1>2. CASE conversions' = conversions
  BY <1>1, <1>2 DEF RowInv, ConversionsHaveClicks, OneRowPerOrder
<1>3. CASE RecordConversion /\ conversions' # conversions
  <2> DEFINE c == Head(cbatch)
  <2>1. c \in Postback /\ conversions \subseteq Row
    BY <1>3 DEF RecordConversion, TypeOK
  <2>2. c.token \in Tokens(events) /\ conversions' = Upsert(c)
    BY <1>3 DEF RecordConversion
  <2> HIDE DEF c
  <2>3. ConversionsHaveClicks'
    BY <1>1, <2>1, <2>2, UpsertRows DEF RowInv, ConversionsHaveClicks
  <2>4. Upsert(c) \subseteq Row
    BY <2>1, UpsertType
  <2>5. \A r, s \in Row : r.ts = s.ts /\ r.token = s.token /\ r.order = s.order
                           /\ r.status = s.status => r = s
    BY DEF Row
  <2>6. \A r, s \in Upsert(c) : r.order = s.order /\ r.order # NoOrder => r = s
    <3> SUFFICES ASSUME NEW r \in Upsert(c), NEW s \in Upsert(c),
                        r.order = s.order, r.order # NoOrder
                 PROVE  r = s
      OBVIOUS
    <3>1. CASE r.order # c.order
      BY <2>1, <3>1, UpsertRows DEF RowInv, OneRowPerOrder
    <3>2. CASE r.order = c.order
      <4>1. /\ r.ts = c.ts /\ s.ts = c.ts
            /\ r.status = c.status /\ s.status = c.status
        BY <2>1, <3>2, UpsertRows, ZenonT(30)
      <4>2. r.token = s.token
        <5>1. CASE \A q \in conversions : q.order # c.order
          <6>1. \A u \in Upsert(c) : u.order = c.order => u.token = c.token
            BY <2>1, <5>1, UpsertRows
          <6> QED BY <3>2, <6>1
        <5>2. ASSUME NEW q \in conversions, q.order = c.order
              PROVE  r.token = s.token
          <6>1. \A u \in Upsert(c) :
                  u.order = c.order =>
                    \E p \in conversions : p.order = c.order /\ u.token = p.token
            BY <2>1, <3>2, <5>2, UpsertRows
          <6>2. \A p \in conversions : p.order = c.order => p = q
            BY <3>2, <5>2 DEF RowInv, OneRowPerOrder
          <6> QED BY <3>2, <6>1, <6>2
        <5> QED BY <5>1, <5>2
      <4> QED BY <2>4, <2>5, <3>2, <4>1, <4>2
    <3> QED BY <3>1, <3>2
  <2>7. OneRowPerOrder'
    BY <2>2, <2>6 DEF OneRowPerOrder
  <2> QED BY <2>3, <2>7 DEF RowInv
<1> QED BY <1>2, <1>3, RowsChange

-----------------------------------------------------------------------------
(* Arrival times in a queue or batch,                                        *)
Ts(s)       == {s[i].ts : i \in DOMAIN s}

(* strictly increasing along it,                                             *)
TsSorted(s) == \A i, j \in DOMAIN s : i < j => s[i].ts < s[j].ts

(* and in the table.                                                         *)
RowTs       == {r.ts : r \in conversions}

(* Postbacks move from queue to batch to table in the order they arrived.    *)
TsInv ==
  /\ TsSorted(cbatch) /\ TsSorted(convq)
  /\ Less(Ts(cbatch), Ts(convq))
  /\ Less(RowTs, Ts(cbatch)) /\ Less(RowTs, Ts(convq))
  /\ \A t \in Ts(cbatch) \cup Ts(convq) \cup RowTs : t < nextPb

(* An empty queue holds no times and is in order.                            *)
LEMMA TsEmpty == Ts(<<>>) = {} /\ TsSorted(<<>>)
BY DEF Ts, TsSorted

(* ConversionQueue::push keeps a queue in order.                             *)
LEMMA TsAppend ==
  ASSUME NEW s \in Seq(Postback), NEW c \in Postback
  PROVE  /\ Ts(Append(s, c)) = Ts(s) \cup {c.ts}
         /\ TsSorted(s) /\ (\A t \in Ts(s) : t < c.ts) => TsSorted(Append(s, c))
<1> DEFINE u == Append(s, c)
<1>1. /\ DOMAIN s = 1..Len(s) /\ DOMAIN u = 1..(Len(s) + 1) /\ Len(s) \in Nat
      /\ \A i \in DOMAIN s : u[i] = s[i]
      /\ u[Len(s) + 1] = c
  OBVIOUS
<1> HIDE DEF u
<1>2. /\ \A i \in DOMAIN u : i \in DOMAIN s \/ i = Len(s) + 1
      /\ \A i \in DOMAIN s : i \in DOMAIN u
      /\ Len(s) + 1 \in DOMAIN u
      /\ \A i, j \in DOMAIN u : i < j => i \in DOMAIN s
  BY <1>1
<1>3. Ts(u) = Ts(s) \cup {c.ts}
  <2>1. ASSUME NEW t \in Ts(u) PROVE t \in Ts(s) \cup {c.ts}
    BY <1>1, <1>2 DEF Ts
  <2>2. ASSUME NEW t \in Ts(s) \cup {c.ts} PROVE t \in Ts(u)
    BY <1>1, <1>2 DEF Ts
  <2> QED BY <2>1, <2>2
<1>4. ASSUME TsSorted(s), \A t \in Ts(s) : t < c.ts PROVE TsSorted(u)
  <2> SUFFICES ASSUME NEW i \in DOMAIN u, NEW j \in DOMAIN u, i < j
               PROVE  u[i].ts < u[j].ts
    BY DEF TsSorted
  <2>1. i \in DOMAIN s /\ u[i] = s[i] /\ s[i].ts \in Ts(s)
    BY <1>1, <1>2 DEF Ts
  <2>2. CASE j \in DOMAIN s
    BY <1>1, <1>4, <2>1, <2>2 DEF TsSorted
  <2>3. CASE j = Len(s) + 1
    BY <1>1, <1>4, <2>1, <2>3
  <2> QED BY <1>2, <2>2, <2>3
<1> QED BY <1>3, <1>4 DEF u

(* flush_conversions takes the oldest first.                                 *)
LEMMA TsTail ==
  ASSUME NEW s \in Seq(Postback), s # <<>>, TsSorted(s)
  PROVE  /\ Head(s).ts \in Ts(s) /\ Ts(Tail(s)) \subseteq Ts(s)
         /\ TsSorted(Tail(s))
         /\ Less({Head(s).ts}, Ts(Tail(s)))
<1>1. /\ DOMAIN s = 1..Len(s) /\ Len(s) \in Nat
      /\ 1 \in DOMAIN s /\ Head(s) = s[1]
      /\ DOMAIN Tail(s) = 1..(Len(s) - 1)
      /\ \A i \in DOMAIN Tail(s) : Tail(s)[i] = s[i + 1]
  OBVIOUS
<1>2. \A i \in DOMAIN Tail(s) : i + 1 \in DOMAIN s /\ 1 < i + 1
  BY <1>1
<1>3. \A i, j \in DOMAIN Tail(s) : i < j => i + 1 < j + 1
  BY <1>1
<1>4. Ts(Tail(s)) \subseteq Ts(s) /\ Head(s).ts \in Ts(s)
  BY <1>1, <1>2 DEF Ts
<1>5. TsSorted(Tail(s))
  BY <1>1, <1>2, <1>3 DEF TsSorted
<1>6. Less({Head(s).ts}, Ts(Tail(s)))
  BY <1>1, <1>2 DEF TsSorted, Less, Ts
<1> QED BY <1>4, <1>5, <1>6

(* TsInv is preserved by every step.                                         *)
LEMMA TsInductive ==
  TypeOK /\ Phases /\ TsInv /\ [Next]_vars => TsInv'
<1> SUFFICES ASSUME TypeOK, Phases, TsInv, [Next]_vars PROVE TsInv'
  OBVIOUS
<1>1. ConversionStep
  BY ConversionSteps
<1>2. /\ nextPb \in Nat /\ convq \in Seq(Postback) /\ cbatch \in Seq(Postback)
      /\ conversions \subseteq Row
  BY PipelineAssumption DEF TypeOK
<1>2a. \A r \in conversions : r.ts \in Nat
  <2>1. \A r \in Row : r.ts \in Nat
    BY DEF Row
  <2> QED BY <1>2, <2>1
<1>2b. \A s \in Seq(Postback) : Ts(s) \subseteq Nat
  <2> TAKE s \in Seq(Postback)
  <2>1. \A i \in DOMAIN s : s[i] \in Postback
    OBVIOUS
  <2>2. \A c \in Postback : c.ts \in Nat
    BY DEF Postback
  <2> QED BY <2>1, <2>2 DEF Ts
<1>2c. \A t \in Ts(cbatch) \cup Ts(convq) \cup RowTs : t \in Nat
  BY <1>2, <1>2a, <1>2b DEF RowTs
<1>3. CASE ArriveStep
  <2>1. PICK c \in Postback : c.ts = nextPb /\ convq' = Append(convq, c)
    BY <1>3 DEF ArriveStep
  <2>2. cbatch' = cbatch /\ RowTs' = RowTs /\ nextPb' = nextPb + 1
    BY <1>3 DEF ArriveStep, RowTs
  <2>3. \A t \in Ts(convq) : t < c.ts
    BY <2>1 DEF TsInv
  <2>4. Ts(convq') = Ts(convq) \cup {nextPb} /\ TsSorted(convq')
    BY <1>2, <2>1, <2>3, TsAppend DEF TsInv
  <2>5. Less(Ts(cbatch), {nextPb}) /\ Less(RowTs, {nextPb})
    BY DEF TsInv, Less
  <2>6. Less(Ts(cbatch), Ts(convq')) /\ Less(RowTs, Ts(convq'))
    BY <2>4, <2>5, LessUnion DEF TsInv
  <2>7. \A t \in Ts(cbatch) \cup Ts(convq') \cup RowTs : t < nextPb + 1
    BY <1>2, <1>2c, <2>4 DEF TsInv
  <2> QED BY <2>2, <2>4, <2>6, <2>7 DEF TsInv
<1>4. CASE DrainConversions
  <2>1. /\ cbatch' = convq /\ convq' = <<>>
        /\ RowTs' = RowTs /\ nextPb' = nextPb
    BY <1>4 DEF DrainConversions, httpVars, RowTs
  <2> QED BY <2>1, TsEmpty, LessEmpty DEF TsInv
<1>5. CASE RecordConversion
  <2> DEFINE c == Head(cbatch)
  <2>1. /\ cbatch # <<>> /\ cbatch' = Tail(cbatch)
        /\ convq' = convq /\ nextPb' = nextPb /\ c \in Postback
    BY <1>2, <1>5 DEF RecordConversion, dbLocals, httpVars
  <2>2. conversions' \in {conversions, Upsert(c)}
    BY <1>5 DEF RecordConversion
  <2>3. /\ c.ts \in Ts(cbatch) /\ Ts(cbatch') \subseteq Ts(cbatch)
        /\ TsSorted(cbatch') /\ Less({c.ts}, Ts(cbatch'))
    BY <1>2, <2>1, TsTail DEF TsInv
  <2> HIDE DEF c
  <2>4. RowTs' \subseteq RowTs \cup {c.ts}
    BY <1>2, <2>1, <2>2, UpsertRows DEF RowTs
  <2>5. Less({c.ts}, Ts(convq)) /\ c.ts < nextPb
    BY <2>3 DEF TsInv, Less
  <2>6. Less(RowTs, Ts(cbatch'))
    BY <2>3 DEF TsInv, Less
  <2>7. Less(RowTs', Ts(cbatch')) /\ Less(RowTs', Ts(convq))
    BY <2>3, <2>4, <2>5, <2>6 DEF TsInv, Less
  <2>8. Less(Ts(cbatch'), Ts(convq))
    BY <2>3 DEF TsInv, Less
  <2>9. \A t \in Ts(cbatch') \cup Ts(convq) \cup RowTs' : t < nextPb
    BY <2>3, <2>4, <2>5 DEF TsInv
  <2> QED BY <2>1, <2>3, <2>7, <2>8, <2>9 DEF TsInv
<1>6. CASE DiscardStep
  <2>1. /\ cbatch' = <<>> /\ convq' \in {convq, <<>>}
        /\ RowTs' = RowTs /\ nextPb' = nextPb
    BY <1>6 DEF DiscardStep, RowTs
  <2> QED BY <2>1, TsEmpty, LessEmpty DEF TsInv
<1>7. CASE IdleStep
  BY <1>7 DEF IdleStep, TsInv, RowTs
<1> QED BY <1>1, <1>3, <1>4, <1>5, <1>6, <1>7 DEF ConversionStep

-----------------------------------------------------------------------------
(* The invariant behind the theorems on conversions.                         *)
ConversionInv == Phases /\ InTimeInv /\ RowInv /\ TsInv

(* It holds in every reachable state.                                        *)
LEMMA ConversionInvariant == Spec => []ConversionInv
<1>1. Init => ConversionInv
  <2> SUFFICES ASSUME Init PROVE ConversionInv
    OBVIOUS
  <2>1. Phases
    BY DEF Init, Phases
  <2>2. InTimeInv
    BY DEF Init, InTimeInv, InTimePostbackMatches
  <2>3. RowInv
    BY DEF Init, RowInv, ConversionsHaveClicks, OneRowPerOrder
  <2>4. Ts(cbatch) = {} /\ Ts(convq) = {} /\ RowTs = {}
    BY TsEmpty DEF Init, RowTs
  <2>5. TsInv
    BY <2>4, TsEmpty, LessEmpty DEF Init, TsInv
  <2> QED BY <2>1, <2>2, <2>3, <2>5 DEF ConversionInv
<1>2. TypeOK /\ ConversionInv /\ [Next]_vars => ConversionInv'
  BY PhasesInductive, InTimeInductive, RowInductive, TsInductive
  DEF ConversionInv
<1> QED BY <1>1, <1>2, TypeCorrect, PTL DEF Spec

(* A postback that was in time for its click is recorded unless the click    *)
(* was pruned or its flush failed (order of flush_events and                 *)
(* flush_conversions in DbWorker::run).                                      *)
THEOREM PostbacksMatch == Spec => []InTimePostbackMatches
<1>1. ConversionInv => InTimePostbackMatches
  BY DEF ConversionInv, InTimeInv
<1> QED BY <1>1, ConversionInvariant, PTL

(* Revenue is only booked against a click that reached the table             *)
(* (record_conversion).                                                      *)
THEOREM RevenueHasClick == Spec => []ConversionsHaveClicks
<1>1. ConversionInv => ConversionsHaveClicks
  BY DEF ConversionInv, RowInv
<1> QED BY <1>1, ConversionInvariant, PTL

(* One row per order reference (the ON CONFLICT clause of                    *)
(* record_conversion).                                                       *)
THEOREM OrdersUnique == Spec => []OneRowPerOrder
<1>1. ConversionInv => OneRowPerOrder
  BY DEF ConversionInv, RowInv
<1> QED BY <1>1, ConversionInvariant, PTL

(* A row is only ever overwritten by a postback that arrived later           *)
(* (ConversionQueue, flush_conversions, record_conversion).                  *)
THEOREM NewestWins == Spec => NoStaleOverwrite
<1>1. TypeOK /\ ConversionInv /\ [Next]_vars =>
        [\A r \in conversions : \E s \in conversions' : Supersedes(s, r)]_vars
  <2> SUFFICES ASSUME TypeOK, ConversionInv, [Next]_vars, NEW r \in conversions
               PROVE  \E s \in conversions' : Supersedes(s, r)
    OBVIOUS
  <2>1. CASE conversions' = conversions
    BY <2>1 DEF Supersedes
  <2>2. CASE RecordConversion /\ conversions' # conversions
    <3> DEFINE c == Head(cbatch)
    <3>1. /\ c \in Postback /\ conversions \subseteq Row
          /\ conversions' = Upsert(c)
          /\ cbatch \in Seq(Postback) /\ cbatch # <<>>
      BY <2>2 DEF RecordConversion, TypeOK
    <3>2. c.ts \in Ts(cbatch)
      BY <3>1, TsTail DEF ConversionInv, TsInv
    <3> HIDE DEF c
    <3>3. r.ts < c.ts
      BY <3>2 DEF ConversionInv, TsInv, Less, RowTs
    <3>4. r.ts \in Int /\ c.ts \in Int
      <4>1. r \in Row
        BY <3>1
      <4> QED BY <3>1, <4>1 DEF Row, Postback
    <3> QED BY <3>1, <3>3, <3>4, UpsertRows DEF Supersedes
  <2> QED BY <2>1, <2>2, RowsChange
<1> QED BY <1>1, TypeCorrect, ConversionInvariant, PTL
        DEF Spec, NoStaleOverwrite
=============================================================================
