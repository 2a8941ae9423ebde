------------------------------ MODULE Retention ------------------------------
(***************************************************************************)
(* The hourly maintenance of the DB thread (DbWorker::maintenance): roll   *)
(* up yesterday and today into daily_item_stats, then delete raw events    *)
(* past the retention window (DbConn::rollup_daily, prune_events).         *)
(*                                                                         *)
(* Time is counted in hours.  One item is followed, and at most one event  *)
(* for it per hour, so an event is the hour of its time stamp and a count  *)
(* in daily_item_stats is the set of the hours it counts.                  *)
(***************************************************************************)
EXTENDS Integers, FiniteSets

CONSTANTS
  HoursPerDay,    (* 24 in the code; small here                            *)
  RetentionDays,  (* Config::event_retention_days                          *)
  MaxHours,       (* bound: hours that pass                                *)
  MaxStops,       (* bound: times the process stops                        *)
  MaxFailures     (* bound: maintenance runs in which a statement throws   *)

ASSUME RetentionAssumption ==
  /\ HoursPerDay \in Nat \ {0} /\ RetentionDays \in Nat
  /\ MaxHours \in Nat /\ MaxStops \in Nat /\ MaxFailures \in Nat

VARIABLES
  hour,           (* the clock                                             *)
  up,             (* the process runs                                      *)
  due,            (* DbWorker::run's next_maintenance                      *)
  since,          (* when the process was started                          *)
  events,         (* table events                                          *)
  stats,          (* table daily_item_stats: day -> hours counted          *)
  pruned,         (* history: events deleted                               *)
  runs,           (* history: hours at which a rollup was done             *)
  stops, failures (* how often the bounded actions have happened           *)

maintenanceVars ==
  <<hour, up, due, since, events, stats, pruned, runs, stops, failures>>

Hours  == 0..MaxHours
Day(h) == h \div HoursPerDay
Days   == {Day(h) : h \in Hours}
Today  == Day(hour)

-----------------------------------------------------------------------------
(* A flush writes an event of this hour or, when it sat in the queue while *)
(* the hour struck, of the hour before.                                    *)
Flush(ts) ==
  /\ up
  /\ ts \in {hour - 1, hour} /\ ts >= since
  /\ ts \notin events \cup pruned
  /\ events' = events \cup {ts}
  /\ UNCHANGED <<hour, up, due, since, stats, pruned, runs, stops, failures>>

(* rollup_daily: a day with events gets its count overwritten, a day       *)
(* without keeps the one it has.  The bug: no grouping by day.             *)
RollupUngrouped(from, to) ==
  [d \in Days |-> IF d \in from..to /\ events # {} THEN events ELSE stats[d]]

RollupDaily(from, to) ==
  [d \in Days |->
     LET counted == {e \in events : Day(e) = d}
     IN  IF d \in from..to /\ counted # {} THEN counted ELSE stats[d]]

(* prune_events(now - retention).  The bug: a day too much.                *)
ExpiredADayEarly == {e \in events : e < hour - (RetentionDays - 1) * HoursPerDay}

Expired == {e \in events : e < hour - RetentionDays * HoursPerDay}

(* The days a maintenance run rolls up.  The bug: only the current one.    *)
RolledTodayOnly == RollupDaily(Today, Today)

Rolled == RollupDaily(Today - 1, Today)

Maintenance ==
  /\ up /\ hour >= due
  /\ stats' = Rolled
  /\ runs' = runs \cup {hour}
  /\ events' = events \ Expired
  /\ pruned' = pruned \cup Expired
  /\ due' = hour + 1
  /\ UNCHANGED <<hour, up, since, stops, failures>>

(* The rollup throws, and nothing is done; or the deletion does, and only  *)
(* the rollup is: they are two statements, each its own transaction.       *)
MaintenanceFails ==
  /\ up /\ hour >= due
  /\ failures < MaxFailures
  /\ failures' = failures + 1
  /\ \/ UNCHANGED <<stats, runs>>
     \/ stats' = Rolled /\ runs' = runs \cup {hour}
  /\ due' = hour + 1
  /\ UNCHANGED <<hour, up, since, events, pruned, stops>>

(* An hour passes.  The loop runs every second, so that a running process  *)
(* does not let the hour end with maintenance due.                         *)
Tick ==
  /\ hour < MaxHours
  /\ up => hour < due
  /\ hour' = hour + 1
  /\ UNCHANGED <<up, due, since, events, stats, pruned, runs, stops, failures>>

Stop ==
  /\ up
  /\ stops < MaxStops
  /\ stops' = stops + 1
  /\ up' = FALSE
  /\ UNCHANGED <<hour, due, since, events, stats, pruned, runs, failures>>

(* DbWorker::run: the first maintenance is an hour after the start.        *)
Start ==
  /\ ~up
  /\ up' = TRUE
  /\ due' = hour + 1
  /\ since' = hour
  /\ UNCHANGED <<hour, events, stats, pruned, runs, stops, failures>>

MaintenanceInit ==
  /\ hour = 0 /\ up = TRUE /\ due = 1 /\ since = 0
  /\ events = {} /\ stats = [d \in Days |-> {}] /\ pruned = {}
  /\ runs = {}
  /\ stops = 0 /\ failures = 0

MaintenanceNext ==
  \/ \E ts \in Hours : Flush(ts)
  \/ Maintenance \/ MaintenanceFails \/ Tick \/ Stop \/ Start

MaintenanceSpec == MaintenanceInit /\ [][MaintenanceNext]_maintenanceVars

-----------------------------------------------------------------------------
(* Types; an event counts for its own day, and is counted once.            *)
StatsTypeOK ==
  /\ hour \in Hours /\ up \in BOOLEAN /\ due \in 1..(MaxHours + 1)
  /\ since \in Hours
  /\ events \subseteq Hours /\ pruned \subseteq Hours /\ events \cap pruned = {}
  /\ runs \subseteq Hours
  /\ stats \in [Days -> SUBSET Hours]
  /\ \A d \in Days : \A e \in stats[d] : Day(e) = d /\ e \in events \cup pruned
  /\ stops \in 0..MaxStops /\ failures \in 0..MaxFailures

(* 001_init.sql:136 "this is kept forever": a later rollup of the same day *)
(* never takes back what an earlier one counted, even though events are    *)
(* deleted in the middle of a day.  Needs a retention of two days or more. *)
StatsNeverShrink ==
  [][\A d \in Days : stats[d] \subseteq stats'[d]]_maintenanceVars

(* db_worker.cpp:134 "yesterday can still receive ... events that arrived  *)
(* after the previous rollup": one rollup before the end of the next day   *)
(* is enough for an event to be counted for good, whatever stops, failing  *)
(* statements and late flushes there are.  (An event of hour e is in the   *)
(* table by hour e + 2.)                                                   *)
CountedIfMaintained ==
  \A e \in pruned, r \in runs :
    r >= e + 2 /\ Day(r) <= Day(e) + 1 => e \in stats[Day(e)]

(* docs/analytics.md:143: raw events for 90 days, after that only          *)
(* daily_item_stats: no event is deleted that the rollup has not counted.  *)
PrunedWereCounted == \A e \in pruned : e \in stats[Day(e)]
=============================================================================
