--------------------------- MODULE RetentionProofs ---------------------------
(***************************************************************************)
(* Proofs about Retention, for every length of a day, every retention of   *)
(* two days or more and every number of hours, stops and failures.         *)
(***************************************************************************)
EXTENDS Retention, TLAPS

-----------------------------------------------------------------------------
(* Days.                                                                   *)

LEMMA TimesMonotone ==
  ASSUME NEW x \in Int, NEW y \in Int, NEW m \in Nat, x <= y
  PROVE  x * m <= y * m
<1>1. (y - x) * m >= 0
  OBVIOUS
<1>2. (y - x) * m = y * m - x * m
  OBVIOUS
<1> QED
  BY <1>1, <1>2

LEMMA DayBounds ==
  ASSUME NEW h \in Nat
  PROVE  /\ Day(h) \in Nat
         /\ Day(h) * HoursPerDay <= h /\ h < (Day(h) + 1) * HoursPerDay
BY RetentionAssumption DEF Day

LEMMA LaterDay ==
  ASSUME NEW a \in Nat, NEW b \in Nat, a <= b
  PROVE  Day(a) <= Day(b)
<1> SUFFICES ASSUME Day(b) + 1 <= Day(a) PROVE FALSE
  BY DayBounds
<1>1. (Day(b) + 1) * HoursPerDay <= Day(a) * HoursPerDay
  BY DayBounds, TimesMonotone, RetentionAssumption
<1> QED
  BY <1>1, DayBounds, RetentionAssumption

(* What is past a retention of two days or more is of no day that a        *)
(* rollup still touches.                                                   *)
LEMMA ExpiredDay ==
  ASSUME RetentionDays >= 2, NEW e \in Nat, NEW h \in Nat,
         e < h - RetentionDays * HoursPerDay
  PROVE  Day(e) <= Day(h) - 2
<1> DEFINE two == 2 * HoursPerDay
<1>1. HoursPerDay \in Nat /\ RetentionDays \in Nat
  BY RetentionAssumption
<1>2. two <= RetentionDays * HoursPerDay
  BY <1>1, TimesMonotone
<1>3. two \in Nat /\ RetentionDays * HoursPerDay \in Nat
  BY <1>1
<1>4. e + two <= h
  BY <1>2, <1>3
<1>5. Day(e) + 2 <= Day(e + two)
  <2> SUFFICES ASSUME Day(e + two) + 1 <= Day(e) + 2 PROVE FALSE
    BY <1>3, DayBounds
  <2>1. (Day(e + two) + 1) * HoursPerDay <= (Day(e) + 2) * HoursPerDay
    BY <1>1, <1>3, DayBounds, TimesMonotone
  <2>2. (Day(e) + 2) * HoursPerDay = Day(e) * HoursPerDay + two
    BY <1>1, DayBounds
  <2> QED
    BY <1>1, <1>3, <2>1, <2>2, DayBounds
<1> QED
  BY <1>3, <1>4, <1>5, LaterDay, DayBounds

-----------------------------------------------------------------------------
(* The invariant: nothing is of the future, what is deleted is of no day   *)
(* that a rollup still touches, and an event of the table has been counted *)
(* by every rollup that is late enough to see it and early enough to touch *)
(* its day.  CountedIfMaintained is not inductive: it says nothing of      *)
(* events that are still in the table and will be deleted.                 *)
Covered(e, r) == r >= e + 2 /\ Day(r) <= Day(e) + 1

RetentionInv ==
  /\ StatsTypeOK
  /\ \A e \in events : e <= hour
  /\ \A e \in pruned : Day(e) <= Today - 2
  /\ \A r \in runs : r <= hour
  /\ \A e \in events \cup pruned, r \in runs : Covered(e, r) => e \in stats[Day(e)]

LEMMA HoursAndDays ==
  /\ Hours \subseteq Nat /\ \A h \in Hours : Day(h) \in Days
  /\ \A d \in Days : d \in Nat
BY RetentionAssumption, DayBounds DEF Hours, Days

(* The types alone hold for every retention.                               *)
LEMMA TypesKept ==
  ASSUME StatsTypeOK, [MaintenanceNext]_maintenanceVars
  PROVE  StatsTypeOK'
<1> USE RetentionAssumption
<1>1. ASSUME NEW ts \in Hours, Flush(ts) PROVE StatsTypeOK'
  BY <1>1 DEF StatsTypeOK, Flush
<1>2. /\ Rolled \in [Days -> SUBSET Hours]
      /\ \A d \in Days : \A e \in Rolled[d] : Day(e) = d /\ e \in events \cup pruned
  BY DEF StatsTypeOK, Rolled, RollupDaily
<1>3. hour + 1 \in 1..(MaxHours + 1) /\ Expired \subseteq events
  BY DEF StatsTypeOK, Hours, Expired
<1>4. CASE Maintenance
  BY <1>2, <1>3, <1>4 DEF StatsTypeOK, Maintenance
<1>5. CASE MaintenanceFails
  <2>1. failures' \in 0..MaxFailures
    BY <1>5 DEF StatsTypeOK, MaintenanceFails
  <2> QED
    BY <1>2, <1>3, <1>5, <2>1 DEF StatsTypeOK, MaintenanceFails
<1>6. CASE Tick
  BY <1>6 DEF StatsTypeOK, Tick, Hours
<1>7. CASE Stop
  <2>1. stops' \in 0..MaxStops
    BY <1>7 DEF StatsTypeOK, Stop
  <2> QED
    BY <1>7, <2>1 DEF StatsTypeOK, Stop
<1>8. CASE Start
  BY <1>3, <1>8 DEF StatsTypeOK, Start
<1>9. CASE UNCHANGED maintenanceVars
  BY <1>9 DEF StatsTypeOK, maintenanceVars
<1> QED
  BY <1>1, <1>4, <1>5, <1>6, <1>7, <1>8, <1>9 DEF MaintenanceNext

(* maintenance, flush and restarts keep the types, count an event for its  *)
(* own day, and never both keep and delete it.                             *)
THEOREM TypeCorrect == MaintenanceSpec => []StatsTypeOK
<1>1. MaintenanceInit => StatsTypeOK
  BY RetentionAssumption DEF MaintenanceInit, StatsTypeOK, Hours
<1> QED
  BY <1>1, TypesKept, PTL DEF MaintenanceSpec

-----------------------------------------------------------------------------
(* A rollup: what it does to the days it touches and to the others.        *)
LEMMA RollupKeeps ==
  ASSUME RetentionInv, NEW d \in Days
  PROVE  /\ stats[d] \subseteq Rolled[d]
         /\ \A e \in events : Day(e) = d /\ Today <= d + 1 => e \in Rolled[d]
<1>1. Today \in Nat /\ d \in Nat /\ hour \in Nat
  BY HoursAndDays DEF RetentionInv, StatsTypeOK, Today
<1>2. events \subseteq Nat /\ pruned \subseteq Nat
  BY HoursAndDays DEF RetentionInv, StatsTypeOK
<1> DEFINE counted == {e \in events : Day(e) = d}
<1>3. Rolled[d] = IF d \in (Today - 1)..Today /\ counted # {} THEN counted ELSE stats[d]
  BY DEF Rolled, RollupDaily
<1>4. ASSUME d \in (Today - 1)..Today PROVE stats[d] \subseteq counted
  <2> SUFFICES ASSUME NEW e \in stats[d] PROVE e \in counted
    OBVIOUS
  <2>1. Day(e) = d /\ e \in events \cup pruned
    BY DEF RetentionInv, StatsTypeOK
  <2>2. e \notin pruned
    BY <1>1, <1>4, <2>1 DEF RetentionInv
  <2> QED
    BY <2>1, <2>2
<1>5. ASSUME NEW e \in events, Day(e) = d, Today <= d + 1 PROVE e \in Rolled[d]
  <2>1. d <= Today
    BY <1>1, <1>2, <1>5, LaterDay DEF RetentionInv, Today
  <2>2. d \in (Today - 1)..Today
    BY <1>1, <1>5, <2>1
  <2> QED
    BY <1>3, <1>5, <2>2
<1> QED
  BY <1>3, <1>4, <1>5

LEMMA RetentionInvariant ==
  ASSUME RetentionDays >= 2
  PROVE  MaintenanceSpec => []RetentionInv
<1>1. MaintenanceInit => RetentionInv
  BY RetentionAssumption DEF MaintenanceInit, RetentionInv, StatsTypeOK, Hours
<1>2. ASSUME RetentionInv, [MaintenanceNext]_maintenanceVars PROVE RetentionInv'
  <2>1. StatsTypeOK'
    BY <1>2, TypesKept DEF RetentionInv
  <2>2. /\ hour \in Nat /\ Today \in Nat /\ events \subseteq Nat /\ pruned \subseteq Nat
        /\ runs \subseteq Nat /\ \A e \in events \cup pruned : Day(e) \in Days /\ Day(e) \in Nat
    BY <1>2, HoursAndDays DEF RetentionInv, StatsTypeOK, Today
  <2>3. ASSUME NEW ts \in Hours, Flush(ts) PROVE RetentionInv'
    <3>1. ts \in Nat /\ ts <= hour /\ ts >= hour - 1
      BY <2>2, <2>3, HoursAndDays DEF Flush
    <3>2. \A r \in runs : ~Covered(ts, r)
      BY <1>2, <2>2, <3>1 DEF RetentionInv, Covered
    <3> QED
      BY <1>2, <2>1, <2>3, <3>1, <3>2 DEF Flush, RetentionInv, Covered, Today
  <2>4. ASSUME NEW e \in events \cup pruned, NEW r \in runs \cup {hour}, Covered(e, r)
        PROVE  e \in Rolled[Day(e)]
    <3>1. CASE r \in runs
      BY <1>2, <2>2, <2>4, <3>1, RollupKeeps DEF RetentionInv
    <3>2. CASE r = hour
      <4>1. Today <= Day(e) + 1
        BY <2>4, <3>2 DEF Covered, Today
      <4>2. e \in events
        BY <1>2, <2>2, <4>1 DEF RetentionInv
      <4> QED
        BY <1>2, <2>2, <4>1, <4>2, RollupKeeps
    <3> QED
      BY <3>1, <3>2
  <2>5. CASE Maintenance
    <3>1. /\ events' = events \ Expired /\ pruned' = pruned \cup Expired /\ hour' = hour
          /\ stats' = Rolled /\ runs' = runs \cup {hour} /\ Expired \subseteq events
      BY <2>5 DEF Maintenance, Expired
    <3>2. \A e \in Expired : Day(e) <= Today - 2
      BY <2>2, ExpiredDay DEF Expired, Today
    <3>3. \A e \in events' \cup pruned', r \in runs' : Covered(e, r) => e \in stats'[Day(e)]
      BY <2>4, <3>1
    <3> QED
      BY <1>2, <2>1, <2>2, <3>1, <3>2, <3>3 DEF RetentionInv, Covered, Today
  <2>6. CASE MaintenanceFails
    <3>1. /\ events' = events /\ pruned' = pruned /\ hour' = hour
          /\ \/ stats' = stats /\ runs' = runs
             \/ stats' = Rolled /\ runs' = runs \cup {hour}
      BY <2>6 DEF MaintenanceFails
    <3>2. \A e \in events' \cup pruned', r \in runs' : Covered(e, r) => e \in stats'[Day(e)]
      BY <1>2, <2>4, <3>1 DEF RetentionInv
    <3>3. \A r \in runs' : r <= hour'
      <4>1. hour <= hour /\ runs' \subseteq runs \cup {hour}
        BY <2>2, <3>1
      <4> QED
        BY <1>2, <3>1, <4>1 DEF RetentionInv
    <3>4. /\ \A e \in events' : e <= hour'
          /\ \A e \in pruned' : Day(e) <= Today' - 2
      BY <1>2, <3>1 DEF RetentionInv, Today
    <3> QED
      BY <2>1, <3>2, <3>3, <3>4 DEF RetentionInv, Covered
  <2>7. CASE Tick
    <3>1. Day(hour) <= Day(hour + 1) /\ Day(hour + 1) \in Nat
      BY <2>2, LaterDay, DayBounds
    <3>2. /\ hour' = hour + 1 /\ Today <= Today' /\ Today' \in Nat
          /\ events' = events /\ pruned' = pruned /\ runs' = runs /\ stats' = stats
      BY <2>2, <2>7, <3>1 DEF Tick, Today
    <3> QED
      BY <1>2, <2>1, <2>2, <3>2 DEF RetentionInv, Covered
  <2>8. CASE Stop \/ Start \/ UNCHANGED maintenanceVars
    <3>1. /\ hour' = hour /\ events' = events /\ pruned' = pruned /\ runs' = runs
          /\ stats' = stats
      BY <2>8 DEF Stop, Start, maintenanceVars
    <3> QED
      BY <1>2, <2>1, <3>1 DEF RetentionInv, Covered, Today
  <2> QED
    BY <1>2, <2>3, <2>5, <2>6, <2>7, <2>8 DEF MaintenanceNext
<1> QED
  BY <1>1, <1>2, PTL DEF MaintenanceSpec

(* rollup_daily: with a retention of two days or more no rollup takes back *)
(* what an earlier one counted, although events are deleted mid-day.       *)
THEOREM StatsKeptForever ==
  ASSUME RetentionDays >= 2
  PROVE  MaintenanceSpec => StatsNeverShrink
<1>1. ASSUME RetentionInv, [MaintenanceNext]_maintenanceVars
      PROVE  \A d \in Days : stats[d] \subseteq stats'[d]
  <2>1. stats' = stats \/ stats' = Rolled
    BY <1>1 DEF MaintenanceNext, Flush, Maintenance, MaintenanceFails, Tick, Stop, Start,
                maintenanceVars
  <2> QED
    BY <1>1, <2>1, RollupKeeps
<1> QED
  BY <1>1, RetentionInvariant, PTL DEF MaintenanceSpec, StatsNeverShrink

(* maintenance: an event that was deleted had been counted if one rollup   *)
(* was done after it was in the table and before the end of the next day.  *)
THEOREM CountedBeforeDeleted ==
  ASSUME RetentionDays >= 2
  PROVE  MaintenanceSpec => []CountedIfMaintained
<1>1. RetentionInv => CountedIfMaintained
  BY DEF RetentionInv, CountedIfMaintained, Covered
<1> QED
  BY <1>1, RetentionInvariant, PTL
==============================================================================
