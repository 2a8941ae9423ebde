\* Refresh: two items and two partners, up to four edits between the SELECTs,
\* a failing one and restarts.  Maintenance: three days of three hours, late
\* flushes, a stop and a failing statement.
CONSTANTS
  Items = {i1, i2}
  Partners = {direct, p2}
  Direct = direct
  NoPartner = NoPartner
  MaxEdits = 4
  MaxRefreshFailures = 1
  HoursPerDay = 3
  RetentionDays = 2
  MaxHours = 8
  MaxStops = 1
  MaxFailures = 1
SPECIFICATION Spec
INVARIANTS SnapshotComplete PartnerResolves StatsTypeOK CountedIfMaintained
PROPERTIES PublishedGetsShown StatsNeverShrink
CHECK_DEADLOCK FALSE
