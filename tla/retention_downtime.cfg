\* The process is down for a day.
CONSTANTS
  HoursPerDay = 2
  RetentionDays = 2
  MaxHours = 8
  MaxStops = 1
  MaxFailures = 0
SPECIFICATION MaintenanceSpec
INVARIANT PrunedWereCounted
CHECK_DEADLOCK FALSE
