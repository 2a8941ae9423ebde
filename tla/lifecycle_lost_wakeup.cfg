\* A signal between main's test of the flag and its going to sleep.
CONSTANTS
  Requests = {r1}
  MaxSignals = 1
SPECIFICATION LifeSpec
INVARIANT ShutdownKeepsFinalSecond
CHECK_DEADLOCK FALSE
