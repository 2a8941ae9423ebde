\* One card, seen on two pages of one session; nothing is lost.
CONSTANTS
  Cards = {c1}
  MaxBatch = 1
  KMaxBatch = 1
  MaxPages = 2
  Lossy = FALSE
SPECIFICATION TrackerSpec
INVARIANT OncePerSession
CHECK_DEADLOCK FALSE
