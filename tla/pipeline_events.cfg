\* Events only: overflow, beacons, failing flushes, crashes, restarts.
CONSTANTS
  MaxPending = 2
  KMaxBatch = 2
  Orders = {}
  NoOrder = NoOrder
  StatusInputs = {}
  MaxEvents = 4
  MaxPostbacks = 0
  MaxBeacon = 3
  MaxFaults = 2
SPECIFICATION FairSpec
INVARIANTS TypeOK InOrderOnce EventAccounting ShutdownKeepsClicks
PROPERTIES EventsReachTable ShutdownCompletes ImplementsLog
