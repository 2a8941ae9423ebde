\* No fault: what an orderly shutdown leaves in memory.
CONSTANTS
  MaxPending = 2
  KMaxBatch = 1
  Orders = {}
  NoOrder = NoOrder
  StatusInputs = {"approved"}
  MaxEvents = 1
  MaxPostbacks = 1
  MaxBeacon = 0
  MaxFaults = 0
SPECIFICATION Spec
INVARIANT ShutdownKeepsPostbacks
