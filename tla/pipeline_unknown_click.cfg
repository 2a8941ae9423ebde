\* No fault, no overflow: what an "unknown click token" warning can mean.
CONSTANTS
  MaxPending = 2
  KMaxBatch = 1
  Orders = {}
  NoOrder = NoOrder
  StatusInputs = {"approved"}
  MaxEvents = 1
  MaxPostbacks = 1
  MaxBeacon = 0
  MaxFaults = 0
SPECIFICATION Spec
INVARIANT UnknownIsForgedOrPruned
