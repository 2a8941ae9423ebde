\* Postbacks against clicks: retries, reordering, illegal status, pruning,
\* failing statements, crashes, restarts.
CONSTANTS
  MaxPending = 1
  KMaxBatch = 1
  Orders = {o1}
  NoOrder = NoOrder
  StatusInputs = {"approved", "paid"}
  MaxEvents = 2
  MaxPostbacks = 2
  MaxBeacon = 1
  MaxFaults = 1
SPECIFICATION FairSpec
INVARIANTS InTimePostbackMatches ConversionsHaveClicks OneRowPerOrder
PROPERTIES NoStaleOverwrite PostbacksHandled
