SPECIFICATION FairSpec
CONSTANTS
  Orders = {o1}
  Workers = {w1}
  Stores = {s1}
  Contents <- ThreeContents
  StatusOf <- Status
  Refunded <- PartlyRefunded
  Edits <- Paid
  Hooks = {}
  MaxPermanentAttempts = 1
  Overlap = 0
  Interval = 0
  MaxClock = 2
  MaxFaults = 1
  MaxSlow = 0
  MaxControls = 1
  MaxRebinds = 1
  NoWorker = NoWorker
  NoStore = NoStore
  NoContent = NoContent
INVARIANTS TypeOK
PROPERTIES Delivered
CHECK_DEADLOCK FALSE
