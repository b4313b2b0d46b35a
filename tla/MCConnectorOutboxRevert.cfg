SPECIFICATION Spec
CONSTANTS
  Orders = {o1}
  Workers = {w1}
  Stores = {s1}
  Contents <- ThreeContents
  StatusOf <- Status
  Refunded <- PartlyRefunded
  Edits <- BackAndForth
  Hooks = {"update"}
  MaxPermanentAttempts = 1
  Overlap = 0
  Interval = 0
  MaxClock = 2
  MaxFaults = 0
  MaxSlow = 0
  MaxControls = 0
  MaxRebinds = 0
  NoWorker = NoWorker
  NoStore = NoStore
  NoContent = NoContent
INVARIANTS IdleMeansDelivered
CHECK_DEADLOCK FALSE
