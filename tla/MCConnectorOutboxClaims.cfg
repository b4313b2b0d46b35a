SPECIFICATION Spec
CONSTANTS
  Orders = {o1}
  Workers = {w1, w2}
  Stores = {s1}
  Contents <- ThreeContents
  StatusOf <- Status
  Refunded <- PartlyRefunded
  Edits <- Change
  Hooks = {"paid"}
  MaxPermanentAttempts = 1
  Overlap = 0
  Interval = 0
  MaxClock = 1
  MaxFaults = 0
  MaxSlow = 1
  MaxControls = 0
  MaxRebinds = 0
  NoWorker = NoWorker
  NoStore = NoStore
  NoContent = NoContent
INVARIANTS FrozenEnvelope
PROPERTIES ClaimsEndByTheirOwners ImplementsOutboxContract
SYMMETRY Alike
CHECK_DEADLOCK FALSE
