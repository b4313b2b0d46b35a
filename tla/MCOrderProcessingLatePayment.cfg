SPECIFICATION Spec
CONSTANTS
  Orders <- TwoOrders
  Sessions <- TwoSessions
  Revisions <- ThreeRevisions
  SessionOf <- ResumedSession
  Events <- LatePayment
  MaxSyncs = 0
  MaxOperations = 0
  NoEvent = NoEvent
  NoRevision = NoRevision
INVARIANTS PaidOrderIsProduced
CHECK_DEADLOCK FALSE
