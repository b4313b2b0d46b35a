SPECIFICATION Spec
CONSTANTS
  Orders <- TwoOrders
  Sessions <- TwoSessions
  Revisions <- ThreeRevisions
  SessionOf <- ResumedSession
  Events <- LostLine
  MaxSyncs = 1
  MaxOperations = 0
  NoEvent = NoEvent
  NoRevision = NoRevision
INVARIANTS StaleWorkCannotSurvive
CHECK_DEADLOCK FALSE
