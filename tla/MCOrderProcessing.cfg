SPECIFICATION Spec
CONSTANTS
  Orders <- TwoOrders
  Sessions <- TwoSessions
  Revisions <- ThreeRevisions
  SessionOf <- ResumedSession
  Events <- EditedOrders
  MaxSyncs = 1
  MaxOperations = 1
  NoEvent = NoEvent
  NoRevision = NoRevision
INVARIANTS TypeOK OneJobPerLine RevisionHasOneOrder LatestEventWins QueuedWorkIsWanted QueuedWorkIsOrdered ErasedIsUnordered
PROPERTIES OperatorsDecide
CHECK_DEADLOCK FALSE
