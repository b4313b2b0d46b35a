SPECIFICATION FairSpec
CONSTANTS
  Workers = {w1, w2}
  Envelopes <- Clashing
  MaxAttempts = 2
  MaxSlow = 2
  MaxCrashes = 2
  NoWorker = NoWorker
  NoEnvelope = NoEnvelope
INVARIANTS TypeOK AppliedOnce RetryBudget ClaimIsExclusive
PROPERTIES ImplementsContract AcknowledgedIsSettled
