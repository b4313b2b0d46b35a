SPECIFICATION Spec
CONSTANTS
  Artifacts = {a1}
  Cleaners = {c1, c2}
  Readers = {r1}
  MaxAttempts = 0
  MaxFaults = 1
  NoOne = NoOne
  NoArtifact = NoArtifact
  Rules = {"cleanup_backlog", "check_failed"}
  Senders = {s1, s2}
  RetryWarning = 1
  RetryCritical = 2
  MaxNotices = 2
INVARIANTS TypeOK AvailableHasBytes PromisedHasBytes ReceiverKnows
PROPERTIES VerdictsByOwners
SYMMETRY Alike
CHECK_DEADLOCK FALSE
