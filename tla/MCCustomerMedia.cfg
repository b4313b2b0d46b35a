SPECIFICATION Spec
CONSTANTS
  u1 = u1
  r1 = r1
  s1 = s1
  q1 = q1
  Uploads = {u1}
  Revisions = {r1}
  Sessions = {s1}
  SessionOf <- InSession
  UsesOf <- UsesUpload
  Shoppers = {p1}
  Staff = {p2}
  Provers = {w1, w2}
  Cleaners = {c1}
  Erasers = {d1, d2}
  Requests = {q1}
  SubjectOf <- OfUpload
  MaxProofAttempts = 2
  MaxDeletionAttempts = 2
  MaxFaults = 1
  MaxRetries = 1
  NoOne = NoOne
  NoPlan = NoPlan
INVARIANTS TypeOK AcceptedHasBytes EveryObjectIsKnown ErasedIsGone PlannedStaysDeleted RevisionsKeepArtwork OneProofPerRevision
SYMMETRY Alike
CHECK_DEADLOCK FALSE
