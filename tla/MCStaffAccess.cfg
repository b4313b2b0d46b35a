SPECIFICATION Spec
CONSTANTS
  Users = {u1}
  Sessions = {s1, s2, s3}
  Challenges = {c1, c2}
  Passkeys = {k1, k2}
  Requests = {p1, p2}
  Steps = {1, 2}
  CodesPerUser = 1
  MaxPasskeys = 1
  MaxCounter = 1
  NoOne = NoOne
INVARIANTS TypeOK OneSessionPerFactor EnrolledOnce
PROPERTIES NothingIsUndone
SYMMETRY Alike
CHECK_DEADLOCK FALSE
