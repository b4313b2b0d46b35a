SPECIFICATION Spec
CONSTANTS
  Attempts = {a1, a2}
  Credentials = {c1, c2}
  Keys = {k1, k2}
  Requests = {p1, p2}
  Wraps = {"old"}
  MaxBusy = 2
  MaxMigrated = 1
  None = None
INVARIANTS TypeOK CancelledNeverConnects SecretsStayWithTheirRows
SYMMETRY Alike
CHECK_DEADLOCK FALSE
