SPECIFICATION Spec
CONSTANTS
  Clients = {c1, c2}
  NoClient = NoClient
  Paths = {p}
  Contents = {a, b}
  Outside = {}
  Absent = Absent
  Keep = Keep
  NoTxn = NoTxn
  MaxRevision = 2
  MaxCrashes = 1
  MaxDrifts = 0
SYMMETRY Symmetric
INVARIANTS TypeOK CheckedStaysTrue PendingReplayable
PROPERTY CrashEquality
