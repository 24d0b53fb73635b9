SPECIFICATION FairSpec
CONSTANTS
  Clients = {c1}
  NoClient = NoClient
  Paths = {p, q}
  Contents = {a}
  Outside = {}
  Absent = Absent
  Keep = Keep
  NoTxn = NoTxn
  MaxRevision = 2
  MaxCrashes = 1
  MaxDrifts = 0
PROPERTIES CrashEquality PendingResolved
