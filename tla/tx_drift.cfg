SPECIFICATION FairDriftSpec
CONSTANTS
  Clients = {c1, c2}
  NoClient = NoClient
  Paths = {p}
  Contents = {a, x}
  Outside = {x}
  Absent = Absent
  Keep = Keep
  NoTxn = NoTxn
  MaxRevision = 1
  MaxCrashes = 1
  MaxDrifts = 1
PROPERTIES OutsideContentKept PendingResolved
