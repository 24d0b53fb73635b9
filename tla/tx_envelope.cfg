SPECIFICATION Spec
CONSTANTS
  Clients = {c1}
  NoClient = NoClient
  Paths = {p}
  Contents = {a}
  Outside = {}
  Absent = Absent
  Keep = Keep
  NoTxn = NoTxn
  MaxRevision = 2
  MaxCrashes = 1
  MaxDrifts = 0
PROPERTY ErrorKeepsState
