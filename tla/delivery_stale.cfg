SPECIFICATION DeliverySpec
CONSTANTS
  Manifests = {1, 2, 3, 4, 5, 6, 7, 8, 9}
  Snapshots = {empty, plain, proven}
  Deliveries <- AllDeliveries
  Perfect = 2
  MaxIterations = 2
  None = None
  Clients = {c1}
  Empty = empty
  plain = plain
  proven = proven
  k = k
  a = a
  b = b
  Label <- Labels
  Reports = {r1}
  Compats = {k}
  Variants <- TwoTimes
  Fitting <- AllFitting
  Approvals <- TwoApprovals
  MaxTampers = 0
  Absent = Absent
  Keep = Keep
  Corrupt = Corrupt
  Prepared = Prepared
  Idle = Idle
INVARIANT ActiveDelivered
ACTION_CONSTRAINT InOrder
CHECK_DEADLOCK FALSE
