SPECIFICATION DeliverySpec
CONSTANTS
  Manifests = {1, 2, 3, 4, 5, 6, 7, 8, 9}
  Snapshots = {empty, plain, proven}
  Deliveries <- AllDeliveries
  Perfect = 2
  MaxIterations = 2
  None = None
  Clients = {c1, c2}
  Empty = empty
  plain = plain
  proven = proven
  k = k
  a = a
  b = b
  Label <- Labels
  Reports = {r1, r2}
  Compats = {k}
  Variants <- TwoTimes
  Fitting <- AllFitting
  Approvals <- TwoApprovals
  MaxTampers = 2
  Absent = Absent
  Keep = Keep
  Corrupt = Corrupt
  Prepared = Prepared
  Idle = Idle
SYMMETRY Symmetric
INVARIANTS TypeOK ConsumedOnce CandidateScope ConfirmationEarned StopsInTime OneDelivery DeliveryTypeOK ApprovalCovers ReplayOpen
PROPERTIES PromotedOnEvidence DeliveredForGood ExportEvidenced
ACTION_CONSTRAINTS InOrder Focused
CHECK_DEADLOCK FALSE
