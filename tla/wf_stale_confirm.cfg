SPECIFICATION Spec
CONSTANTS
  Clients = {c1, c2, c3}
  Snapshots = {empty, s, t}
  Empty = empty
  Answers <- RaceAnswers
  Perfect = 1
  MaxIterations = 2
  None = None
  MaxCorruptions = 0
  Absent = Absent
  Keep = Keep
  Invalid = Invalid
  Corrupt = Corrupt
  Idle = Idle
SYMMETRY Symmetric
ACTION_CONSTRAINT SlowOnly
INVARIANT BestEvidenced
CHECK_DEADLOCK FALSE
