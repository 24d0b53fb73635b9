SPECIFICATION Spec
CONSTANTS
  Clients = {c1}
  Snapshots = {empty, s}
  Empty = empty
  Answers <- WholeAnswers
  Perfect = 1
  MaxIterations = 1
  None = None
  MaxCorruptions = 1
  Absent = Absent
  Keep = Keep
  Invalid = Invalid
  Corrupt = Corrupt
  Idle = Idle
INVARIANT WikiFromConsumed
CHECK_DEADLOCK FALSE
