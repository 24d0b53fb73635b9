SPECIFICATION Spec
CONSTANTS
  Clients = {c1, c2}
  Snapshots = {empty, s, t}
  Empty = empty
  Answers <- RaceAnswers
  Perfect = 1
  MaxIterations = 2
  None = None
  MaxCorruptions = 0
  Absent = Absent
  Keep = Keep
  Invalid = Invalid
  Corrupt = Corrupt
  Idle = Idle
SYMMETRY Symmetric
INVARIANTS BestEvidenced EvidenceKept ContextCurrent
PROPERTY KnowledgeKept
CHECK_DEADLOCK FALSE
