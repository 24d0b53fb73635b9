SPECIFICATION Spec
CONSTANTS
  Clients = {c1}
  Snapshots = {empty, s}
  Empty = empty
  Answers <- LongAnswers
  Perfect = 2
  MaxIterations = 2
  None = None
  MaxCorruptions = 1
  Absent = Absent
  Keep = Keep
  Invalid = Invalid
  Corrupt = Corrupt
  Idle = Idle
INVARIANTS TypeOK EvidenceKept SettledEvidence BestEvidenced ImpactExplains AbandonOpen
PROPERTY KnowledgeKept
CHECK_DEADLOCK FALSE
