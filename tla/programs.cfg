\* The programs around the lifecycle: rollout driver, maintainer, proposer, mirror, installation.
SPECIFICATION ProgramsSpec

CONSTANTS
  x = x
  y = y
  z = z
  Drivers = {d1, d2}
  Tasks <- ThreeTasks
  Good = good
  Failed = failed
  MaxProbes = 3
  MaxCaptures = 6
  Missing = Missing
  MaxAttempts = 3
  MaxResponses = 8
  NoText = NoText
  Traces <- ThreeTraces
  Unknown = unknown
  MinTraces = 2
  RetryBudget = 1
  MaxTurns = 4
  MaxCalls = 2
  NoLog = NoLog
  Rebuilders = {p, q}
  Skills <- ThreeSkills
  Files <- TwoFiles
  Content <- SkillContent
  NoFile = NoFile
  NoRebuild = NoRebuild
  Garbage = garbage
  MaxDamage = 2
  Installers = {i, j, l}
  Members <- TwoMembers
  SkillMd = 2
  MaxTrees = 4
  MaxAccidents = 1
  NoTree = NoTree

INVARIANTS
  OneReport
  FailuresDoNotScore
  AppliedKept
  ProposedOnTraces
  InstalledAtRest

PROPERTIES
  CaptureKept
  InOnePiece
  ProposerEnds
  MirrorSettles

\* Every program may stop: its session is over, or its answers are used up.
CHECK_DEADLOCK FALSE
