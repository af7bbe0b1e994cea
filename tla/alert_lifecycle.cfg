SPECIFICATION Spec
CONSTANTS
  Horizon = 4
  Persistence = 1
  Cooldown = 2
  MergeGap = 1
  NoState = NoState
  s1 = s1
  s2 = s2
  Sessions <- OneSession
  Foreign <- OnlyScores
  MaxLog = 4
  MaxFaults = 1
  MaxRestarts = 1
  MaxRewinds = 1
INVARIANTS
  OpenAlertIsActive
  OnlyOrderingRejects
  RuntimeIsReconstruction
  OutboxProtocol
CHECK_DEADLOCK FALSE
