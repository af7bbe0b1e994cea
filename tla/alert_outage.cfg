SPECIFICATION Spec
CONSTANTS
  Horizon = 2
  Persistence = 1
  Cooldown = 1
  MergeGap = 1
  NoState = NoState
  s1 = s1
  s2 = s2
  Sessions <- OneSession
  Foreign <- OnlyScores
  MaxLog = 2
  MaxFaults = 1
  MaxRestarts = 0
  MaxRewinds = 0
INVARIANTS
  CommittedRecordsHandled
CHECK_DEADLOCK FALSE
