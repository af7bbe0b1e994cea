SPECIFICATION FairSpec
CONSTANTS
  Horizon = 2
  Persistence = 1
  Cooldown = 1
  MergeGap = 1
  NoState = NoState
  s1 = s1
  s2 = s2
  Sessions <- TwoSessions
  Foreign <- AllKinds
  MaxLog = 3
  MaxFaults = 1
  MaxRestarts = 1
  MaxRewinds = 0
INVARIANTS
  TypeOK
  HandledUnlessDisturbed
PROPERTIES
  FailedSessionStaysClosed
  EverythingCommitted
  OutboxDrained
CHECK_DEADLOCK FALSE
