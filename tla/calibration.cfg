SPECIFICATION MCSpec
CONSTANTS
  Horizon = 7
  Persistence = 2
  Cooldown = 2
  MergeGap = 2
  NoState = NoState
  MaxWindows = 8
  Span = 1
  Persistences = {1, 2}
  Cooldowns = {1, 2, 3}
  Gaps = {0, 1, 3}
  Day = 7
  AlertPercent = 50
  MaxTime = 6
  MaxScore = 1
  MaxCalibration = 1
  QuantilePercent = 70
  AnomalyInclusive = TRUE
  Stride = 2
  EventHorizon = 3
  MaxEvents = 1
  MinDetected = 1
  MaxFalse = 1
  EvaluationDay = 4
  MaxAlertPercent = 50
INVARIANTS
  SimulationAgrees
  AlertRowsAgree
  LockedIsMostSensitive
  ThresholdDescribesSplit
  EvaluationIsExact
  WindowsMatchOffline
CHECK_DEADLOCK FALSE
