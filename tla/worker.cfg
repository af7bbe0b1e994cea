SPECIFICATION Spec
CONSTANTS
  Sessions = 2
  Stride = 2
  Lookback = 1
  MinObs = 1
  Rows = 3
  Attempts = 2
  Endings = {"COMPLETED", "STOPPED"}
  Faults = {"bad", "foreign"}
  MaxFaults = 1
  MaxDeaths = 1
  MaxRestarts = 1
  MaxFailures = 2
INVARIANTS
  CommittedIsScored
  RetriesAgree
PROPERTIES
  ScoresInOrder
CHECK_DEADLOCK FALSE
