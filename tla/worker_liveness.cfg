SPECIFICATION FairSpec
CONSTANTS
  Sessions = 2
  Stride = 2
  Lookback = 1
  MinObs = 1
  Rows = 3
  Attempts = 2
  Endings = {"COMPLETED"}
  Faults = {}
  MaxFaults = 1
  MaxDeaths = 1
  MaxRestarts = 1
  MaxFailures = 1
PROPERTIES
  CompletedIsCommitted
CHECK_DEADLOCK FALSE
