SPECIFICATION Spec
CONSTANTS
  Sessions = 1
  Stride = 2
  Lookback = 1
  MinObs = 1
  Rows = 3
  Attempts = 3
  Endings = {"COMPLETED", "STOPPED"}
  Faults = {}
  MaxFaults = 0
  MaxDeaths = 0
  MaxRestarts = 1
  MaxFailures = 0
INVARIANTS
  TerminalBarrier
CHECK_DEADLOCK FALSE
