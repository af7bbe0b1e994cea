SPECIFICATION FairSpec
CONSTANTS
  Rows = 2
  Sessions = {1, 2}
  NoSession = 0
  Issued = {"START", "PAUSE", "RESUME", "STOP", "MISMATCHED", "INVALID"}
  MaxCommands = 3
  MaxFaults = 1
  MaxCrashes = 1
INVARIANTS
  OneIncomplete
  EndedByCommandOnly
PROPERTIES
  StreamIsLossless
  RunningSessionEnds
CHECK_DEADLOCK FALSE
