SPECIFICATION MCSpec
CONSTANTS
  Clients = {c1}
  Sessions = {s1}
  MaxTime = 2
  Interval = 1
  QueueSize = 2
  Limit = 2
  WithBroker = TRUE
  MaxRecords = 4
  MaxRestarts = 1
  Requests = {r1, r2}
  MaxEvents = 2
  MaxChanges = 1
  MaxReports = 3
  Drafts = {"silent", "uncited", "bundle", "unknown"}
  StoreFails = TRUE
INVARIANTS
  EveryGapMarked
  FeedIsDurable
  ViewIsCurrent
  ReportsAreGrounded
SYMMETRY Symmetry
CHECK_DEADLOCK FALSE
