SPECIFICATION MCSpec
CONSTANTS
  Engines = {e1, e2}
  Workers = {w1, w2}
  Sensors = {1}
  SampleEvery = 1
  MaxTicks = 3
  BatchLimit = 2
  KafkaAtStart = TRUE
  MaxDeaths = 1
  MaxOutages = 1
  Processes = {p1, p2}
  CommandIds = {c1, c2}
  Payloads = {x, y}
  MaxRevisions = 3
  MaxCommands = 2
  MaxRunTicks = 1
  MaxRequests = 6
INVARIANTS
  ObservedOnce
  DeliveredInOrder
  RequestsAreSerial
PROPERTIES
  DrainedOnceConnected
CHECK_DEADLOCK FALSE
