SPECIFICATION MCSpec
CONSTANTS
  Values = {1, 3, 5, 9}
  AlarmLow = 2
  AlarmHigh = 8
  Hysteresis = 1
  MaxSamples = 8
  AssetIds = {a1, a2}
  PipeIds = {p1, p2}
  SensorIds = {s1}
  Types = {"TANK", "COMPRESSOR", "ISOLATION_VALVE"}
  Ports = {"A", "B", "OUT"}
  MaxAssets = 2
  MaxPipes = 2
  MaxSensors = 1
  Valve = valve
  Compressor = comp
  Sensor = sensor
INVARIANTS
  RulesObeyed
  EligibleLabRuns
  CommandsObeyed
SYMMETRY Symmetry
CHECK_DEADLOCK FALSE
