SPECIFICATION MCSpec
CONSTANTS
  Champions = {"champ1", "champ2"}
  Research = {"research"}
  Twins = {"champ1", "champ2"}
  Siblings = {"champ1", "champ2", "research"}
  Drifted = {"research"}
  Commits = {"c1", "c2"}
  Policies = {"policy"}
  Outputs = {"in_package", "elsewhere"}
  InPackage = "in_package"
  Promoters = {"p1", "p2"}
  AllowResearch = FALSE
  MaxChanges = 4
  MaxRuns = 2
  MaxVersions = 2
  ChampionBuilders = {"b1", "b2"}
  ResearchBuilders = {"r1"}
  FeasibleRuns = {"run1", "run2"}
  NotFeasibleRuns = {"infeasible"}
  MaxTime = 2
  Migrators = {"m1", "m2"}
  Numbers = {1, 2, 3}
  MaxEdits = 2
  MaxCalls = 4
  MaxCommits = 2
  MaxGateRuns = 3
INVARIANTS
  ServedIsReproduced
  ReceiptNamesChampion
  PublishedIsWhole
  MigrationsAreSerial
  CertifiedIsBacked
  StackRestored
CHECK_DEADLOCK FALSE
