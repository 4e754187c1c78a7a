SPECIFICATION FairSpec
CONSTANTS
  p1 = p1
  p2 = p2
  Procs = {p1, p2}
  Gc = gc
  NoRow = NoRow
  MaxInFlight = 2
  MaxOps = 4
  MaxFaults = 1
  MaxCrashes = 1
PROPERTY ExpiredIsReconciled
INVARIANTS
  TypeOK
  NoteSurvives
  RegistryIsTruthful
CHECK_DEADLOCK FALSE
