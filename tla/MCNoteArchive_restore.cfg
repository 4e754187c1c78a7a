SPECIFICATION Spec
CONSTANTS
  p1 = p1
  p2 = p2
  Procs = {p1}
  Gc = gc
  NoRow = NoRow
  MaxInFlight = 1
  MaxOps = 2
  MaxFaults = 0
  MaxCrashes = 1
CHECK_DEADLOCK FALSE
INVARIANT ArchiveIsRestorable
