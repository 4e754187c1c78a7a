CONSTANTS
  c1 = c1
  c2 = c2
  c3 = c3
  Calls = {c1, c2, c3}
  FailureThreshold = 2
  SuccessThreshold = 2
  Durations = 2
  Drops = TRUE
SPECIFICATION FairSpec
INVARIANTS TypeOK OneProbeAtATime
PROPERTIES OpenEnds
