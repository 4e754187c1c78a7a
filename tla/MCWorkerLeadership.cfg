CONSTANTS
  w1 = w1
  w2 = w2
  w3 = w3
  Workers <- ThreeWorkers
  RenewEvery = 2
  ExpiresAfter = 4
  MaxDelay = 1
  NoRow = NoRow
  Ghost = Ghost
  MaxErrors = 1
  MaxCrashes = 2
SPECIFICATION FairSpec
INVARIANTS TypeOK LeaseCoversLeader OneActive
PROPERTIES LeaseIsRespected LeadershipIsFilled
