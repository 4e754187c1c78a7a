SPECIFICATION Spec
CONSTANTS
  j1 = j1
  j2 = j2
  j3 = j3
  s1 = s1
  s2 = s2
  w1 = w1
  Jobs = {j1, j2}
  Slots = {s1, s2}
  Workers = {w1}
  NoJob = NoJob
  MessageKind = "Message"
  Kinds <- MCKinds
  Kind <- CurateAndMessage
  Await <- Chain
  Priority <- UrgentFirst
  HasDeadline = {j2}
  RetryMax = 2
  SlotWorker <- OneWorker
  SlotKind <- CurateSlots
  FailAttempts <- MCFailAttempts
  ConflictKinds = {"Curate"}
  MaxFaults = 1
  MaxReplays = 1
INVARIANTS
  TypeOK
  DoneIsNotRerun
  LeaseTracksRunning
  AwaitGate
PROPERTIES
  NoRevival
  LifecycleSpec
SYMMETRY SlotSymmetry
CHECK_DEADLOCK FALSE
