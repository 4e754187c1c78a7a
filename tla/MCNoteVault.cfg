SPECIFICATION Spec
CONSTANTS
  w1 = w1
  w2 = w2
  r1 = r1
  plain = plain
  secret = secret
  Writers = {w1, w2}
  Readers = {r1}
  Bodies = {plain, secret}
  Secret = secret
  Masked = masked
  None = None
  Torn = Torn
  MaxHistory = 1
  MaxInFlight = 2
  MaxWrites = 3
  MaxFaults = 1
  MaxRestarts = 1
CONSTRAINT CreatedAlone
VIEW LiveState
SYMMETRY WriterSymmetry
INVARIANTS
  TypeOK
  ReadsAreFresh
  MaskingErases
PROPERTIES
  ConflictIsSeen
  KeepsHistory
CHECK_DEADLOCK FALSE
