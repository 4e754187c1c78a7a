SPECIFICATION Spec
CONSTANTS
  w1 = w1
  w2 = w2
  r1 = r1
  plain = plain
  secret = secret
  Writers = {w1, w2}
  Readers = {}
  Bodies = {plain, secret}
  Secret = secret
  Masked = masked
  None = None
  Torn = Torn
  MaxHistory = 1
  MaxInFlight = 2
  MaxWrites = 3
  MaxFaults = 0
  MaxRestarts = 0
SYMMETRY WriterSymmetry
INVARIANT CompareAndSwap
CHECK_DEADLOCK FALSE
