CONSTANTS
  c1 = c1
  c2 = c2
  c3 = c3
  c4 = c4
  k1 = k1
  k2 = k2
  Calls <- AllCalls
  Keys <- AllKeys
  KeyOf <- MCKeyOf
  None = None
  MaxFaults = 2
SPECIFICATION Spec
INVARIANTS TypeOK LateCallCreatesNothing IdsAreReal
CHECK_DEADLOCK FALSE
