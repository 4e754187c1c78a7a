SPECIFICATION Spec
CONSTANTS
  ChildRestartMax = 3
  WaitErrors = FALSE
INVARIANT RestartsAreBounded
CHECK_DEADLOCK FALSE
