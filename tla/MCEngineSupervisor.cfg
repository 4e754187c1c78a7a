SPECIFICATION FairSpec
CONSTANTS
  ChildRestartMax = 3
  WaitErrors = TRUE
INVARIANTS
  TypeOK
  OneChild
  FlappingIsBounded
  GivesUpWhenSpent
PROPERTIES
  DeadChildIsReplaced
  ShutdownEndsLoop
CHECK_DEADLOCK FALSE
