CONSTANTS
  a1 = a1
  a2 = a2
  a3 = a3
  None = None
  Attempt <- MCAttempt
  MayCrash = TRUE
SPECIFICATION Spec
INVARIANT CommandsExclusive
CHECK_DEADLOCK FALSE
