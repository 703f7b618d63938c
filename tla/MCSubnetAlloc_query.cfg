CONSTANTS
  a1 = a1
  a2 = a2
  a3 = a3
  v1 = v1
  v2 = v2
  None = None
  Torn = Torn
  Attempt <- Three
  Vm <- Vms
  First = 100
  Last = 102
  Foreign = {}
  Tasking <- CliCreates
  Faults = {"query"}
SPECIFICATION Spec
INVARIANT SubnetsApart
CHECK_DEADLOCK FALSE
