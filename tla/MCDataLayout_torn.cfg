CONSTANTS
  p1 = p1
  p2 = p2
  vmctl = vmctl
  vm = vm
  state = state
  a = a
  b = b
  None = None
  Proc <- Two
  Node <- Nodes
  Dirs <- Folders
  Above <- MCAbove
  Record = a
  StateDir = state
  Roots <- MCRoots
  Trees <- Apart
  Across = {TRUE}
  Tasking <- Looks
  Faults = {"crash"}
SPECIFICATION Spec
INVARIANT MigratedWhole
CHECK_DEADLOCK FALSE
