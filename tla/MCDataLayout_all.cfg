CONSTANTS
  p1 = p1
  p2 = p2
  vmctl = vmctl
  vm = vm
  state = state
  a = a
  b = b
  None = None
  Proc <- Two
  Node <- Nodes
  Dirs <- Folders
  Above <- MCAbove
  Record = a
  StateDir = state
  Roots <- MCRoots
  Trees <- MCTrees
  Across = {TRUE, FALSE}
  Tasking <- AnyTasks
  Faults = {"crash"}
SPECIFICATION Spec
INVARIANTS NothingLost Migrated ForgottenStays RecoversAlone
PROPERTY NothingOverwritten
CHECK_DEADLOCK FALSE
