CONSTANTS
  a1 = a1
  a2 = a2
  a3 = a3
  i1 = i1
  s1 = s1
  None = None
  NoFile = NoFile
  Torn = Torn
  Attempt <- Two
  Id = {i1, s1}
  Tasking <- AnyTasks
  Taken <- AnyOrigin
  Faults = {"raise", "cleanup", "crash", "interrupt"}
  MaxWrites = 2
SPECIFICATION Spec
INVARIANTS RestoreKeepsSource SourceRestarted RestoreComplete KeyFits
SYMMETRY AttemptSymmetry
PROPERTIES ListedUnchanged ImplementsRestorePoints
CHECK_DEADLOCK FALSE
