CONSTANTS
  a1 = a1
  a2 = a2
  a3 = a3
  i1 = i1
  s1 = s1
  None = None
  NoFile = NoFile
  Torn = Torn
  Attempt <- Two
  Id = {i1, s1}
  Tasking <- Restores
  Taken <- FromLate
  Faults = {}
  MaxWrites = 2
SPECIFICATION Spec
INVARIANT ListedRestorable
CHECK_DEADLOCK FALSE
