CONSTANTS
  r1 = r1
  r2 = r2
  v1 = v1
  v2 = v2
  v3 = v3
  n1 = n1
  n2 = n2
  s1 = s1
  s2 = s2
  None = None
  Reconciler <- Two
  Locked = {r1}
  Destructive = {}
  PolicyOnly = {}
  Vm <- PairVms
  Net <- PairNets
  Shape <- Shapes
  NetOf <- MCNetOf
  Wants <- PairWants
  Faults = {"query"}
SPECIFICATION FairSpec
PROPERTY ReconcilesEnd
CHECK_DEADLOCK FALSE
