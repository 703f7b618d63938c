CONSTANTS
  r1 = r1
  r2 = r2
  v1 = v1
  v2 = v2
  v3 = v3
  n1 = n1
  n2 = n2
  s1 = s1
  s2 = s2
  None = None
  Reconciler <- Two
  Locked = {r1, r2}
  Destructive = {}
  PolicyOnly = {}
  Vm <- Vms
  Net <- Nets
  Shape <- Shapes
  NetOf <- MCNetOf
  Wants <- MCWants
  Faults = {"query"}
SPECIFICATION Spec
PROPERTY NoneCutUnasked
CHECK_DEADLOCK FALSE
