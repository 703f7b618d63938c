CONSTANTS
  a1 = a1
  a2 = a2
  a3 = a3
  g1 = g1
  g2 = g2
  c = c
  u = u
  gnet = gnet
  cnet = cnet
  unet = unet
  None = None
  Attempt <- Two
  Vm <- HostileVms
  Net <- Nets
  Mode <- MCMode
  NetOf <- MCNetOf
  Configured <- HostileVms
  CustomDir = {c}
  Provisioned = {g1}
  ImageCached = FALSE
  Tasking <- Hostile
  Faults = {"raise", "cleanup", "crash", "interrupt"}
SPECIFICATION Spec
INVARIANTS LockTracksHolder SourceRestored InstallReady PartialExplained
SYMMETRY AttemptSymmetry
CHECK_DEADLOCK FALSE
