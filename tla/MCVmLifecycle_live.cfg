CONSTANTS
  a1 = a1
  a2 = a2
  a3 = a3
  g1 = g1
  g2 = g2
  c = c
  u = u
  gnet = gnet
  cnet = cnet
  unet = unet
  None = None
  Attempt <- Two
  Vm <- MixedVms
  Net <- Nets
  Mode <- MCMode
  NetOf <- MCNetOf
  Configured <- MixedVms
  CustomDir = {c}
  Provisioned = {g1}
  ImageCached = TRUE
  Tasking <- LiveTasks
  Faults = {"raise", "crash", "reboot"}
SPECIFICATION FairSpec
PROPERTY OperationsEnd
CHECK_DEADLOCK FALSE
