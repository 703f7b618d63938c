CONSTANTS
  a1 = a1
  a2 = a2
  a3 = a3
  g1 = g1
  g2 = g2
  c = c
  u = u
  gnet = gnet
  cnet = cnet
  unet = unet
  None = None
  Attempt <- Two
  Vm <- AutoVms
  Net <- Nets
  Mode <- MCMode
  NetOf <- MCNetOf
  Configured <- Configs
  CustomDir = {}
  Provisioned = {g1}
  ImageCached = TRUE
  Tasking <- AutoTasks
  Faults = {}
SPECIFICATION Spec
INVARIANT PortsForwarded
CHECK_DEADLOCK FALSE
