CONSTANTS
  a1 = a1
  a2 = a2
  a3 = a3
  g1 = g1
  g2 = g2
  c = c
  u = u
  gnet = gnet
  cnet = cnet
  unet = unet
  None = None
  Attempt <- Three
  Vm <- AutoVms
  Net <- Nets
  Mode <- MCMode
  NetOf <- MCNetOf
  Configured <- AutoVms
  CustomDir = {}
  Provisioned = {g1}
  ImageCached = TRUE
  Tasking <- AutoTasks
  Faults = {"raise"}
SPECIFICATION Spec
INVARIANT DestroyDropsPolicy
CHECK_DEADLOCK FALSE
