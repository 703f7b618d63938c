CONSTANTS
  a = a
  b = b
  c = c
  g1 = g1
  g2 = g2
  None = None
  Vm <- MCVm
  Group <- MCGroup
  GroupOf <- MCGroupOf
  Rank <- MCRank
  Port <- MCPort
  Dns = {1}
  Choices <- MCChoices
SPECIFICATION Spec
INVARIANTS Confined Unblocked
