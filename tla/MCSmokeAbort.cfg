SPECIFICATION Spec
CONSTANTS
  Own = s1
  Servers = {s1}
  NoServer = free
  MaxBacked = 2
  Pools <- MCPools
  Compressed <- Int8Test
  EncodedWidth <- MCEncodedWidth
  BaselineWidth <- MCBaselineWidth
  HostBytes <- MCHostBytes
  Texts <- MCTexts
  NoText = "nothing"
  Interrupts = FALSE
CHECK_DEADLOCK FALSE
INVARIANTS AbortIsNotPass
