SPECIFICATION FairSpec
CONSTANTS
  Own = s1
  Servers = {s1}
  NoServer = free
  MaxBacked = 2
  Pools <- MCPools
  Compressed <- Int8Test
  EncodedWidth <- MCEncodedWidth
  BaselineWidth <- MCBaselineWidth
  HostBytes <- MCHostBytes
  Texts <- MCTexts
  NoText = "nothing"
  Interrupts = TRUE
CHECK_DEADLOCK FALSE
INVARIANTS TypeOK PassIsEarned
PROPERTIES LaunchedTestIsJudged
