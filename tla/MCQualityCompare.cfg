SPECIFICATION FairSpec
CONSTANTS
  RunCount = 2
  Servers <- TwoRuns
  NoServer = free
  MaxBacked = 0
  Pools = {20}
  PromptCount = 2
  PromptTokens = 5
  L1Cap = 8
  Margin = 1
  FillerRequests = 2
  FillerTokens = 9
  ForceFiller = FALSE
  NoReport = noreport
CHECK_DEADLOCK FALSE
INVARIANTS ReportsOwnServer ReportsARestore
PROPERTIES LaunchedConfigEnds
