SPECIFICATION FairSpec
CONSTANTS
  s = s
  Servers <- OneServer
  Server = s
  NoServer = free
  Pools = {0}
  MaxBacked = 0
  Traces <- MCTraces
  Concurrency = 2
  MaxNewTokens = 2
  Vocabulary = {2}
  WarmUp <- MCWarmUp
CHECK_DEADLOCK FALSE
INVARIANTS OracleIsUpperBound CountersCoverTheRequests NoRequestDuringTeardown
  FailedRequestsAreReported GapsCoverTheAnswer
PROPERTIES LaunchedReplayEnds
