SPECIFICATION FairSpec
CONSTANTS
  Servers <- MCTwoServers
  NoServer = NoServer
  NoFile = NoFile
  Pools <- MCOnePool
  MaxBacked = 0
  RunCount = 2
  Config <- MCInt8Twice
  Stem <- MCTwoStems
  EqualTokens = FALSE
  Target = 3
  EncodedWidth <- MCEncoded
  ForeignServer = FALSE
  Interrupts = {"launch", "try", "finally"}
INVARIANTS
  OkMeasuresOwnServer
  TimingIsOwn
PROPERTIES
  LaunchAfterTeardown
  ImplementsSession
  LaunchedRunIsReported
CHECK_DEADLOCK FALSE
