SPECIFICATION Spec
CONSTANTS
  Servers <- MCTwoServers
  NoServer = NoServer
  NoFile = NoFile
  Pools <- MCOnePool
  MaxBacked = 0
  RunCount = 2
  Config <- MCInt8Twice
  Stem <- MCSameStem
  EqualTokens = FALSE
  Target = 3
  EncodedWidth <- MCEncoded
  ForeignServer = FALSE
  Interrupts = {}
INVARIANTS
  TimingIsOwn
CHECK_DEADLOCK FALSE
