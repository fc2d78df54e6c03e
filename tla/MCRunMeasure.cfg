SPECIFICATION Spec
CONSTANTS
  Servers <- MCOneServer
  NoServer = NoServer
  NoFile = NoFile
  Pools <- MCAllPools
  MaxBacked = 3
  RunCount = 1
  Config <- MCInt8
  Stem <- MCInt8Stem
  EqualTokens = TRUE
  Target = 3
  EncodedWidth <- MCEncoded
  ForeignServer = FALSE
  Interrupts = {"launch", "try", "finally"}
INVARIANTS
  TypeOK
  DeltaIsBenchTraffic
  EqualTokensHonoured
  PassMeansEncoded
CHECK_DEADLOCK FALSE
