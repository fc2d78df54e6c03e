CONSTANTS
  None = None
  Unreadable = Unreadable
  VectorSets <- MCVectorSets
  Codecs = {1, 2}
  Deviations <- MCDeviations
  Forks <- MCForks
  Started <- MCStarted
  MaxEdits = 2
  MaxPushes = 1
SPECIFICATION Spec
INVARIANTS
  PassMeansReproduced
  GatesMeanReproduced
  NoFalseAlarm
PROPERTIES
  GateThreeIsConclusive
  RerunPasses
