SPECIFICATION CompareSpec
CONSTANTS
  PairCount = 2
  Generations <- MCGenerations
CHECK_DEADLOCK FALSE
INVARIANTS PerfectScoresCoincide DeltasCompareTheSameToken
