CONSTANTS
  Scale = 1000000
  Gigabyte = 100000
  NoFile = NoFile
  Truncated = Truncated
  Words = {"b", "exp", "a", "r1", "r2", "r3"}
  Options <- MCOptions
  Reruns <- MCReruns
  Commits = {1, 2}
  Device = 5
  PrefixTokens = 6
  MaxCommands = 2
  Manual = {"fixed-size"}
SPECIFICATION Spec
INVARIANTS
  DoneMeansReported
  SweepsAreWhole
  EqualSweepIsEqual
  VerdictIsOfThePools
