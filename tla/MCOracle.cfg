SPECIFICATION Spec
CONSTANTS
  Workloads <- MCWorkloads
  KeyLens = {1, 2}
  HostBytes <- MCHostBytes
  BF16_BYTES_PER_TOKEN = 16
  INT8_BYTES_PER_TOKEN = 9
CHECK_DEADLOCK FALSE
INVARIANTS HitIsLongestPrefix SharedPrefixIsCommon
  GapIsGrowth FitIsBestCase
