SPECIFICATION Spec
CONSTANTS
  Formats <- MCFormats
  MaxExponent = 9
CHECK_DEADLOCK FALSE
INVARIANTS RecordIsLossless WithinVerifiedBound FullScaleIsReached
PROPERTIES NoDrift
