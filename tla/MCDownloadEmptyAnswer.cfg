SPECIFICATION LivenessSpec
CHECK_DEADLOCK FALSE
CONSTANTS
  MaxDecimal = 3
  Sizes <- MCSizes
  Ranges <- MCRanges
  MaxObjectSize = 3
  MaxStorageSegment = 2
  MaxVersion = 2
INVARIANT
  ResponseIsVersionOrFails
