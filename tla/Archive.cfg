SPECIFICATION Spec
CONSTANTS
  Keep = 2
  MaxBlocks = 2
  MaxLinks = 3
  MaxRots = 1
  Refused = Refused
  Corrupt = Corrupt
INVARIANTS
  RestoreIsExact
  CompactedRestores
CHECK_DEADLOCK FALSE
