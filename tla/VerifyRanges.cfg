SPECIFICATION Spec
CONSTANTS
  RangeBytes = 3
  MaxSize = 7
CHECK_DEADLOCK FALSE
INVARIANTS
  AcceptedIsExact
  RangesTile
PROPERTY
  IntactNotAccused
