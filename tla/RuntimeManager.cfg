SPECIFICATION Spec
CONSTANTS
  ServiceCount = 3
INVARIANTS
  EndsClean
  StatusIsTrue
PROPERTIES
  StopHonoured
CHECK_DEADLOCK FALSE
