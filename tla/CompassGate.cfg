SPECIFICATION GateSpec
CONSTANTS
  Period <- MCPeriod
  FailureThreshold = 1
  IcmOnly = FALSE
  TickModulus = 3
  MaxStep = 1
  PromptStep = 1
  MaxInitTime = 0
  PulseTime = 1
  BatchTime = 1
  RecoveryTime = 0
  Buses = {"good", "dead"}
  LinkBound = 1
INVARIANTS
  StatusCoherent
  MockHeadingEnds
