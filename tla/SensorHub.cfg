SPECIFICATION Spec
CONSTANTS
  Period <- MCPeriod
  FailureThreshold = 3
  IcmOnly = TRUE
  TickModulus = 10
  MaxStep = 3
  PromptStep = 1
  MaxInitTime = 1
  PulseTime = 2
  BatchTime = 3
  RecoveryTime = 14
  Buses = {"good", "flaky", "dead"}
INVARIANTS
  FramesMatchStatus
  Int1BitIsFresh
  ImuNeverSilent
  RecoveryBound
PROPERTIES
  HealthyStaysReady
