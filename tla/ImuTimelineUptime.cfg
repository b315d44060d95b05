SPECIFICATION Spec
CONSTANTS
  TickModulus <- MCTickModulus
  SamplePeriod <- MCSamplePeriod
  MaxBatch <- MCMaxBatch
  MaxGap <- MCMaxGap
  MaximumSampleAge <- MCMaximumSampleAge
INVARIANTS
  TimestampIsUptime
