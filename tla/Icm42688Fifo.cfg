SPECIFICATION Spec
CONSTANTS
  Watermark = 3
  BatchCapacity = 8
  DeviceCapacity = 9
  MinPeriod = 2
  EventTimeout = 8
  FailureThreshold = 2
  MaxLag = 3
INVARIANTS
  LossNeedsDisturbance
  MisalignedOnlyByLostFlush
PROPERTIES
  GapsAreCounted
  SamplesReturn
