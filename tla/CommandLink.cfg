SPECIFICATION LinkSpec
CONSTANTS
  MaxPayload = 4
  DownCapacity = 5
  UpCapacity = 2
  MaxNoise = 3
  MaxFaults = 1
INVARIANTS
  DecodersResynchronize
  PingNeverLost
  AckProvesPing
PROPERTIES
  CaptureEnds
  PingAnswered
