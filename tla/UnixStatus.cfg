SPECIFICATION Spec
CONSTANTS
  Process = core
  Polite = {query}
  Others = {other}
  Probes = {probe}
  MaximumClients = 2
  AcceptsPerPoll = 1
  RequestLimit = 1
  ResponseChunks = 3
  SocketRoom = 1
  IdleTimeout = 2
  ClientDelay = 0
  PassDelay = 1
PROPERTIES
  AnswersAreWhole
  SlotsAreFreed
  PoliteAnswered
  RestartNotRefused
