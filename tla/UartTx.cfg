SPECIFICATION FairSpec
CONSTANTS
  Capacity <- MCCapacity
  Lengths <- MCLengths
  MaxBytes <- MCMaxBytes
  MaxDrops <- MCMaxDrops
INVARIANTS
  WireIsAcceptedPrefix
  ActiveMatchesHal
  NoStrandedBytes
PROPERTIES
  ImplementsFrameFifo
