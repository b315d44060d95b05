SPECIFICATION Spec
CONSTANTS
  RxSize <- MCRxSize
  MaxBytes <- MCMaxBytes
INVARIANTS
  ReceivedInOrder
  NeverDeaf
  LossIsCounted
PROPERTIES
  Drained
