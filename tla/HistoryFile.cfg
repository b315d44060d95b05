SPECIFICATION Spec
CONSTANTS
  Streams = {imu, gnss}
  Keys = 3
  MaxBuffer = 3
INVARIANTS
  RowsOnceInOrder
  HeaderFirst
