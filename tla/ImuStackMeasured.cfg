\* What the getters document about their result, against the thread's use of it.
CONSTANTS
  main = main
  b1 = b1
  Readers = {main}
  Calibrators = {main}
  ImuThread = imu
  Nobody = nobody
  StackSize = 2
  CalibSize = 1
  TableLength = 1
  MaxFrames = 1
  Batches = {b1}
  NoBatch = none
SPECIFICATION Spec
INVARIANT EntriesMeasured
CHECK_DEADLOCK FALSE
