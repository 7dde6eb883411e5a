\* Frame tables of 12 bytes, room for two entries, with the code's guard at 12.
CONSTANTS
  main = main
  b1 = b1
  Readers = {main}
  Calibrators = {main}
  ImuThread = imu
  Nobody = nobody
  StackSize = 1
  CalibSize = 1
  TableLength = 12
  MaxFrames = 1
  Batches = {b1}
  NoBatch = none
SPECIFICATION Spec
INVARIANT TablesFit
CHECK_DEADLOCK FALSE
