\* Two clients share the stack with the sensor thread, under fairness.
CONSTANTS
  main = main
  aux = aux
  b1 = b1
  Readers = {main, aux}
  Calibrators = {main}
  ImuThread = imu
  Nobody = nobody
  StackSize = 2
  CalibSize = 1
  TableLength = 1
  MaxFrames = 1
  Batches = {b1}
  NoBatch = none
SPECIFICATION FairSpec
INVARIANTS TypeOK RoomWhenWriting CalibrationHasSamples
PROPERTIES ImplementsLog AcceptedIsStored CalibrationReturns
\* calibrate_bmi270 sleeps for ever once the sensor thread has ended.
CHECK_DEADLOCK FALSE
