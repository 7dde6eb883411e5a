\* The whole logger.  It stops when gnss_initialize fails.
SPECIFICATION FairSpec
CONSTANTS
  Positions  = {p1, p2}
  NoPosition = none
  MaxFaults  = 2
INVARIANT ReportsAMeasurement
PROPERTY KeepsReporting
CHECK_DEADLOCK FALSE
