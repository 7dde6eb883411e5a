\* Any documented use of gnss.c, started and finished again and again.
SPECIFICATION ApiSpec
CONSTANTS
  Positions  = {p1, p2}
  NoPosition = none
  MaxFaults  = 2
INVARIANTS GnssTypeOK InitAllOrNothing HandedOutAtMostTwice
\* A caller that waits for a position after gnss_stop waits for ever.
CHECK_DEADLOCK FALSE
