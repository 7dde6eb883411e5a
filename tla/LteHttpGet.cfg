\* Two restarts of the modem, two recovery threads, two failing calls.
SPECIFICATION FairSpec
CONSTANTS
  Sessions    = {1, 2}
  Threads     = {t1, t2}
  MaxRestarts = 2
  MaxFaults   = 2
INVARIANTS TypeOK CallbackNotBlocked StartWillBeReported HoldsActiveSession LeavesModemOff
PROPERTIES WaitedForModem MainEnds RecoveryReattaches
\* The program ends.
CHECK_DEADLOCK FALSE
