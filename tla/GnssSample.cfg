\* Both samples, counting four measurements, with up to three failing calls.
SPECIFICATION FairSpec
CONSTANTS
  Period    = 4
  MaxFaults = 3
INVARIANTS TypeOK PrintedSeldom CountsSeconds LeavesReceiverOff
PROPERTY SampleEnds
\* The program ends.
CHECK_DEADLOCK FALSE
