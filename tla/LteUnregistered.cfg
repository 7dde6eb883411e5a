\* One failing call is enough for a wait without end.
SPECIFICATION FairSpec
CONSTANTS
  Sessions    = {1}
  MaxFaults   = 1
  MaxRestarts = 0
PROPERTY CallsReturn
