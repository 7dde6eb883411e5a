\* One restart by itself, whose callback is slow, is enough to end a later wait.
SPECIFICATION Spec
CONSTANTS
  Sessions    = {1}
  MaxFaults   = 0
  MaxRestarts = 1
PROPERTY WaitsForStartup
