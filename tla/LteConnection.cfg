\* Up and down in any steps, with calls failing and the modem restarting.
SPECIFICATION FairSpec
CONSTANTS
  Sessions    = {1, 2}
  MaxFaults   = 2
  MaxRestarts = 2
INVARIANTS TypeOK BringUpReached TearDownReached BeliefRight
PROPERTIES WaitEndsAfterBoot FinGoesNoFurther ReturnsIfRegistered
