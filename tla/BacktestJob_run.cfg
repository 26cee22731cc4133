SPECIFICATION FairSpec
CONSTANTS
  MaxAttempts = 3
  LastMayCrash = FALSE
  MaxFaults = 2
INVARIANT CompletedHasRecord
PROPERTIES CancellationStands JobSettles
CHECK_DEADLOCK FALSE
