SPECIFICATION Spec
CONSTANTS
  MaxAttempts = 3
  LastMayCrash = FALSE
  MaxFaults = 1
INVARIANT OneDispatch
CHECK_DEADLOCK FALSE
