SPECIFICATION FairSpec
CONSTANTS
  MaxAttempts = 3
  LastMayCrash = TRUE
  MaxFaults = 3
PROPERTY JobSettles
CHECK_DEADLOCK FALSE
