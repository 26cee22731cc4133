\* Two statements the code does not keep; leave one of them in at a time.
SPECIFICATION Spec
CONSTANTS
  MaxAttempts = 3
  LastMayCrash = FALSE
  MaxFaults = 1
INVARIANT CompletedKeepsRecord
PROPERTY CompletionStands
CHECK_DEADLOCK FALSE
