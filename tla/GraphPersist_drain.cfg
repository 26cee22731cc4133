SPECIFICATION Spec
CONSTANTS
  w1 = w1  w2 = w2
  Main = main
  Workers = {w1, w2}
  Beat = beat
  Daemon = daemon
  Free = free
  MaxMutations = 2
  MaxUpdates = 2
  MaxRounds = 1
  MaxFaults = 1
INVARIANT DrainFindsNoWrite
CHECK_DEADLOCK FALSE
