SPECIFICATION FairSpec
CONSTANTS
  c1 = c1  c2 = c2
  Reaper = Reaper  Nobody = Nobody
  Agents = {blogger}
  Callers = {c1, c2}
  Threshold = 0
  Faults = {"up", "down", "inspect", "raise"}
  MaxBoots = 2
  MaxTime = 1
  MaxCalls = 3
  MaxFaults = 1
  MaxRestarts = 1
INVARIANT WarmHandleIsReal
PROPERTY IdleIsReaped
CHECK_DEADLOCK FALSE
