SPECIFICATION CancelSpec
CONSTANTS
  c1 = c1  c2 = c2
  Reaper = Reaper  Nobody = Nobody
  Agents = {blogger}
  Callers = {c1, c2}
  Threshold = 0
  Faults = {"cancel"}
  MaxBoots = 2
  MaxTime = 1
  MaxCalls = 3
  MaxFaults = 1
  MaxRestarts = 0
INVARIANT WarmHandleIsReal
CHECK_DEADLOCK FALSE
