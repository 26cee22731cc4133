SPECIFICATION Spec
CONSTANTS
  c1 = c1  c2 = c2
  Reaper = Reaper  Nobody = Nobody
  Agents = {blogger}
  Callers = {c1, c2}
  Threshold = 0
  Faults = {}
  MaxBoots = 2
  MaxTime = 1
  MaxCalls = 3
  MaxFaults = 0
  MaxRestarts = 0
PROPERTY ReapsOnlyIdle
CHECK_DEADLOCK FALSE
