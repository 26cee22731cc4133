SPECIFICATION Spec
CONSTANTS
  c1 = c1  c2 = c2
  Callers = {c1, c2}
  Keys = {k1}
  Bodies = {b1}
  Lease = 1
  Ttl = 1
  SideEffecting = FALSE
  MaxClaims = 2
  MaxTime = 2
  MaxFaults = 0
PROPERTY StartsAreGuarded
CHECK_DEADLOCK FALSE
