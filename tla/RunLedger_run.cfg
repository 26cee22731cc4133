SPECIFICATION Spec
CONSTANTS
  c1 = c1  c2 = c2
  Callers = {c1, c2}
  Keys = {k1}
  Bodies = {b1, b2}
  Lease = 1
  Ttl = 1
  SideEffecting = FALSE
  MaxClaims = 3
  MaxTime = 3
  MaxFaults = 2
SYMMETRY CallerSymmetry
INVARIANTS ReplaysAreTheRunsOwn LeaseGuardsRun
PROPERTY StoredAnswerStands
CHECK_DEADLOCK FALSE
