\* A worker that keeps escalating, answered every time.
SPECIFICATION Spec
CONSTANTS
  c1 = c1
  c2 = c2
  yes = yes
  no = no
  a1 = a1
  a2 = a2
  Attempts = {a1}
  Clients = {c1}
  EntryQs = {}
  RaisedQs = {schema}
  Choices = {yes}
  Team = 1
  MaxRounds = 1
  MaxTaskRevisions = 2
  MaxCalls = 3
  MaxFaults = 0
  MaxLost = 0
INVARIANT EscalationsCapped
