\* A timed-out attempt that runs on replaces the pause the workflow waits on.
SPECIFICATION Spec
CONSTANTS
  c1 = c1
  c2 = c2
  yes = yes
  no = no
  a1 = a1
  a2 = a2
  Attempts = {a1, a2}
  Clients = {c1}
  EntryQs = {scope}
  RaisedQs = {schema}
  Choices = {yes}
  Team = 1
  MaxRounds = 1
  MaxTaskRevisions = 2
  MaxCalls = 2
  MaxFaults = 1
  MaxLost = 0
INVARIANT LiveTokenHeeded
