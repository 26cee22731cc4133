\* Two clients answer the same pause, each in a valid batch of its own.
SPECIFICATION Spec
CONSTANTS
  c1 = c1
  c2 = c2
  yes = yes
  no = no
  a1 = a1
  a2 = a2
  Attempts = {a1}
  Clients = {c1, c2}
  EntryQs = {scope}
  RaisedQs = {schema}
  Choices = {yes, no}
  Team = 1
  MaxRounds = 1
  MaxTaskRevisions = 2
  MaxCalls = 2
  MaxFaults = 0
  MaxLost = 0
INVARIANT OneDecisionPerQuestion
