\* The protocol against the abstract pause, liveness included.
SPECIFICATION FairSpec
CONSTANTS
  c1 = c1
  c2 = c2
  yes = yes
  no = no
  a1 = a1
  a2 = a2
  Attempts = {a1}
  Clients = {c1, c2}
  EntryQs = {scope}
  RaisedQs = {schema}
  Choices = {yes}
  Team = 2
  MaxRounds = 2
  MaxTaskRevisions = 2
  MaxCalls = 3
  MaxFaults = 2
  MaxLost = 0
PROPERTY ImplementsPauseProtocol
