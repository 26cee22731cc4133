\* Two clients race; attempts fail and are retried, or are timed out and run on.
SPECIFICATION Spec
CONSTANTS
  c1 = c1
  c2 = c2
  yes = yes
  no = no
  a1 = a1
  a2 = a2
  Attempts = {a1, a2}
  Clients = {c1, c2}
  EntryQs = {scope}
  RaisedQs = {schema}
  Choices = {yes}
  Team = 2
  MaxRounds = 2
  MaxTaskRevisions = 2
  MaxCalls = 2
  MaxFaults = 2
  MaxLost = 1
SYMMETRY Renaming
INVARIANTS
  ActivePauseIsRecorded
  OnlyStragglersWork
  InTimeAnswersDecide
  EntryQuestionsDecided
PROPERTIES
  PauseLeftOnlyBySignal
  PauseNotReplaced
