SPECIFICATION Spec
CONSTANTS
  jobA = jobA  jobB = jobB  teardown = teardown  w1 = w1  w2 = w2
  NoRun = NoRun  NoWorker = NoWorker
  Provisioners <- OneJob
  Deprovisioners <- OneTeardown
  Workers <- TwoWorkers
  TTL = 1
  MaxTime = 2
  MaxToken = 2
  MaxStray = 1
SYMMETRY SameWorkers
INVARIANTS TokensNameOneOwner OneLeaseHolder HolderIsAccepted
PROPERTY OwnMarkNeverFalls
CHECK_DEADLOCK FALSE
