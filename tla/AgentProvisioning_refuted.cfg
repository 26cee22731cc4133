\* Four statements the code does not keep; TLC reports the first one it meets,
\* so leave one of them in at a time.
SPECIFICATION Spec
CONSTANTS
  jobA = jobA  jobB = jobB  teardown = teardown  w1 = w1  w2 = w2
  NoRun = NoRun  NoWorker = NoWorker
  Provisioners <- OneJob
  Deprovisioners <- OneTeardown
  Workers <- TwoWorkers
  TTL = 1
  MaxTime = 3
  MaxToken = 3
  MaxStray = 1
SYMMETRY SameWorkers
INVARIANTS DeliveryHasEnvironment NobodyElseBegins
PROPERTIES SupersededWritesRefused MarkNeverFalls
CHECK_DEADLOCK FALSE
