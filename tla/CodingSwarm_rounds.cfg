SPECIFICATION Spec
CONSTANTS
  t1 = t1  t2 = t2  t3 = t3  t4 = t4  a1 = a1  a2 = a2
  Front = Front  Back = Back  AnyTeam = AnyTeam
  NoTask = NoTask  NoAgent = NoAgent  Lead = Lead
  Tasks = {t1, t2, t3, t4}
  Agents = {a1, a2}
  Deps <- ChainAndOneDeps
  Target <- ThirdBack
  Team <- FrontTeam
  MaxRevisions = 2
  NoChangeCap = 2
  MaxRounds = 12
  MaxRestarts = 0
  MaxOverlaps = 0
  Cancels = TRUE
INVARIANTS
  PoolTasksAreFree FailureReachesDependents OutcomeMeansSettled
  RevisionsBounded

CHECK_DEADLOCK FALSE
