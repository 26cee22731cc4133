\* Three statements a crash breaks; TLC reports the first one it meets, so leave
\* one of them in at a time.
SPECIFICATION Spec
CONSTANTS
  t1 = t1  t2 = t2  t3 = t3  t4 = t4  a1 = a1  a2 = a2
  Front = Front  Back = Back  AnyTeam = AnyTeam
  NoTask = NoTask  NoAgent = NoAgent  Lead = Lead
  Tasks = {t1, t2}
  Agents = {a1}
  Deps <- PairDeps
  Target <- AllFront
  Team <- FrontTeam
  MaxRevisions = 2
  NoChangeCap = 2
  MaxRounds = 3
  MaxRestarts = 1
  MaxOverlaps = 0
  Cancels = FALSE
INVARIANTS
  PlanIsWhole FailureReachesDependents PoolTasksAreFree

CHECK_DEADLOCK FALSE
