SPECIFICATION Spec
CONSTANTS
  t1 = t1  t2 = t2  t3 = t3  t4 = t4  a1 = a1  a2 = a2
  Front = Front  Back = Back  AnyTeam = AnyTeam
  NoTask = NoTask  NoAgent = NoAgent  Lead = Lead
  Tasks = {t1, t2, t3}
  Agents = {a1}
  Deps <- Chain3Deps
  Target <- AllFront
  Team <- FrontTeam
  MaxRevisions = 2
  NoChangeCap = 2
  MaxRounds = 5
  MaxRestarts = 0
  MaxOverlaps = 0
  Cancels = FALSE
INVARIANTS
  OutcomeMeansSettled

CHECK_DEADLOCK FALSE
