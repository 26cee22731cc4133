SPECIFICATION Spec
CONSTANTS
    c1 = c1
    c2 = c2
    c3 = c3
    j1 = j1
    j2 = j2
    NoCaller = NoCaller
    Callers <- CallerSet
    JobIds <- TwoJobs
    Requests <- MixedRequests
    UniqueIds = TRUE
    Stale = 1
    MaxTime = 2
    MaxCalls = 4
SYMMETRY Callers3
INVARIANTS GuardedAnswerTrue CancelHolds NoLostAppend CounterValuesDistinct
CHECK_DEADLOCK FALSE
