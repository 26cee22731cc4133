SPECIFICATION Spec
CONSTANTS
    c1 = c1
    c2 = c2
    c3 = c3
    j1 = j1
    j2 = j2
    NoCaller = NoCaller
    Callers <- CallerSet
    JobIds <- OneJob
    Requests <- ReuseRequests
    UniqueIds = FALSE
    Stale = 1
    MaxTime = 0
    MaxCalls = 4
SYMMETRY Callers3
INVARIANT GuardedAnswerTrue
CHECK_DEADLOCK FALSE
