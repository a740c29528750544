\* Concurrent callers against one breaker: threshold 2, budget 2, timeout 2.
CONSTANTS
    r1 = r1
    r2 = r2
    r3 = r3
    Reqs <- MC_Reqs
    FailureThreshold = 2
    HalfOpenRequests = 2
    RecoveryTimeout = 2
    MaxTime = 6
    MaxCalls = 7
SPECIFICATION Spec
SYMMETRY ReqSymmetry
INVARIANT TypeOK
INVARIANT HalfOpenProbeBudget
PROPERTY ProbesDecideRecovery
PROPERTY BreakerRefinement
