\* Three requests, a service of two targets under any balancer kind, breaker
\* enabled, TimeoutHandler on, a quota of three per key, a store that can fail.
\* Each request is served once, after which the gateway idles: no deadlock
\* check.
CONSTANTS
    r1 = r1
    r2 = r2
    r3 = r3
    Reqs <- MC_Reqs
    Kinds <- MC_Kinds
    WeightsArg <- MC_Weights
    CORSEnabled = TRUE
    RateLimitEnabled = TRUE
    FailureThreshold = 2
    HalfOpenRequests = 1
    RecoveryTimeout = 1
    MaxTime = 1
    MaxCalls = 3
    N = 2
    Configured = {"round_robin", "weighted_round_robin", "least_connections", "random"}
    MaxSelections = 3
    Limit = 3
    StoreErrors = TRUE
    BreakerEnabled = TRUE
    UpstreamTimeout = TRUE
    Outcomes = {"ok", "refused", "slow", "cut"}
SPECIFICATION Spec
SYMMETRY ReqSymmetry
CHECK_DEADLOCK FALSE
INVARIANT TypeOK
INVARIANT AuthGate
INVARIANT UnhealthyOnlyAfterFailure
PROPERTY NoSpurious503
