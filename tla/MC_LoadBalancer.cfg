\* LoadBalancer: 3 targets, two callers, policies {"round_robin", "weighted_round_robin", "least_connections", "random"}.
CONSTANTS
    c1 = c1
    c2 = c2
    Callers <- MC_Callers
    WeightsArg <- MC_Weights
    N = 3
    Configured = {"round_robin", "weighted_round_robin", "least_connections", "random"}
    MaxSelections = 6
    MaxReleases = 2
SPECIFICATION Spec
SYMMETRY CallerSymmetry
INVARIANT TypeOK
INVARIANT WeightedFair
PROPERTY HealthExclusion
