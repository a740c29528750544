\* DistributedRateLimit: two instances, Limit=2, WindowMs=2, Delays={1}.
CONSTANTS
    g1 = g1
    g2 = g2
    Instances <- MC_Instances
    Limit = 2
    WindowMs = 2
    Delays = {1}
    MaxTime = 4
    MaxCalls = 3
    MaxTicks = 4
SPECIFICATION Spec
SYMMETRY InstanceSymmetry
INVARIANT WindowLimit
