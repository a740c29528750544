\* DistributedRateLimit: two instances, Limit=2, WindowMs=2, Delays={1, 1999}.
CONSTANTS
    g1 = g1
    g2 = g2
    Instances <- MC_Instances
    Limit = 2
    WindowMs = 2
    Delays = {1, 1999}
    MaxTime = 4000
    MaxCalls = 4
    MaxTicks = 4
SPECIFICATION Spec
SYMMETRY InstanceSymmetry
INVARIANT TypeOK
PROPERTY ExpiryKeepsLiveEntries
