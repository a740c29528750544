\* RateLimiter: every in-process algorithm, Requests=2 per Window=2 s,
\* Burst=1, a clock of half seconds up to 2.5 s.
CONSTANTS
    Configured = {"token_bucket", "sliding_window", "fixed_window"}
    Requests = 2
    Window = 2
    Burst = 1
    TicksPerSecond = 2
    Callers = {c1, c2}
    MaxTime = 5
    MaxCalls = 5
SPECIFICATION Spec
SYMMETRY CallerSymmetry
INVARIANT TypeOK
INVARIANT TokenBucketRate
PROPERTY SlidingWindowExact
PROPERTY FixedWindowExact
