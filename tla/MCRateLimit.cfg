\* A burst of one and a half tokens, the shortest ttl allowed, a sweep every
\* other tick.
SPECIFICATION LiveSpec
CONSTANTS
    Addrs <- MCAddrs
    Cost = 2
    Burst = 3
    TTL = 3
    MaxBuckets = 2
    Interval = 2
    MaxTime = 6
INVARIANTS
    TypeOK
    RateBound
PROPERTIES
    EvictionInvisible
    IdleSwept
CHECK_DEADLOCK FALSE
