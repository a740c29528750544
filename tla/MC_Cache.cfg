\* Cache: LRUCache, MemoryCache and RedisCache, 2 keys, 2 values, LRU capacity 1, default TTL 2, clock to 2, 6 calls.
CONSTANTS
    k1 = k1
    k2 = k2
    v1 = v1
    v2 = v2
    HeadN = HeadN
    TailN = TailN
    Nil = Nil
    NoEntry = NoEntry
    NoRead = NoRead
    Miss = Miss
    Hit = Hit
    Fail = Fail
    Keys <- MC_Keys
    Values <- MC_Values
    TTLs <- MC_TTLs
    Impls = {"lru", "memory", "redis"}
    Capacity = 1
    DefaultTTL = 2
    MaxTime = 2
    MaxOps = 6
SPECIFICATION FairSpec
CHECK_DEADLOCK FALSE
INVARIANT TypeOK
 
PROPERTY CacheRefinement
PROPERTY ExpiredEventuallyDropped
