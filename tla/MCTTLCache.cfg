\* A cache of two places and three keys: full after two insertions, so that
\* eviction of live and of expired items, and overwriting, all happen.
CONSTANTS
    k1 = k1
    k2 = k2
    k3 = k3
    v1 = v1
    v2 = v2
    None = None
    Keys <- MCKeys
    Values <- MCValues
    TTLs <- MCTTLs
    MaxSize = 2
    MaxTime = 4
SPECIFICATION Spec
SYMMETRY MCSymmetry
INVARIANTS TypeOK FifoRetention HitIsLastSet
PROPERTIES EvictionSparesLive PromiseSpec
CHECK_DEADLOCK TRUE
