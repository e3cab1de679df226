\* A tag list, a delete, the tag list again.
CONSTANTS
    t1 = t1
    image = image
    other = other
    index = index
    config = config
    config2 = config2
    r1 = r1
    r2 = r2
    r3 = r3
    ann = ann
    shared = shared
    None = None
    Tags = {t1}
    Digests = {image}
    Indexes = {}
    ConfigOf <- MCConfigOf
    Requests = {r1, r2, r3}
    Users = {}
    Shared = shared
    Ops = {"tags", "delete"}
    MaxSize = 2
    CacheTTL = 2
    BlobTTL = 3
    MaxTime = 1
    MaxPushes = 0
    MaxCrashes = 0
SPECIFICATION Spec
SYMMETRY MCSymmetry
INVARIANTS DeletedTagGone
CHECK_DEADLOCK FALSE
