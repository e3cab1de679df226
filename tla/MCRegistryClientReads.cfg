\* Two reads, by a session with its own credentials and by everybody else, on a tag
\* that moves from one of two images to the other, and a clock that ticks while they
\* wait: fills that are slow, overtaken, hit at the last moment, expired or evicted.
CONSTANTS
    t1 = t1
    image = image
    other = other
    index = index
    config = config
    config2 = config2
    r1 = r1
    r2 = r2
    r3 = r3
    ann = ann
    shared = shared
    None = None
    Tags = {t1}
    Digests = {image, other}
    Indexes = {}
    ConfigOf <- MCConfigOf
    Requests = {r1, r2}
    Users = {ann}
    Shared = shared
    Ops = {"page", "tags"}
    MaxSize = 2
    CacheTTL = 1
    BlobTTL = 2
    MaxTime = 2
    MaxPushes = 1
    MaxCrashes = 0
SPECIFICATION Spec
SYMMETRY MCSymmetry
INVARIANTS TypeOK Staleness Isolation ConfigMatches
CHECK_DEADLOCK FALSE
