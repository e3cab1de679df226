\* Two deletes by tag or by digest, or a delete and a read, racing with each
\* other, with a push and with a restart; answers that never come.
CONSTANTS
    t1 = t1
    image = image
    other = other
    index = index
    config = config
    config2 = config2
    r1 = r1
    r2 = r2
    r3 = r3
    ann = ann
    shared = shared
    None = None
    Tags = {t1}
    Digests = {image, index}
    Indexes = {index}
    ConfigOf <- MCConfigOf
    Requests = {r1, r2}
    Users = {}
    Shared = shared
    Ops = {"page", "config", "tags", "delete"}
    MaxSize = 2
    CacheTTL = 1
    BlobTTL = 2
    MaxTime = 0
    MaxPushes = 1
    MaxCrashes = 1
SPECIFICATION FairSpec
INVARIANTS AuditExact DeletesWhatTagNamed
PROPERTIES Answers
CHECK_DEADLOCK FALSE
