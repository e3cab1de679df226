\* Two requests of one kind or of two, overlapping or one after the other, of a kind
\* that a scope is guessed for and of one that none is; tokens of one or two ticks
\* with a grace of one; a change of the registry's service name; answers that never
\* come.
CONSTANTS
    r1 = r1
    r2 = r2
    s1 = s1
    s2 = s2
    None = None
    Requests = {r1, r2}
    Ops = {"pull", "referrers"}
    Services = {s1, s2}
    FirstName = s1
    TTLs = {1, 2}
    Grace = 1
    MaxTime = 2
    MaxRenames = 1
SPECIFICATION FairSpec
INVARIANTS TypeOK AttachedAlive NoNeedless401 SkipsDance
PROPERTIES Answers
CHECK_DEADLOCK FALSE
