\* Every combination of variables and files, two starts, one changed file.
CONSTANTS
    u1 = u1
    u2 = u2
    p1 = p1
    p2 = p2
    k1 = k1
    k2 = k2
    Blank = Blank
    Malformed = Malformed
    Unreadable = Unreadable
    None = None
    Users = {u1, u2}
    Passwords = {p1, p2}
    Secrets = {k1, k2}
    MaxStarts = 2
    MaxEdits = 1
SPECIFICATION Spec
SYMMETRY MCSymmetry
INVARIANTS TypeOK LoginsAreConfigured SomeoneCanLogIn SessionsSurvive
CHECK_DEADLOCK FALSE
