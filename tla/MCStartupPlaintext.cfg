\* A plaintext password beside a hash.
CONSTANTS
    u1 = u1
    u2 = u2
    p1 = p1
    p2 = p2
    k1 = k1
    k2 = k2
    Blank = Blank
    Malformed = Malformed
    Unreadable = Unreadable
    None = None
    Users = {u1}
    Passwords = {p1}
    Secrets = {k1}
    MaxStarts = 1
    MaxEdits = 0
SPECIFICATION Spec
SYMMETRY MCSymmetry
INVARIANTS PlaintextRejected
CHECK_DEADLOCK FALSE
