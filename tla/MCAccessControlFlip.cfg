\* The mode flipped and flipped back: the changelog's claim on sessions.
CONSTANTS
    b1 = b1
    b2 = b2
    q1 = q1
    q2 = q2
    root = root
    ann = ann
    bob = bob
    None = None
    Browsers = {b1}
    Requests = {q1, q2}
    Admin = root
    RegUsers = {ann}
    MaxRestarts = 2
SPECIFICATION Spec
SYMMETRY MCSymmetry
INVARIANTS FlipForcesLogin
CHECK_DEADLOCK TRUE
