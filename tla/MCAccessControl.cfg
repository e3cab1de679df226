\* One browser with two overlapping requests, across two restarts: the mode
\* flipped and flipped back, the secret rotated.
CONSTANTS
    b1 = b1
    b2 = b2
    q1 = q1
    q2 = q2
    root = root
    ann = ann
    bob = bob
    None = None
    Browsers = {b1}
    Requests = {q1, q2}
    Admin = root
    RegUsers = {ann}
    MaxRestarts = 2
SPECIFICATION Spec
SYMMETRY MCSymmetry
INVARIANTS TypeOK DeleteAuthorized RefusalsHelp StaysOut CredentialsReadable
PROPERTIES Orthogonal
CHECK_DEADLOCK TRUE
