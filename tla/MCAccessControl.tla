--------------------------- MODULE MCAccessControl ---------------------------
(* AccessControl with two overlapping requests.                             *)
EXTENDS AccessControl, TLC

CONSTANTS b1, b2, q1, q2, root, ann, bob

MCSymmetry == Permutations(Requests) \cup Permutations(Browsers) \cup Permutations(RegUsers)

=============================================================================
