----------------------------- MODULE MCStartup -----------------------------
(* Startup with one value inline and another in the file, of each kind.     *)
EXTENDS Startup, TLC

CONSTANTS u1, u2, p1, p2, k1, k2

MCSymmetry == Permutations(Users) \cup Permutations(Passwords) \cup Permutations(Secrets)

=============================================================================
