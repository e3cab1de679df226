---------------------------- MODULE MCBearerAuth ----------------------------
(* BearerAuth with two requests.                                            *)
EXTENDS BearerAuth

CONSTANTS r1, r2, s1, s2

=============================================================================
