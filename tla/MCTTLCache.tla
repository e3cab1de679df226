----------------------------- MODULE MCTTLCache -----------------------------
(* TTLCache on three keys, a cache of two items, a short and a long TTL.   *)
EXTENDS TTLCache, TLC

CONSTANTS k1, k2, k3, v1, v2

MCKeys == {k1, k2, k3}
MCValues == {v1, v2}
MCTTLs == {1, 3}
MCSymmetry == Permutations(MCKeys) \cup Permutations(MCValues)

=============================================================================
