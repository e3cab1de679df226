-------------------------- MODULE MCRegistryClient --------------------------
(* RegistryClient on one tag, two images or an image and an index, and two  *)
(* or three overlapping handler calls.                                      *)
EXTENDS RegistryClient, TLC

CONSTANTS t1, image, other, index, config, config2, r1, r2, r3, ann, shared

MCConfigOf == (image :> config) @@ (other :> config2)
MCSymmetry == Permutations(Requests)

=============================================================================
