--------------------------- MODULE MCNextnoCache ---------------------------
(* Instances of NextnoCache for TLC. *)
EXTENDS NextnoCache, TLC

CONSTANTS c1, c2

AnyOrder == Permutations(Callers)
=============================================================================
