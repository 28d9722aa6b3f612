---------------------------- MODULE MCRedisCache ----------------------------
(* Instances of RedisCache for TLC: k1 has one writer, k2 has two. *)
EXTENDS RedisCache, TLC

CONSTANTS c1, c2, k1, k2, f, g, text, scalar

Short == {-1, 2}

OneShared == [k \in Keys |-> IF k = k1 THEN {c1} ELSE {c1, c2}]
(* Fields are alike, and no property tells them apart. *)
Alike == Permutations(Fields)

OneCaller == [k \in Keys |-> {c1}]
=============================================================================
