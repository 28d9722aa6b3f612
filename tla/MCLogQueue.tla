---------------------------- MODULE MCLogQueue ------------------------------
(* Instances of LogQueue for TLC. *)
EXTENDS LogQueue

CONSTANTS p, c1, c2

(* One queue; the producer passes its full name.                            *)
Short    == {<<"a">>}
Full     == {<<"log:", "a">>}
KeepLast == {<<-1, -1>>}
=============================================================================
