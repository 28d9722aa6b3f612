---------------------------- MODULE MessageLock ----------------------------
(***************************************************************************)
(* What RedisMQService promises of its per-message lock: a key has at most *)
(* one owner, only an owner runs handlers, and ownership ends only after   *)
(* the owner has left.  An owner that never enters (an instance without    *)
(* handlers) and one that leaves by dying are allowed.                      *)
(***************************************************************************)
CONSTANTS Keys, Clients, None

VARIABLES
  owner,   \* the client that owns each key
  inside   \* the clients that are running handlers

vars == <<owner, inside>>

Init ==
  /\ owner = [key \in Keys |-> None]
  /\ inside = {}

Acquire(key, c) ==
  /\ owner[key] = None
  /\ owner' = [owner EXCEPT ![key] = c]
  /\ UNCHANGED inside

Enter(key, c) ==
  /\ owner[key] = c
  /\ c \notin inside
  /\ inside' = inside \cup {c}
  /\ UNCHANGED owner

(* Clients leave: one that has finished, or all those of a dead process.    *)
Leave ==
  /\ inside' \subseteq inside
  /\ inside' # inside
  /\ UNCHANGED owner

(* Keys are deleted or expire, several at one tick of the clock, but none   *)
(* whose owner is inside.                                                   *)
Release ==
  \E K \in (SUBSET Keys) \ {{}} :
    /\ \A key \in K : owner[key] \notin inside
    /\ owner' = [key \in Keys |-> IF key \in K THEN None ELSE owner[key]]
    /\ UNCHANGED inside

Next ==
  \/ \E key \in Keys, c \in Clients : Acquire(key, c) \/ Enter(key, c)
  \/ Leave
  \/ Release

Spec == Init /\ [][Next]_vars
=============================================================================
