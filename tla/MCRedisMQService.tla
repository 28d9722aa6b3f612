-------------------------- MODULE MCRedisMQService --------------------------
(* Instances of RedisMQService for TLC: who is configured how. *)
EXTENDS RedisMQService, TLC

CONSTANTS p1, p2, p3, c1, c2, h1, h2, h3

Peers == Permutations({p2, p3})

AllSupport    == [p \in Instances |-> Channels]
FirstChannel  == [p \in Instances |-> IF p = p1 THEN Channels ELSE {c1}]
OneServer     == [key \in Keys |-> 0]
NodePerChannel == [key \in Keys |-> key[1]]
NoMicro       == [p \in Instances |-> FALSE]
MicroFirst    == [p \in Instances |-> p = p1]

OneHandler    == [p \in Instances |-> [c \in Channels |-> <<h1>>]]
TwoHandlers   == [p \in Instances |-> [c \in Channels |-> <<h1, h2>>]]
FirstHasNone  == [p \in Instances |-> [c \in Channels |->
                    IF p = p1 THEN <<>> ELSE <<h1>>]]
=============================================================================
