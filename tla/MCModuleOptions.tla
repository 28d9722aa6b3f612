-------------------------- MODULE MCModuleOptions ---------------------------
(* Instances of ModuleOptions for TLC. *)
EXTENDS ModuleOptions

CONSTANTS s1, s2

(* Every type with every list of channels, on one server.                   *)
Typed ==
  LET Types == {"single", "cluster", "sentinel", Unset}
      Lists == {Unset, {}, {"chat-bot"}, {"chat-bot", "Chat"}}
      Both  == [host |-> s1, nodes |-> s1]
  IN  {[type |-> t, channels |-> c, redisOptions |-> Both] : t \in Types, c \in Lists}
        \cup {[channels |-> c, redisOptions |-> Both, consumer |-> Both] : c \in Lists}

(* Every combination of addresses, and fields left out altogether.          *)
Addressed ==
  LET Cases == {[host |-> s1, path |-> s2, nodes |-> s2], [url |-> s2, host |-> s1],
                [nodes |-> s1], [port |-> s1], Unset}
  IN  {[type |-> t, redisOptions |-> main, producer |-> a, consumer |-> b] :
         t \in {"single", "cluster"}, main \in {[host |-> s1, nodes |-> s2]}, a \in Cases, b \in Cases}
        \cup {[redisOptions |-> main] : main \in Cases}
        \cup {[f \in {} |-> Unset]}

(* A callback, which may throw once a client is open.                       *)
Observed ==
  {[redisOptions |-> [host |-> s1], producer |-> a, onClientCreated |-> c] :
     a \in {[path |-> s2], Unset}, c \in {"returns", "throws", Unset}}

AllOptions == Typed \cup Addressed \cup Observed

(* A cluster never gives up by default, a single client when told so.       *)
NeverGivesUp == {o \in AllOptions : TypeOf(o) = "cluster"} \cup Observed
=============================================================================
