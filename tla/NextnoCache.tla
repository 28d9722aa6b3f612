---------------------------- MODULE NextnoCache ----------------------------
(***************************************************************************)
(* lib/services/nextno.service.ts: consecutive numbers of one business     *)
(* type, kept ahead of demand in a Redis list.                             *)
(*                                                                         *)
(* A caller is one flow of calls in one application process.  The state of *)
(* a call is the command it awaits; each action is one command, run by     *)
(* Redis, and the code up to the next await.  Commands of different        *)
(* callers interleave: the service takes no lock.                          *)
(***************************************************************************)
EXTENDS Naturals, Sequences, FiniteSets, SequencesExt, FiniteSetsExt

CONSTANTS
  Callers,      \* flows of calls
  LowMark,      \* precheck refills a list shorter than this (20)
  AutoExtends,  \* increaseUnos leaves a list longer than this alone (50)
  Batch,        \* the default of increaseUnos's batch parameter (1000)
  Batches,      \* the values the application passes for it
  Hashes,       \* values the application passes to setHash
  MaxCalls,     \* bound on the number of calls
  MaxCrashes,   \* bound on the number of crashes
  MaxResends,   \* bound on the number of commands ioredis sends again
  None          \* the hash has no field for the business type

ASSUME ConfigAssumption ==
  /\ LowMark \in Nat /\ AutoExtends \in Nat /\ Batch \in Nat \ {0}
  /\ Batches \subseteq Nat \ {0}
  /\ Hashes \subseteq Nat
  /\ MaxCalls \in Nat /\ MaxCrashes \in Nat /\ MaxResends \in Nat
  /\ None \notin Nat

VARIABLES
  ready,    \* isRedisReady of each caller's process
  nos,      \* the list nextno:<type>:nos
  hash,     \* the field <type> of nohash:current
  pc,       \* the command each caller awaits
  wants,    \* callers that are in getNextno, which goes on to LPOP
  start,    \* increaseUnos: the first number to push
  len,      \* increaseUnos: how many to push
  served,   \* history: the answers to LPOP that became results, in order
  calls,    \* calls made so far
  crashes,  \* crashes so far
  resends   \* resends so far

local == <<pc, wants, start, len>>
count == <<calls, crashes, resends>>
vars  == <<ready, nos, hash, local, served, count>>

Commands == {"precheck", "llen", "rpop", "hexists", "hget", "rpush", "lpop"}

Init ==
  /\ ready = [c \in Callers |-> FALSE]
  /\ nos = <<>>
  /\ hash = None
  /\ pc = [c \in Callers |-> "idle"]
  /\ wants = {}
  /\ start = [c \in Callers |-> 0]
  /\ len = [c \in Callers |-> 0]
  /\ served = <<>>
  /\ calls = 0
  /\ crashes = 0
  /\ resends = 0

Goto(c, command) == pc' = [pc EXCEPT ![c] = command]

Run(first, count_) == [i \in 1..count_ |-> first + i - 1]

-----------------------------------------------------------------------------
(* onApplicationBootstrap: the ping was answered; if it is not, the process *)
(* does not start.                                                          *)
Bootstrap(c) ==
  /\ ~ ready[c]
  /\ ready' = [ready EXCEPT ![c] = TRUE]
  /\ UNCHANGED <<nos, hash, local, served, count>>

Called(c, command) ==
  /\ pc[c] = "idle"
  /\ calls < MaxCalls
  /\ calls' = calls + 1
  /\ Goto(c, command)

(* getNextno and precheck reject, and change nothing, before bootstrap.     *)
GetNextno(c) ==
  /\ ready[c]
  /\ Called(c, "precheck")
  /\ wants' = wants \cup {c}
  /\ UNCHANGED <<ready, nos, hash, start, len, served, crashes, resends>>

Precheck(c) ==
  /\ ready[c]
  /\ Called(c, "precheck")
  /\ UNCHANGED <<ready, nos, hash, wants, start, len, served, crashes, resends>>

(* increaseUnos is public and does not ask whether Redis is ready.          *)
IncreaseUnos(c, n) ==
  /\ Called(c, "llen")
  /\ len' = [len EXCEPT ![c] = n]
  /\ UNCHANGED <<ready, nos, hash, wants, start, served, crashes, resends>>

SetHash(v) ==
  /\ hash' = v
  /\ UNCHANGED <<ready, nos, local, served, count>>

-----------------------------------------------------------------------------
(* The end of precheck and of increaseUnos: getNextno goes on.              *)
Return(c) == Goto(c, IF c \in wants THEN "lpop" ELSE "idle")

Runs(c, command) ==
  /\ pc[c] = command
  /\ UNCHANGED <<ready, hash, count>>

Low == Len(nos) < LowMark
NeverFull == FALSE
Full == Len(nos) > AutoExtends

ExecPrecheck(c) ==
  /\ Runs(c, "precheck")
  /\ \/ Low /\ Goto(c, "llen") /\ len' = [len EXCEPT ![c] = Batch]
     \/ ~ Low /\ Return(c) /\ UNCHANGED len
  /\ UNCHANGED <<nos, wants, start, served>>

ExecLlen(c) ==
  /\ Runs(c, "llen")
  /\ \/ Full /\ Return(c)
     \/ ~ Full /\ nos # <<>> /\ Goto(c, "rpop")
     \/ ~ Full /\ nos = <<>> /\ Goto(c, "hexists")
  /\ UNCHANGED <<nos, wants, start, len, served>>

(* Push n numbers from first on.                                            *)
Fills(c, first, n) ==
  /\ Goto(c, "rpush")
  /\ start' = [start EXCEPT ![c] = first]
  /\ len' = [len EXCEPT ![c] = n]
  /\ UNCHANGED <<wants, served>>

(* The last number is taken off and pushed again before the new ones; 0 and *)
(* a list that another caller has emptied both count as none.               *)
FillsFromLast(c) ==
  IF nos # <<>> /\ Last(nos) > 0
  THEN Fills(c, Last(nos), len[c] + 1)
  ELSE Fills(c, 0, len[c])

WithoutLast == IF nos = <<>> THEN nos ELSE Front(nos)

ReadLast(c) ==
  /\ Runs(c, "rpop")
  /\ FillsFromLast(c)
  /\ UNCHANGED nos

AfterLast(c) ==
  /\ Runs(c, "rpop")
  /\ IF nos # <<>> THEN Fills(c, Last(nos) + 1, len[c]) ELSE Fills(c, 0, len[c])
  /\ nos' = WithoutLast

ExecRpop(c) ==
  /\ Runs(c, "rpop")
  /\ FillsFromLast(c)
  /\ nos' = WithoutLast

ExecHexists(c) ==
  /\ Runs(c, "hexists")
  /\ \/ hash # None /\ Goto(c, "hget") /\ UNCHANGED <<wants, start, len, served>>
     \/ hash = None /\ Fills(c, 0, len[c])
  /\ UNCHANGED nos

ExecHget(c) ==
  /\ Runs(c, "hget")
  /\ Fills(c, IF hash # None /\ hash > 0 THEN hash + 1 ELSE 0, len[c])
  /\ UNCHANGED nos

Pushed(c) == nos \o Run(start[c], len[c])

ExecRpush(c) ==
  /\ Runs(c, "rpush")
  /\ nos' = Pushed(c)
  /\ Return(c)
  /\ UNCHANGED <<wants, start, len, served>>

(* Number(null) is 0. *)
AnswerNothing(list) == IF list = <<>> THEN None ELSE Head(list)
Answer(list) == IF list = <<>> THEN 0 ELSE Head(list)

WithoutFirst == IF nos = <<>> THEN nos ELSE Tail(nos)

ExecLpop(c) ==
  /\ Runs(c, "lpop")
  /\ served' = Append(served, Answer(nos))
  /\ nos' = WithoutFirst
  /\ wants' = wants \ {c}
  /\ Goto(c, "idle")
  /\ UNCHANGED <<start, len>>

-----------------------------------------------------------------------------
(* The process dies and a new one takes its place; Redis keeps the list.    *)
Crash(c) ==
  /\ crashes < MaxCrashes
  /\ crashes' = crashes + 1
  /\ ready' = [ready EXCEPT ![c] = FALSE]
  /\ Goto(c, "idle")
  /\ wants' = wants \ {c}
  /\ UNCHANGED <<nos, hash, start, len, served, calls, resends>>

(* Redis runs the command, the connection breaks before the answer arrives, *)
(* and ioredis will send it again: its effect on the list comes twice.      *)
Resend(c) ==
  /\ resends < MaxResends
  /\ resends' = resends + 1
  /\ \/ pc[c] = "rpop"  /\ nos' = WithoutLast
     \/ pc[c] = "rpush" /\ nos' = Pushed(c)
     \/ pc[c] = "lpop"  /\ nos' = WithoutFirst
  /\ UNCHANGED <<ready, hash, local, served, calls, crashes>>

Sleep ==
  /\ \A c \in Callers : ready[c] /\ pc[c] = "idle"
  /\ UNCHANGED vars

-----------------------------------------------------------------------------
Command(c) ==
  \/ ExecPrecheck(c) \/ ExecLlen(c) \/ ExecRpop(c)
  \/ ExecHexists(c) \/ ExecHget(c) \/ ExecRpush(c) \/ ExecLpop(c)

Application(c) ==
  \/ Bootstrap(c) \/ GetNextno(c) \/ Precheck(c)
  \/ \E n \in Batches : IncreaseUnos(c, n)

Next ==
  \/ \E c \in Callers : Application(c) \/ Command(c) \/ Crash(c) \/ Resend(c)
  \/ \E v \in Hashes : SetHash(v)
  \/ Sleep

Spec == Init /\ [][Next]_vars

-----------------------------------------------------------------------------
(* Properties. *)

(* Every variable has its type: in particular getNextno answers a number    *)
(* also when other callers have emptied the list after its precheck.        *)
TypeOK ==
  /\ ready \in [Callers -> BOOLEAN]
  /\ nos \in Seq(Nat)
  /\ hash \in Nat \cup {None}
  /\ pc \in [Callers -> Commands \cup {"idle"}]
  /\ wants \subseteq Callers
  /\ start \in [Callers -> Nat]
  /\ len \in [Callers -> Nat]
  /\ served \in Seq(Nat)
  /\ calls \in Nat /\ crashes \in Nat /\ resends \in Nat

Counts(s) == \A i \in DOMAIN s : s[i] = s[1] + i - 1

Follows(s) == served # <<>> /\ s # <<>> => Head(s) = Last(served) + 1

(* The list as it will be after the RPUSH under way.                        *)
Ahead(c) == IF pc[c] = "rpush" THEN Pushed(c) ELSE nos

(* The inductive invariant of a single caller: the numbers in the list      *)
(* follow on from those served; once a number was served the list keeps so  *)
(* many that the crashes still to come cannot empty it, so a refill finds   *)
(* where to go on.  It holds until ioredis sends a command twice.           *)
Series(c) ==
  /\ Counts(served) /\ Counts(nos) /\ Counts(Ahead(c))
  /\ Follows(nos) /\ Follows(Ahead(c))

Reserve(c) ==
  served # <<>> =>
    Len(nos) + crashes + 1 + (IF pc[c] = "rpush" THEN 1 ELSE 0) >= LowMark

Course(c) ==
  /\ pc[c] = "idle" => c \notin wants
  /\ pc[c] = "rpop" => nos # <<>>
  /\ pc[c] \in {"hexists", "hget"} => nos = <<>>
  /\ pc[c] = "lpop" => Len(nos) >= LowMark
  /\ pc[c] \in {"llen", "rpop", "hexists", "hget", "rpush"} =>
       /\ len[c] > 0
       /\ c \in wants => len[c] >= Batch

SerialInv ==
  /\ TypeOK /\ crashes <= MaxCrashes
  /\ resends = 0 => \A c \in Callers : Series(c) /\ Reserve(c) /\ Course(c)

(* One caller gets consecutive numbers from its first one on, however often *)
(* its process dies within a refill (less than LowMark - 1 times), whatever *)
(* setHash writes, and until ioredis sends one of its commands twice.       *)
Consecutive == resends = 0 => Counts(served)

InHand == {start[c] : c \in {d \in Callers : pc[d] = "rpush"}}
Pool == ToSet(served) \cup ToSet(nos) \cup InHand

(* Callers that refill at the same time may produce a number twice, but     *)
(* they skip none: all below one that exists were served or will be.  (A    *)
(* crash or a resend loses a popped number, setHash starts above 0.)        *)
NothingSkipped ==
  crashes = 0 /\ resends = 0 /\ hash = None =>
    \A n \in Pool : \A m \in 0..n : m \in Pool

(* Refills that pass the test of the list's length together, or are sent    *)
(* twice, can push it past autoExtends by one batch each and no more.       *)
Largest == Max(Batches \cup {Batch})

ListBounded ==
  Len(nos) <= AutoExtends + (Cardinality(Callers) + resends) * (Largest + 1)

=============================================================================
