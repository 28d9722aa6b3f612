------------------------------ MODULE LogQueue ------------------------------
(***************************************************************************)
(* lib/services/redis.producer.ts and redis.consumer.ts: log queues in     *)
(* Redis lists.  A service has one connection to the server (in a Cluster, *)
(* to the node that stores the keys), on which Redis runs the commands in  *)
(* the order they were sent: behind a blocking pop everything waits.       *)
(*                                                                         *)
(* A key is the sequence of its parts.  An element is the number of the    *)
(* push call that made it, whether its text is JSON and whether it was     *)
(* pushed with lpush.  Every key may be pushed and popped on either side.  *)
(***************************************************************************)
EXTENDS Integers, Sequences, SequencesExt

CONSTANTS
  Producers, Consumers,  \* the services, each in a process of its own
  PushNames, PopNames,   \* keys as the applications pass them
  Textual,               \* the calls whose data is a plain string
  Parsing,               \* the consumers that call blpopData and brpopData
  Readers,               \* the services that call llen, lrange or ping
  QueuePrefix,           \* queueOptions.prefix
  Unset,                 \* the prefix when queueOptions has none
  Timeouts,              \* what callers pass for timeout; 0 is for ever
  Trims,                 \* what callers pass for start and stop
  MaxCalls,              \* bound on the number of calls
  MaxFaults,             \* bound on the number of faults
  MayFail,               \* services that crash or reconnect
  None                   \* null

Names    == PushNames \cup PopNames
Services == Producers \cup Consumers
Elements == [call : 1..MaxCalls, json : BOOLEAN, left : BOOLEAN]

VARIABLES
  lists,    \* the lists of Redis
  waiting,  \* consumers blocked on each list, longest first
  sent,     \* commands each service awaits
  got,      \* history: what each application received
  calls,    \* calls made so far
  faults    \* faults so far

vars == <<lists, waiting, sent, got, calls, faults>>

(* buildKey of both services: each has a default of its own.                *)
BuildKey(prefix, key) ==
  IF prefix = "" \/ Head(key) = prefix THEN key ELSE <<prefix>> \o key

Prefix(default) == IF QueuePrefix = Unset THEN default ELSE QueuePrefix

ProducerKey(key) == BuildKey(Prefix("$syslog:"), key)

BareKey(key) == key
ConsumerKey(key) == BuildKey(Prefix(""), key)

Keys == {ProducerKey(k) : k \in Names} \cup {ConsumerKey(k) : k \in Names}

ASSUME ConfigAssumption ==
  /\ Producers \cap Consumers = {}
  /\ Parsing \subseteq Consumers /\ Readers \subseteq Services
  /\ \A k \in Names : k # <<>>
  /\ Timeouts \subseteq Nat
  /\ Trims \subseteq Int \X Int
  /\ MaxCalls \in Nat /\ MaxFaults \in Nat
  /\ MayFail \subseteq Services
  /\ None \notin Elements

Init ==
  /\ lists = [key \in Keys |-> <<>>]
  /\ waiting = [key \in Keys |-> <<>>]
  /\ sent = [s \in Services |-> <<>>]
  /\ got = [c \in Consumers |-> <<>>]
  /\ calls = 0
  /\ faults = 0

-----------------------------------------------------------------------------
(* Calls: the command joins those the connection carries.  Calls that throw *)
(* (no client, data that serialize refuses) send nothing.                   *)

Ops == {"RPUSH", "LPUSH", "LTRIM", "BLPOP", "BRPOP", "READ"}

Ask(op, name, key) ==
  [op |-> op, call |-> calls + 1, name |-> name, key |-> key, element |-> None,
   range |-> <<0, 0>>, timeout |-> 0, parse |-> FALSE, state |-> "new", value |-> None]

Send(s, command) ==
  /\ calls < MaxCalls
  /\ calls' = calls + 1
  /\ sent' = [sent EXCEPT ![s] = Append(@, command)]
  /\ UNCHANGED <<lists, waiting, got, faults>>

(* serialize: objects, numbers and booleans become JSON, strings stay.      *)
Push(op, k) ==
  [Ask(op, k, ProducerKey(k)) EXCEPT
     !.element = [call |-> calls + 1,
                  json |-> calls + 1 \notin Textual,
                  left |-> op = "LPUSH"]]

RpushPrepends(p, k) == Send(p, [Push("RPUSH", k) EXCEPT !.op = "LPUSH"])
Rpush(p, k) == Send(p, Push("RPUSH", k))

LpushTwice(p, k) ==
  /\ calls < MaxCalls
  /\ calls' = calls + 1
  /\ sent' = [sent EXCEPT ![p] = @ \o <<Push("LPUSH", k), Push("LPUSH", k)>>]
  /\ UNCHANGED <<lists, waiting, got, faults>>
LpushAppends(p, k) == Send(p, [Push("LPUSH", k) EXCEPT !.op = "RPUSH"])
Lpush(p, k) == Send(p, Push("LPUSH", k))

Trim(p, k, range) == Send(p, [Ask("LTRIM", k, ProducerKey(k)) EXCEPT !.range = range])

(* llen, lrange and ping: what they read is not modelled.                   *)
Read(s) == Send(s, Ask("READ", <<>>, <<>>))

(* blpop and brpop, and the variants that parse what they get.              *)
PopForEver(op, c, k, timeout) ==
  [Ask(op, k, ConsumerKey(k)) EXCEPT !.parse = c \in Parsing]
Pop(op, c, k, timeout) ==
  [Ask(op, k, ConsumerKey(k)) EXCEPT !.timeout = timeout, !.parse = c \in Parsing]

Blpop(c, k, timeout) == Send(c, Pop("BLPOP", c, k, timeout))
Brpop(c, k, timeout) == Send(c, Pop("BRPOP", c, k, timeout))

-----------------------------------------------------------------------------
(* Redis. *)

IsNext(s, i) ==
  /\ sent[s][i].state = "new"
  /\ \A j \in 1..(i - 1) : sent[s][j].state = "done"

Reply(queue, i, value) == [queue EXCEPT ![i].state = "done", ![i].value = value]

Blocked(c) == CHOOSE i \in DOMAIN sent[c] : sent[c][i].state = "blocked"

(* A push wakes the consumer that waits longest, or extends the list.       *)
ExecPush(p) ==
  \E i \in DOMAIN sent[p] :
    LET command == sent[p][i]
        key     == command.key
        e       == command.element
    IN  /\ IsNext(p, i)
        /\ command.op \in {"RPUSH", "LPUSH"}
        /\ \/ LET c == Head(waiting[key])
              IN  /\ waiting[key] # <<>>
                  /\ sent' = [sent EXCEPT ![p] = Reply(@, i, None),
                                          ![c] = Reply(@, Blocked(c), e)]
                  /\ waiting' = [waiting EXCEPT ![key] = Tail(@)]
                  /\ UNCHANGED lists
           \/ /\ waiting[key] = <<>>
              /\ sent' = [sent EXCEPT ![p] = Reply(@, i, None)]
              /\ lists' = [lists EXCEPT ![key] =
                             IF command.op = "RPUSH" THEN Append(@, e) ELSE <<e>> \o @]
              /\ UNCHANGED waiting
        /\ UNCHANGED <<got, calls, faults>>

ExecPop(c) ==
  \E i \in DOMAIN sent[c] :
    LET command == sent[c][i]
        list    == lists[command.key]
    IN  /\ IsNext(c, i)
        /\ command.op \in {"BLPOP", "BRPOP"}
        /\ \/ /\ list = <<>>
              /\ sent' = [sent EXCEPT ![c][i].state = "blocked"]
              /\ waiting' = [waiting EXCEPT ![command.key] = Append(@, c)]
              /\ UNCHANGED lists
           \/ /\ list # <<>>
              /\ command.op = "BLPOP"
              /\ sent' = [sent EXCEPT ![c] = Reply(@, i, Head(list))]
              /\ lists' = [lists EXCEPT ![command.key] = Tail(@)]
              /\ UNCHANGED waiting
           \/ /\ list # <<>>
              /\ command.op = "BRPOP"
              /\ sent' = [sent EXCEPT ![c] = Reply(@, i, Last(list))]
              /\ lists' = [lists EXCEPT ![command.key] = Front(@)]
              /\ UNCHANGED waiting
        /\ UNCHANGED <<got, calls, faults>>

(* LTRIM keeps what lies between two positions; negative ones count from    *)
(* the end.                                                                 *)
Trimmed(list, range) ==
  LET At(i) == IF i < 0 THEN Len(list) + i ELSE i
      from  == IF At(range[1]) < 0 THEN 0 ELSE At(range[1])
  IN  SubSeq(list, from + 1, IF At(range[2]) < Len(list) THEN At(range[2]) + 1 ELSE Len(list))

ExecTrim(p) ==
  \E i \in DOMAIN sent[p] :
    /\ IsNext(p, i)
    /\ sent[p][i].op = "LTRIM"
    /\ sent' = [sent EXCEPT ![p] = Reply(@, i, None)]
    /\ lists' = [lists EXCEPT ![sent[p][i].key] = Trimmed(@, sent[p][i].range)]
    /\ UNCHANGED <<waiting, got, calls, faults>>

ExecRead(s) ==
  \E i \in DOMAIN sent[s] :
    /\ IsNext(s, i)
    /\ sent[s][i].op = "READ"
    /\ sent' = [sent EXCEPT ![s] = Reply(@, i, None)]
    /\ UNCHANGED <<lists, waiting, got, calls, faults>>

(* A consumer waits once at most: behind a blocked pop nothing runs.        *)
Without(list, c) ==
  IF \E i \in DOMAIN list : list[i] = c
  THEN RemoveAt(list, CHOOSE i \in DOMAIN list : list[i] = c)
  ELSE list

StopWaiting(c) == waiting' = [key \in Keys |-> Without(waiting[key], c)]

Expire(c) ==
  \E i \in DOMAIN sent[c] :
    /\ sent[c][i].state = "blocked"
    /\ sent[c][i].timeout > 0
    /\ sent' = [sent EXCEPT ![c] = Reply(@, i, None)]
    /\ StopWaiting(c)
    /\ UNCHANGED <<lists, got, calls, faults>>

-----------------------------------------------------------------------------
(* The answer reaches the application: the element, or null after a timeout *)
(* and, from the variants that parse, for text that is no JSON.             *)

AnyText(command) == command.value
Deserialized(command) ==
  IF command.value # None /\ command.parse /\ ~ command.value.json
  THEN None ELSE command.value

Answer(s) ==
  /\ sent[s] # <<>>
  /\ Head(sent[s]).state = "done"
  /\ sent' = [sent EXCEPT ![s] = Tail(@)]
  /\ got' = IF Deserialized(Head(sent[s])) = None THEN got
            ELSE [got EXCEPT ![s] = Append(@,
                   [op    |-> Head(sent[s]).op,
                    name  |-> Head(sent[s]).name,
                    parse |-> Head(sent[s]).parse,
                    value |-> Deserialized(Head(sent[s]))])]
  /\ UNCHANGED <<lists, waiting, calls, faults>>

-----------------------------------------------------------------------------
(* Faults: what Redis has popped and not delivered is lost.                 *)

Fault(s) ==
  /\ faults < MaxFaults
  /\ faults' = faults + 1
  /\ sent[s] # <<>>
  /\ StopWaiting(s)
  /\ UNCHANGED <<lists, got, calls>>

(* The process dies and another takes its place.                            *)
Crash(s) == Fault(s) /\ sent' = [sent EXCEPT ![s] = <<>>]

(* The connection breaks: ioredis sends every unanswered command again.     *)
Reconnect(s) ==
  /\ Fault(s)
  /\ sent' = [sent EXCEPT ![s] =
                [i \in DOMAIN @ |-> [@[i] EXCEPT !.state = "new", !.value = None]]]

(* Nothing is in flight; pops without timeout may wait for ever.            *)
Sleep ==
  /\ \A s \in Services :
       sent[s] # <<>> => Head(sent[s]).state = "blocked" /\ Head(sent[s]).timeout = 0
  /\ UNCHANGED vars

-----------------------------------------------------------------------------
Calls ==
  \/ \E p \in Producers, k \in PushNames :
       \/ Rpush(p, k) \/ Lpush(p, k)
       \/ \E range \in Trims : Trim(p, k, range)
  \/ \E c \in Consumers, k \in PopNames, timeout \in Timeouts :
       Blpop(c, k, timeout) \/ Brpop(c, k, timeout)
  \/ \E s \in Readers : Read(s)

Exec(s) == ExecPush(s) \/ ExecPop(s) \/ ExecTrim(s) \/ ExecRead(s)

Next ==
  \/ Calls
  \/ \E s \in Services : Exec(s) \/ Expire(s) \/ Answer(s)
  \/ \E s \in MayFail : Crash(s) \/ Reconnect(s)
  \/ Sleep

Spec == Init /\ [][Next]_vars

(* Redis runs commands and timeouts, event loops take answers.              *)
Fairness == \A s \in Services : WF_vars(Exec(s)) /\ WF_vars(Expire(s)) /\ WF_vars(Answer(s))

FairSpec == Spec /\ Fairness

-----------------------------------------------------------------------------
(* Properties. *)

Command == [op : Ops, call : 1..MaxCalls, name : Names \cup {<<>>}, key : Keys \cup {<<>>},
            element : Elements \cup {None}, range : Int \X Int, timeout : Nat,
            parse : BOOLEAN, state : {"new", "blocked", "done"},
            value : Elements \cup {None}]

(* Every variable has its type, and what a parsing call returns was JSON.   *)
TypeOK ==
  /\ lists \in [Keys -> Seq(Elements)]
  /\ waiting \in [Keys -> Seq(Consumers)]
  /\ sent \in [Services -> Seq(Command)]
  /\ got \in [Consumers -> Seq([op : {"BLPOP", "BRPOP"}, name : Names,
                                parse : BOOLEAN, value : Elements])]
  /\ \A c \in Consumers : \A i \in DOMAIN got[c] :
       got[c][i].parse => got[c][i].value.json
  /\ calls \in 0..MaxCalls
  /\ faults \in 0..MaxFaults

(* docs/RedisLogMQ.md:167: the queue configuration names the queue for both *)
(* sides.  A consumer is never left waiting on a key while elements pushed  *)
(* under the same key lie in Redis, also when one side passes the full name.*)
NoIdleConsumer ==
  \A c \in Consumers : \A i \in DOMAIN sent[c] :
    sent[c][i].state = "blocked" => lists[ProducerKey(sent[c][i].name)] = <<>>

(* An element pushed on one side and popped on the other has crossed the    *)
(* list as a queue.                                                         *)
Crossed(op, e) == op = IF e.left THEN "BRPOP" ELSE "BLPOP"

(* Of the elements of a list that cross it in the same direction, an        *)
(* application receives those pushed earlier first, across timeouts, other  *)
(* consumers, faults of consumers, and whatever is pushed and popped on the *)
(* same side meanwhile.                                                     *)
InOrder ==
  \A c \in Consumers : \A i, j \in DOMAIN got[c] :
    /\ i < j /\ ConsumerKey(got[c][i].name) = ConsumerKey(got[c][j].name)
    /\ got[c][i].op = got[c][j].op
    /\ Crossed(got[c][i].op, got[c][i].value) /\ Crossed(got[c][j].op, got[c][j].value)
    => got[c][i].value.call < got[c][j].value.call

(* However many services push, what one push brought is received once at   *)
(* most: by one application, in one answer.  So it is until a producer     *)
(* loses its connection, since ioredis then sends its pushes again.         *)
ReceivedOnce ==
  \A c, d \in Consumers : \A i \in DOMAIN got[c], j \in DOMAIN got[d] :
    got[c][i].value = got[d][j].value => c = d /\ i = j

(* Every call settles, also those that wait behind a blocking pop: as calls *)
(* are bounded, that is to say that time and again nothing is awaited.      *)
CallsSettle == []<>(\A s \in Services : sent[s] = <<>>)

(* The calls on a connection with what Redis gave them, and what calls      *)
(* returned.                                                                *)
Open(queue) ==
  [i \in DOMAIN queue |->
     [key |-> queue[i].key, left |-> queue[i].op = "BLPOP", value |-> queue[i].value]]

Received(list) ==
  [i \in DOMAIN list |->
     [key |-> ConsumerKey(list[i].name), left |-> list[i].op = "BLPOP", value |-> list[i].value]]

(* The lists are double-ended queues: for any number of producers and       *)
(* consumers each element enters on the side of its push, is given once, to *)
(* a pop on the side on which it is the outermost, and calls return what    *)
(* they were given in their order, whoever waits, and whichever consumers   *)
(* fail.                                                                    *)
Delivery == INSTANCE DeliveryQueue WITH
  LeftElements <- {e \in Elements : e.left},
  queue        <- lists,
  open         <- [c \in Consumers |-> Open(sent[c])],
  received     <- [c \in Consumers |-> Received(got[c])],
  Nowhere      <- <<>>

ImplementsQueue == Delivery!Spec

=============================================================================
