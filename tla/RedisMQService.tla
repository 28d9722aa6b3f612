--------------------------- MODULE RedisMQService ---------------------------
(***************************************************************************)
(* lib/services/redis.mq.service.ts: Redis pub/sub in which every service  *)
(* instance receives every message and a per-message Redis lock decides    *)
(* which instance runs its handlers.                                       *)
(*                                                                         *)
(* An instance is one RedisMQService object in one application process.    *)
(* It owns a subscriber, which receives messages, and the MQ client, which *)
(* carries SET NX PX and DEL.  The client is a single server or a Cluster  *)
(* of nodes, each of which stores some of the keys: the commands for one   *)
(* node are executed and answered in the order they were sent, those for   *)
(* different nodes in any order.  What several nodes publish reaches a     *)
(* subscriber in any order too.                                            *)
(*                                                                         *)
(* A delivery is one execution of PUBLISH, numbered by its position in     *)
(* log; two deliveries may carry the same message id (a publisher, or      *)
(* ioredis after a reconnect, sends the PUBLISH again).  The handling of   *)
(* delivery k by instance p is one activation of the async handleMessage;  *)
(* the activations of an instance interleave at every await.               *)
(***************************************************************************)
EXTENDS Naturals, Sequences, SequencesExt

CONSTANTS
  Instances,      \* the service instances
  Channels,       \* channel names
  Supports,       \* the channels each instance is configured with
  Micro,          \* the mqOptions.micro flag of each instance
  MaxListeners,   \* mqOptions.maxListeners
  Ttl,            \* mqOptions.ttl, the PX of the lock, in clock ticks
  Node,           \* the node of Redis that stores each lock key
  Handlers,       \* handler functions
  Boot,           \* handlers registered by constructors, before onModuleInit
  Dynamic,        \* handlers registered and removed while the system runs
  QuietRemoval,   \* TRUE: handlers are removed only while none is running
  Foreign,        \* a publisher that is no instance
  Malformed,      \* a publisher of text that is not an MQ message
  Publishers,     \* who publishes
  MaxPublishes,   \* bound on the number of deliveries
  MaxBusy,        \* longest time from SET to DEL, in ticks; none if >= Ttl
  MayCrash,       \* instances whose process may die
  MayDrop,        \* instances whose command connections may reconnect
  FlakySub,       \* instances whose subscriber connection may reconnect
  None            \* the value of an absent lock

Deliveries == 1..MaxPublishes
Tasks      == Instances \X Deliveries
Keys       == Channels \X Deliveries
Senders    == Instances \cup {Foreign, Malformed}

ASSUME ConfigAssumption ==
  /\ Supports \in [Instances -> SUBSET Channels]
  /\ Micro \in [Instances -> BOOLEAN]
  /\ MaxListeners \in Nat /\ Ttl \in Nat \ {0} /\ MaxBusy \in Nat
  /\ MaxPublishes \in Nat
  /\ Publishers \subseteq Senders
  /\ MayCrash \subseteq Instances
  /\ None \notin Tasks

ASSUME HandlerAssumption ==
  /\ Dynamic \subseteq Handlers
  /\ QuietRemoval \in BOOLEAN
  /\ \A p \in Instances : \A c \in Channels :
       /\ Boot[p][c] \in Seq(Handlers)
       /\ Len(Boot[p][c]) <= MaxListeners
  /\ Boot \in [Instances -> [Channels -> Seq(Handlers)]]

VARIABLES
  log,         \* the PUBLISH commands executed, in the order Redis ran them
  alive,       \* instances whose process is running
  subscribed,  \* instances whose SUBSCRIBE is in effect
  inbox,       \* the deliveries on their way to each subscriber
  handlers,    \* channelMap: the handler list of each channel
  stage,       \* how far each activation of handleMessage has come
  index,       \* the loop index of processByRegistered
  invoked,     \* history: the handlers an activation has called
  cmds,        \* commands sent and not yet answered, in the order sent
  holder,      \* lock keys: the activation whose SET created the key
  ttl,         \* lock keys: ticks until the key expires
  probe        \* the key '1' that acquireLock also sets

mem   == <<handlers, index, invoked>>
redis == <<holder, ttl, probe>>
vars  == <<log, alive, subscribed, inbox, mem, stage, cmds, redis>>

Active == {"locking", "handling", "releasing"}
Stages == Active \cup {"idle", "done", "skipped", "ignored", "crashed"}

Command == [op : {"SET", "DEL"}, task : Deliveries, reply : {"none", "OK", "nil"}]
Set(k) == [op |-> "SET", task |-> k, reply |-> "none"]
Del(k) == [op |-> "DEL", task |-> k, reply |-> "none"]

Message(k) == <<log[k].channel, log[k].id>>

(* buildLockKey: the root scope, the channel and the id of the message.     *)
ChannelLockKey(k) == <<log[k].channel, 1>>
LockKey(k) == <<log[k].channel, log[k].id>>

HandlersOf(p, k) == handlers[p][log[k].channel]

Init ==
  /\ log = <<>>
  /\ alive = Instances
  /\ subscribed = {}
  /\ inbox = [p \in Instances |-> {}]
  /\ handlers = Boot
  /\ stage = [p \in Instances |-> [k \in Deliveries |-> "idle"]]
  /\ index = [p \in Instances |-> [k \in Deliveries |-> 0]]
  /\ invoked = [p \in Instances |-> [k \in Deliveries |-> <<>>]]
  /\ cmds = [p \in Instances |-> <<>>]
  /\ holder = [key \in Keys |-> None]
  /\ ttl = [key \in Keys |-> 0]
  /\ probe = FALSE

-----------------------------------------------------------------------------
(* The application: subscription, registration, publication. *)

(* onModuleInit sends SUBSCRIBE without awaiting it, so every other action  *)
(* may come before it takes effect; ioredis sends it again on reconnect.    *)
Subscribe(p) ==
  /\ p \in alive \ subscribed
  /\ subscribed' = subscribed \cup {p}
  /\ UNCHANGED <<log, alive, inbox, mem, stage, cmds, redis>>

(* registHandler; the calls that throw or find the handler registered       *)
(* change nothing.                                                          *)
RoomForOneMore(list) == Len(list) <= MaxListeners
RoomFor(list) == Len(list) < MaxListeners

RegistHandler(p, c, h) ==
  /\ p \in alive
  /\ c \in Supports[p]
  /\ RoomFor(handlers[p][c])
  /\ ~ Contains(handlers[p][c], h)
  /\ handlers' = [handlers EXCEPT ![p][c] = Append(@, h)]
  /\ UNCHANGED <<log, alive, subscribed, inbox, stage, index, invoked, cmds, redis>>

MayRemove(p, c) ==
  QuietRemoval => \A k \in Deliveries :
                    stage[p][k] = "handling" => log[k].channel # c

(* removeHandlers with a handler: splice one element out of the list.       *)
RemoveHandler(p, c, h) ==
  /\ p \in alive
  /\ MayRemove(p, c)
  /\ \E i \in DOMAIN handlers[p][c] :
       /\ handlers[p][c][i] = h
       /\ handlers' = [handlers EXCEPT ![p][c] = RemoveAt(@, i)]
  /\ UNCHANGED <<log, alive, subscribed, inbox, stage, index, invoked, cmds, redis>>

(* removeHandlers without a handler: empty the list.                        *)
RemoveAllHandlers(p, c) ==
  /\ p \in alive
  /\ Dynamic # {}
  /\ MayRemove(p, c)
  /\ handlers[p][c] # <<>>
  /\ handlers' = [handlers EXCEPT ![p][c] = <<>>]
  /\ UNCHANGED <<log, alive, subscribed, inbox, stage, index, invoked, cmds, redis>>

(* Redis executes a PUBLISH: every current subscriber of the channel will   *)
(* receive it, nobody else ever will.                                       *)
Broadcast(envelope) ==
  /\ Len(log) < MaxPublishes
  /\ log' = Append(log, envelope)
  /\ inbox' = [p \in Instances |->
                 IF p \in subscribed /\ envelope.channel \in Supports[p]
                 THEN inbox[p] \cup {Len(log) + 1}
                 ELSE inbox[p]]

(* publishMessage with the fresh id of createMessageId.  The ids of other   *)
(* publishers are fresh too; repeats are the business of PublishAgain.      *)
PublishMessage(s, c) ==
  /\ s \in Instances => s \in alive
  /\ Broadcast([id |-> Len(log) + 1, from |-> s, channel |-> c])
  /\ UNCHANGED <<alive, subscribed, mem, stage, cmds, redis>>

(* The same PUBLISH once more: a foreign publisher retries, or ioredis      *)
(* resends a command whose answer it lost with the connection.              *)
PublishAgain(k) ==
  /\ k \in DOMAIN log
  /\ log[k].from \in {Foreign} \cup (MayDrop \cap alive)
  /\ Broadcast(log[k])
  /\ UNCHANGED <<alive, subscribed, mem, stage, cmds, redis>>

-----------------------------------------------------------------------------
(* handleMessage, from one await to the next. *)

Sent(p, command) == cmds' = [cmds EXCEPT ![p] = Append(@, command)]

Moved(p, k, s) == stage' = [stage EXCEPT ![p][k] = s]

(* Text that is no MQ message, or in micro mode the instance's own message. *)
UnwantedText(p, k) == log[k].from = Malformed
Unwanted(p, k) ==
  \/ log[k].from = Malformed
  \/ Micro[p] /\ log[k].from = p

Arrived(p, k) ==
  /\ k \in inbox[p]
  /\ inbox' = [inbox EXCEPT ![p] = @ \ {k}]

Ignore(p, k) ==
  /\ Arrived(p, k)
  /\ Unwanted(p, k)
  /\ Moved(p, k, "ignored")
  /\ UNCHANGED <<log, alive, subscribed, mem, cmds, redis>>

(* The synchronous start of handleMessage, up to the SET of acquireLock.    *)
Receive(p, k) ==
  /\ Arrived(p, k)
  /\ ~ Unwanted(p, k)
  /\ Moved(p, k, "locking")
  /\ Sent(p, Set(k))
  /\ UNCHANGED <<log, alive, subscribed, mem, redis>>

(* Invoke handler i of the list as it is now, or leave the loop: the        *)
(* finally block then sends the DEL.                                        *)
RunFrom(p, k, i, queue) ==
  IF i <= Len(HandlersOf(p, k))
  THEN /\ Moved(p, k, "handling")
       /\ index' = [index EXCEPT ![p][k] = i]
       /\ invoked' = [invoked EXCEPT ![p][k] = Append(@, HandlersOf(p, k)[i])]
       /\ cmds' = [cmds EXCEPT ![p] = queue]
  ELSE /\ Moved(p, k, "releasing")
       /\ cmds' = [cmds EXCEPT ![p] = Append(queue, Del(k))]
       /\ UNCHANGED <<index, invoked>>

(* The commands for the same node that were sent earlier.                   *)
NodeOf(p, i) == Node[LockKey(cmds[p][i].task)]
Before(p, i) == {j \in 1..(i - 1) : NodeOf(p, j) = NodeOf(p, i)}

Answered(p, i, op, reply) ==
  /\ Before(p, i) = {}
  /\ cmds[p][i].op = op
  /\ cmds[p][i].reply = reply

Rest(p, i) == RemoveAt(cmds[p], i)

LockGranted(p) ==
  \E i \in DOMAIN cmds[p] :
    /\ Answered(p, i, "SET", "OK")
    /\ RunFrom(p, cmds[p][i].task, 1, Rest(p, i))
    /\ UNCHANGED <<log, alive, subscribed, inbox, handlers, redis>>

LockDeniedReleases(p) ==
  \E i \in DOMAIN cmds[p] :
    /\ Answered(p, i, "SET", "nil")
    /\ Moved(p, cmds[p][i].task, "releasing")
    /\ cmds' = [cmds EXCEPT ![p] = Append(Rest(p, i), Del(cmds[p][i].task))]
    /\ UNCHANGED <<log, alive, subscribed, inbox, mem, redis>>

LockDenied(p) ==
  \E i \in DOMAIN cmds[p] :
    /\ Answered(p, i, "SET", "nil")
    /\ Moved(p, cmds[p][i].task, "skipped")
    /\ cmds' = [cmds EXCEPT ![p] = Rest(p, i)]
    /\ UNCHANGED <<log, alive, subscribed, inbox, mem, redis>>

(* The awaited handler resolves or rejects (each call has its own catch).   *)
RejectionEndsLoop(p, k) ==
  /\ stage[p][k] = "handling"
  /\ Moved(p, k, "releasing")
  /\ Sent(p, Del(k))
  /\ UNCHANGED <<log, alive, subscribed, inbox, mem, redis>>

RejectionSkipsRelease(p, k) ==
  /\ stage[p][k] = "handling"
  /\ Moved(p, k, "done")
  /\ UNCHANGED <<log, alive, subscribed, inbox, mem, cmds, redis>>

HandlerSettles(p, k) ==
  /\ stage[p][k] = "handling"
  /\ RunFrom(p, k, index[p][k] + 1, cmds[p])
  /\ UNCHANGED <<log, alive, subscribed, inbox, handlers, redis>>

LockReleased(p) ==
  \E i \in DOMAIN cmds[p] :
    /\ Answered(p, i, "DEL", "OK")
    /\ Moved(p, cmds[p][i].task, "done")
    /\ cmds' = [cmds EXCEPT ![p] = Rest(p, i)]
    /\ UNCHANGED <<log, alive, subscribed, inbox, mem, redis>>

-----------------------------------------------------------------------------
(* Redis: each node runs its commands in order, keys expire. *)

NextCommand(p, i) ==
  /\ cmds[p][i].reply = "none"
  /\ \A j \in Before(p, i) : cmds[p][j].reply # "none"

Reply(p, i, r) == cmds' = [cmds EXCEPT ![p][i].reply = r]

(* NX: the key does not exist.  PX: the time it is given to live.           *)
AlwaysFree(key) == TRUE
Free(key) == holder[key] = None

NoExpiry == 0
Expiry == Ttl

(* SET key locked NX PX ttl, after the SET 1 1 NX sent with it.             *)
ExecSet(p) ==
  \E i \in DOMAIN cmds[p] :
    LET k   == cmds[p][i].task
        key == LockKey(k)
    IN  /\ NextCommand(p, i)
        /\ cmds[p][i].op = "SET"
        /\ \/ /\ Free(key)
              /\ holder' = [holder EXCEPT ![key] = <<p, k>>]
              /\ ttl' = [ttl EXCEPT ![key] = Expiry]
              /\ Reply(p, i, "OK")
           \/ /\ ~ Free(key)
              /\ Reply(p, i, "nil")
              /\ UNCHANGED <<holder, ttl>>
        /\ probe' = TRUE
        /\ UNCHANGED <<log, alive, subscribed, inbox, mem, stage>>

(* DEL key: whoever created the key.                                        *)
ExecDel(p) ==
  \E i \in DOMAIN cmds[p] :
    LET key == LockKey(cmds[p][i].task)
    IN  /\ NextCommand(p, i)
        /\ cmds[p][i].op = "DEL"
        /\ holder' = [holder EXCEPT ![key] = None]
        /\ ttl' = [ttl EXCEPT ![key] = 0]
        /\ Reply(p, i, "OK")
        /\ UNCHANGED <<log, alive, subscribed, inbox, mem, stage, probe>>

(* Between the execution of an activation's SET and that of its DEL.        *)
InSection(p, k) ==
  \/ stage[p][k] = "handling"
  \/ \E i \in DOMAIN cmds[p] :
       /\ cmds[p][i].task = k
       /\ \/ cmds[p][i].op = "SET" /\ cmds[p][i].reply = "OK"
          \/ cmds[p][i].op = "DEL" /\ cmds[p][i].reply = "none"

(* One unit of time.  An activation that still holds its lock has been busy *)
(* for Ttl - ttl ticks: time does not pass its limit MaxBusy.               *)
Tick ==
  /\ \E key \in Keys : ttl[key] > 0
  /\ \A p \in Instances, k \in DOMAIN log :
       InSection(p, k) /\ holder[LockKey(k)] = <<p, k>>
         => Ttl - ttl[LockKey(k)] < MaxBusy
  /\ ttl' = [key \in Keys |-> IF ttl[key] > 0 THEN ttl[key] - 1 ELSE 0]
  /\ holder' = [key \in Keys |-> IF ttl[key] > 1 THEN holder[key] ELSE None]
  /\ UNCHANGED <<log, alive, subscribed, inbox, mem, stage, cmds, probe>>

-----------------------------------------------------------------------------
(* Faults. *)

(* The process dies, or a rejected command ends it: nothing in the module   *)
(* handles the rejection of subscribe, SET or DEL.  Its in-flight commands  *)
(* are lost (one that Redis still runs is one it ran before the crash).     *)
Crash(p) ==
  /\ p \in alive
  /\ alive' = alive \ {p}
  /\ subscribed' = subscribed \ {p}
  /\ inbox' = [inbox EXCEPT ![p] = {}]
  /\ cmds' = [cmds EXCEPT ![p] = <<>>]
  /\ stage' = [stage EXCEPT ![p] =
                 [k \in Deliveries |-> IF @[k] \in Active THEN "crashed" ELSE @[k]]]
  /\ UNCHANGED <<log, mem, redis>>

(* The connection to a node breaks before some answers arrive: ioredis      *)
(* sends its unanswered commands again (autoResendUnfulfilledCommands).     *)
Reconnect(p) ==
  \E i \in DOMAIN cmds[p] :
    /\ cmds[p][i].reply # "none"
    /\ cmds' = [cmds EXCEPT ![p] =
                  [j \in DOMAIN @ |-> IF NodeOf(p, j) = NodeOf(p, i)
                                      THEN [@[j] EXCEPT !.reply = "none"] ELSE @[j]]]
    /\ UNCHANGED <<log, alive, subscribed, inbox, mem, stage, redis>>

(* The subscriber connection breaks: what was on its way is lost.           *)
LoseSubscription(p) ==
  /\ p \in subscribed
  /\ subscribed' = subscribed \ {p}
  /\ inbox' = [inbox EXCEPT ![p] = {}]
  /\ UNCHANGED <<log, alive, mem, stage, cmds, redis>>

(* Nothing is in flight: the event loops sleep.                             *)
Sleep ==
  /\ alive \subseteq subscribed
  /\ \A p \in Instances : /\ inbox[p] = {} /\ cmds[p] = <<>>
                          /\ \A k \in Deliveries : stage[p][k] \notin Active
  /\ \A key \in Keys : ttl[key] = 0
  /\ UNCHANGED vars

-----------------------------------------------------------------------------
Application ==
  \/ \E p \in Instances : Subscribe(p)
  \/ \E p \in Instances, c \in Channels :
       \/ \E h \in Dynamic : RegistHandler(p, c, h) \/ RemoveHandler(p, c, h)
       \/ RemoveAllHandlers(p, c)
  \/ \E s \in Publishers, c \in Channels : PublishMessage(s, c)
  \/ \E k \in Deliveries : PublishAgain(k)

Handling ==
  \E p \in Instances :
    \/ LockGranted(p) \/ LockDenied(p) \/ LockReleased(p)
    \/ \E k \in Deliveries : Ignore(p, k) \/ Receive(p, k) \/ HandlerSettles(p, k)

Server == Tick \/ \E p \in Instances : ExecSet(p) \/ ExecDel(p)

Faults ==
  \/ \E p \in MayCrash : Crash(p)
  \/ \E p \in MayDrop : Reconnect(p)
  \/ \E p \in FlakySub : LoseSubscription(p)

Next == Application \/ Handling \/ Server \/ Faults \/ Sleep

Spec == Init /\ [][Next]_vars

(* Event loops and Redis do not stall, handler promises settle, time passes.*)
Fairness ==
  /\ \A p \in Instances :
       /\ WF_vars(Subscribe(p))
       /\ WF_vars(LockGranted(p)) /\ WF_vars(LockDenied(p)) /\ WF_vars(LockReleased(p))
       /\ WF_vars(ExecSet(p)) /\ WF_vars(ExecDel(p))
       /\ \A k \in Deliveries :
            WF_vars(Ignore(p, k)) /\ WF_vars(Receive(p, k)) /\ WF_vars(HandlerSettles(p, k))
  /\ WF_vars(Tick)

FairSpec == Spec /\ Fairness

-----------------------------------------------------------------------------
(* Properties. *)

Held(p, k)  == holder[LockKey(k)] = <<p, k>>
Granted(p, k) ==
  \/ stage[p][k] \in {"handling", "releasing", "done", "crashed"}
  \/ \E i \in DOMAIN cmds[p] : /\ cmds[p][i].op = "SET"
                               /\ cmds[p][i].task = k
                               /\ cmds[p][i].reply = "OK"

(* Every variable has its type, no handler list exceeds maxListeners, and a *)
(* dead process has no subscription.                                        *)
TypeOK ==
  /\ log \in Seq([id : Deliveries, from : Senders, channel : Channels])
  /\ Len(log) <= MaxPublishes
  /\ alive \subseteq Instances
  /\ subscribed \subseteq alive
  /\ inbox \in [Instances -> SUBSET Deliveries]
  /\ handlers \in [Instances -> [Channels -> Seq(Handlers)]]
  /\ \A p \in Instances, c \in Channels : Len(handlers[p][c]) <= MaxListeners
  /\ stage \in [Instances -> [Deliveries -> Stages]]
  /\ index \in [Instances -> [Deliveries -> Nat]]
  /\ invoked \in [Instances -> [Deliveries -> Seq(Handlers)]]
  /\ cmds \in [Instances -> Seq(Command)]
  /\ holder \in [Keys -> Tasks \cup {None}]
  /\ ttl \in [Keys -> 0..Ttl]
  /\ probe \in BOOLEAN

(* Nothing refers to a delivery that has not been made: part of the         *)
(* inductive invariant.                                                     *)
Known ==
  \A p \in Instances :
    /\ inbox[p] \subseteq DOMAIN log
    /\ \A i \in DOMAIN cmds[p] : cmds[p][i].task \in DOMAIN log
    /\ \A k \in Deliveries : stage[p][k] # "idle" => k \in DOMAIN log

(* What waits in an inbox is what handleMessage has not begun with.         *)
ArriveOnce ==
  \A p \in Instances : \A k \in inbox[p] : stage[p][k] = "idle"

(* An activation has one command in flight, the one it awaits.              *)
AwaitOne ==
  \A p \in Instances : \A i \in DOMAIN cmds[p] :
    /\ stage[p][cmds[p][i].task] = IF cmds[p][i].op = "SET" THEN "locking" ELSE "releasing"
    /\ \A j \in DOMAIN cmds[p] : cmds[p][i].task = cmds[p][j].task => i = j

(* A lock exists as long as it has time to live.                            *)
LockLives == \A key \in Keys : holder[key] = None <=> ttl[key] = 0

(* From the SET to the DEL the lock is the activation's own, and has at     *)
(* least the time left that the activation may still take.                  *)
SectionHolds ==
  \A p \in Instances, k \in DOMAIN log :
    InSection(p, k) => Held(p, k) /\ ttl[LockKey(k)] + MaxBusy >= Ttl

LockInv == TypeOK /\ Known /\ ArriveOnce /\ AwaitOne /\ LockLives /\ SectionHolds

(* While handlers take less than the ttl and no command is resent, no two   *)
(* activations run handlers of the same message at the same time, whatever  *)
(* deliveries, lock expiry and crashes do.                                  *)
MutualExclusion ==
  \A p, q \in Instances, j, k \in DOMAIN log :
    /\ stage[p][j] = "handling" /\ stage[q][k] = "handling"
    /\ Message(j) = Message(k)
    => p = q /\ j = k

(* The DEL carries no owner: it removes whatever lock is there.  Under the  *)
(* same conditions what it removes is the activation's own lock.            *)
ReleaseIsOwn ==
  [][\A p \in Instances : \A i \in DOMAIN cmds[p] :
       /\ cmds[p][i].op = "DEL" /\ cmds[p][i].reply = "none"
       /\ i \in DOMAIN cmds'[p] /\ cmds'[p][i] = [cmds[p][i] EXCEPT !.reply = "OK"]
       => Held(p, cmds[p][i].task)]_vars

(* An activation gives a message up ("Skipping duplicate message") only if  *)
(* another activation was granted the lock of that very message.            *)
SkipIsCovered ==
  \A p \in Instances, k \in DOMAIN log :
    stage[p][k] = "skipped" =>
      \E q \in Instances, j \in DOMAIN log :
        <<q, j>> # <<p, k>> /\ Message(j) = Message(k) /\ Granted(q, j)

(* A lock whose process lives belongs to an activation that will still send *)
(* its DEL: no path through handleMessage forgets the lock.                 *)
NoLeakedLock ==
  \A key \in Keys, p \in alive, k \in DOMAIN log :
    holder[key] = <<p, k>> => key = LockKey(k) /\ InSection(p, k)

(* When the loop of processByRegistered ends, each handler of the channel   *)
(* has been called exactly once, in registration order: rejections do not   *)
(* end it, and handlers registered meanwhile are included.                  *)
Fanout ==
  [][\A p \in Instances, k \in DOMAIN log :
       stage[p][k] = "handling" /\ stage'[p][k] = "releasing"
       => invoked[p][k] = HandlersOf(p, k)]_vars

(* Every lock is released or expires, also when its process died.           *)
LockEventuallyFree ==
  \A key \in Keys : holder[key] # None ~> holder[key] = None

HandledBySomebody(k) ==
  /\ k \in DOMAIN log
  /\ \E q \in Instances, j \in DOMAIN log :
       Message(j) = Message(k) /\ invoked[q][j] # <<>>

AsksForLock(p, k) == \E i \in DOMAIN cmds[p] : cmds[p][i] = Set(k)

OwnerDied(k) ==
  /\ k \in DOMAIN log
  /\ \E q \in Instances, j \in DOMAIN log :
       Message(j) = Message(k) /\ stage[q][j] = "crashed" /\ Held(q, j)

(* An instance without handlers took the lock and let the message go; the   *)
(* micro check keeps it from doing so with its own messages.                *)
Dropped(k) ==
  /\ k \in DOMAIN log
  /\ \E q \in Instances, j \in DOMAIN log :
       /\ Message(j) = Message(k)
       /\ stage[q][j] \in {"releasing", "done"} /\ invoked[q][j] = <<>>
       /\ ~ (Micro[q] /\ log[j].from = q)

(* What remains true when processes die: a message whose lock an instance   *)
(* asks for is lost only if that instance or the owner of the lock dies, or *)
(* to an instance without handlers that is not its micro sender.            *)
HandledUnlessOwnerDies ==
  \A p \in Instances, k \in Deliveries :
    AsksForLock(p, k) ~>
      HandledBySomebody(k) \/ OwnerDied(k) \/ Dropped(k) \/ p \notin alive

(* Comment at redis.mq.service.ts:110: messages are only locked by the      *)
(* registered handler.                                                      *)
LockedByRegistered ==
  [][\A p \in Instances, k \in DOMAIN log :
       ~ Held(p, k) /\ Held(p, k)' => HandlersOf(p, k) # <<>>]_vars

(* README.md, Description: multiple instances receive the same message, but *)
(* only one instance processes it.                                          *)
OnlyOneProcesses ==
  \A p, q \in Instances, k \in DOMAIN log :
    invoked[p][k] # <<>> /\ invoked[q][k] # <<>> => p = q

(* Comment at redis.mq.service.ts:222: removeHandlers with a handler only   *)
(* removes that handler; the others are still called.                       *)
RemovesOnlyTheHandler ==
  [][\A p \in Instances, k \in DOMAIN log :
       stage[p][k] = "handling" /\ stage'[p][k] = "releasing"
       => \A i \in DOMAIN HandlersOf(p, k) :
            Contains(invoked[p][k], HandlersOf(p, k)[i])]_vars

(* The lock is the abstract one: keyed ownership, handlers run by owners.   *)
Lock == INSTANCE MessageLock WITH
  Clients <- Tasks,
  owner   <- holder,
  inside  <- {t \in Tasks : stage[t[1]][t[2]] = "handling"}

ImplementsLock == Lock!Spec

=============================================================================
