------------------------ MODULE RedisMQServiceProofs ------------------------
EXTENDS RedisMQService, TLAPS

TypeInv == TypeOK /\ Known

LEMMA SeqFacts ==
  ASSUME NEW S, NEW s \in Seq(S)
  PROVE  /\ Len(s) \in Nat
         /\ DOMAIN s = 1..Len(s)
         /\ \A i \in DOMAIN s : s[i] \in S
  OBVIOUS

LEMMA SeqDef ==
  ASSUME NEW S, NEW n \in Nat, NEW s \in [1..n -> S]
  PROVE  s \in Seq(S)
  OBVIOUS

LEMMA AppendFacts ==
  ASSUME NEW S, NEW s \in Seq(S), NEW x \in S
  PROVE  /\ Append(s, x) \in Seq(S)
         /\ Len(Append(s, x)) = Len(s) + 1
         /\ DOMAIN Append(s, x) = 1..(Len(s) + 1)
         /\ DOMAIN s = 1..Len(s)
         /\ \A i \in DOMAIN s : Append(s, x)[i] = s[i]
         /\ Append(s, x)[Len(s) + 1] = x
  OBVIOUS

LEMMA RemoveAtFacts ==
  ASSUME NEW S, NEW s \in Seq(S), NEW i \in DOMAIN s
  PROVE  /\ RemoveAt(s, i) \in Seq(S)
         /\ Len(RemoveAt(s, i)) = Len(s) - 1
         /\ DOMAIN RemoveAt(s, i) = 1..(Len(s) - 1)
         /\ \A n \in DOMAIN RemoveAt(s, i) :
              IF n < i THEN n \in DOMAIN s /\ RemoveAt(s, i)[n] = s[n]
                       ELSE n + 1 \in DOMAIN s /\ RemoveAt(s, i)[n] = s[n + 1]
  <1> DEFINE front == SubSeq(s, 1, i - 1)
             back == SubSeq(s, i + 1, Len(s))
  <1>1. i \in 1..Len(s) /\ Len(s) \in Nat
    OBVIOUS
  <1>2. /\ front \in Seq(S) /\ Len(front) = i - 1
        /\ \A n \in 1..(i - 1) : front[n] = s[n]
    BY <1>1
  <1>3. /\ back \in Seq(S) /\ Len(back) = Len(s) - i
        /\ \A n \in 1..(Len(s) - i) : back[n] = s[n + i]
    BY <1>1
  <1>4. RemoveAt(s, i) = front \o back
    BY DEF RemoveAt
  <1> HIDE DEF front, back
  <1>5. /\ front \o back \in Seq(S)
        /\ Len(front \o back) = Len(s) - 1
        /\ DOMAIN (front \o back) = 1..(Len(s) - 1)
        /\ \A n \in 1..(Len(s) - 1) :
             (front \o back)[n] = IF n < i THEN front[n] ELSE back[n - (i - 1)]
    BY <1>1, <1>2, <1>3
  <1>6. ASSUME NEW n \in 1..(Len(s) - 1)
        PROVE  IF n < i THEN n \in DOMAIN s /\ (front \o back)[n] = s[n]
                        ELSE n + 1 \in DOMAIN s /\ (front \o back)[n] = s[n + 1]
    <2>1. CASE n < i
      BY <1>1, <1>2, <1>5, <2>1
    <2>2. CASE ~ (n < i)
      <3>1. n - (i - 1) \in 1..(Len(s) - i) /\ (n - (i - 1)) + i = n + 1
        BY <1>1, <2>2
      <3>2. back[n - (i - 1)] = s[n + 1]
        BY <1>3, <3>1
      <3>3. (front \o back)[n] = s[n + 1]
        BY <1>5, <2>2, <3>2
      <3> QED BY <1>1, <2>2, <3>3
    <2> QED BY <2>1, <2>2
  <1> QED BY <1>4, <1>5, <1>6

LEMMA MovedFacts ==
  ASSUME TypeOK, NEW p \in Instances, NEW k \in Deliveries, NEW s \in Stages,
         Moved(p, k, s)
  PROVE  /\ stage' \in [Instances -> [Deliveries -> Stages]]
         /\ stage'[p][k] = s
         /\ \A q \in Instances, j \in Deliveries :
              <<q, j>> # <<p, k>> => stage'[q][j] = stage[q][j]
  BY DEF TypeOK, Moved

LEMMA LogFacts ==
  ASSUME TypeOK, NEW k \in DOMAIN log
  PROVE  /\ k \in Deliveries
         /\ log[k] \in [id : Deliveries, from : Senders, channel : Channels]
         /\ LockKey(k) \in Keys
         /\ Message(k) = LockKey(k)
  <1>1. log[k] \in [id : Deliveries, from : Senders, channel : Channels]
    BY SeqFacts DEF TypeOK
  <1>2. k \in Deliveries
    BY SeqFacts, ConfigAssumption DEF TypeOK, Deliveries
  <1>3. LockKey(k) \in Keys /\ Message(k) = LockKey(k)
    BY <1>1 DEF LockKey, Keys, Message
  <1> QED BY <1>1, <1>2, <1>3

LEMMA CommandFacts ==
  ASSUME NEW k \in Deliveries
  PROVE  Set(k) \in Command /\ Del(k) \in Command
  BY DEF Set, Del, Command

(* PUBLISH appends one entry to log and at most one element to each inbox.  *)
LEMMA BroadcastType ==
  ASSUME TypeInv,
         NEW e \in [id : Deliveries, from : Senders, channel : Channels],
         Broadcast(e),
         UNCHANGED <<alive, subscribed, mem, stage, cmds, redis>>
  PROVE  TypeInv'
  <1> USE DEF TypeInv
  <1>1. /\ Len(log) + 1 \in Deliveries
        /\ log' \in Seq([id : Deliveries, from : Senders, channel : Channels])
        /\ Len(log') = Len(log) + 1
        /\ DOMAIN log' = 1..(Len(log) + 1)
        /\ DOMAIN log = 1..Len(log)
        /\ Len(log) \in Nat
        /\ Len(log') <= MaxPublishes
    BY AppendFacts, SeqFacts, ConfigAssumption DEF TypeOK, Broadcast, Deliveries
  <1>2. inbox' \in [Instances -> SUBSET Deliveries]
    BY <1>1 DEF TypeOK, Broadcast
  <1>3. TypeOK'
    BY <1>1, <1>2 DEF TypeOK, mem, redis
  <1> DOMAIN log \subseteq DOMAIN log'
    BY <1>1
  <1>4. ASSUME NEW p \in Instances
        PROVE  inbox'[p] \subseteq DOMAIN log'
    <2>1. inbox'[p] \subseteq inbox[p] \cup {Len(log) + 1}
      BY DEF Broadcast
    <2> QED BY <1>1, <2>1 DEF Known
  <1>5. Known'
    BY <1>1, <1>4 DEF Known, mem, redis
  <1> QED BY <1>3, <1>5

(* A step of handleMessage leaves no command but those of the queue it is   *)
(* given, and possibly the DEL of its task.                                 *)
LEMMA RunFromType ==
  ASSUME TypeInv, NEW p \in Instances, NEW k \in DOMAIN log, NEW i \in Nat,
         i >= 1,
         NEW queue \in Seq(Command),
         \A n \in DOMAIN queue : queue[n].task \in DOMAIN log,
         RunFrom(p, k, i, queue),
         UNCHANGED <<log, alive, subscribed, inbox, handlers, redis>>
  PROVE  TypeInv'
  <1> USE DEF TypeInv
  <1>1. k \in Deliveries /\ log[k].channel \in Channels
    BY LogFacts
  <1>2. HandlersOf(p, k) \in Seq(Handlers)
    BY <1>1 DEF HandlersOf, TypeOK
  <1>3. CASE i <= Len(HandlersOf(p, k))
    <2>1. HandlersOf(p, k)[i] \in Handlers
      BY <1>2, <1>3
    <2>2. Moved(p, k, "handling") /\ "handling" \in Stages
      BY <1>3 DEF RunFrom, Stages, Active
    <2>3. /\ stage' \in [Instances -> [Deliveries -> Stages]]
          /\ \A q \in Instances, j \in Deliveries : stage'[q][j] # "idle" => j \in DOMAIN log
      BY <1>1, <2>2, MovedFacts DEF Known
    <2>4. index' \in [Instances -> [Deliveries -> Nat]]
      <3>1. index' = [index EXCEPT ![p][k] = i]
        BY <1>3 DEF RunFrom
      <3> QED BY <1>1, <3>1 DEF TypeOK
    <2>5. invoked' \in [Instances -> [Deliveries -> Seq(Handlers)]]
      <3>1. invoked' = [invoked EXCEPT ![p][k] = Append(@, HandlersOf(p, k)[i])]
        BY <1>3 DEF RunFrom
      <3>2. Append(invoked[p][k], HandlersOf(p, k)[i]) \in Seq(Handlers)
        BY <1>1, <2>1 DEF TypeOK
      <3> QED BY <1>1, <3>1, <3>2 DEF TypeOK
    <2>6. /\ cmds' \in [Instances -> Seq(Command)]
          /\ \A q \in Instances : \A n \in DOMAIN cmds'[q] : cmds'[q][n].task \in DOMAIN log
      <3>1. cmds' = [cmds EXCEPT ![p] = queue]
        BY <1>3 DEF RunFrom
      <3> QED BY <3>1 DEF TypeOK, Known
    <2> QED BY <2>3, <2>4, <2>5, <2>6 DEF TypeOK, Known, redis
  <1>4. CASE ~ (i <= Len(HandlersOf(p, k)))
    <2>1. Moved(p, k, "releasing") /\ "releasing" \in Stages
      BY <1>4 DEF RunFrom, Stages, Active
    <2>2. /\ stage' \in [Instances -> [Deliveries -> Stages]]
          /\ \A q \in Instances, j \in Deliveries : stage'[q][j] # "idle" => j \in DOMAIN log
      BY <1>1, <2>1, MovedFacts DEF Known
    <2>3. cmds' = [cmds EXCEPT ![p] = Append(queue, Del(k))] /\ UNCHANGED <<index, invoked>>
      BY <1>4 DEF RunFrom
    <2>4. Del(k) \in Command /\ Del(k).task = k
      BY <1>1 DEF Del, Command
    <2>5. /\ Append(queue, Del(k)) \in Seq(Command)
          /\ \A n \in DOMAIN Append(queue, Del(k)) : Append(queue, Del(k))[n].task \in DOMAIN log
      BY <2>4, AppendFacts
    <2>6. /\ cmds' \in [Instances -> Seq(Command)]
          /\ \A q \in Instances : \A n \in DOMAIN cmds'[q] : cmds'[q][n].task \in DOMAIN log
      BY <2>3, <2>5 DEF TypeOK, Known
    <2> QED BY <2>2, <2>3, <2>6 DEF TypeOK, Known, redis
  <1> QED BY <1>3, <1>4

(* A command in flight is about a delivery that was made.                   *)
LEMMA CmdFacts ==
  ASSUME TypeInv, NEW p \in Instances, NEW i \in DOMAIN cmds[p]
  PROVE  /\ cmds[p] \in Seq(Command)
         /\ cmds[p][i] \in Command
         /\ cmds[p][i].task \in DOMAIN log
         /\ cmds[p][i].task \in Deliveries
         /\ <<p, cmds[p][i].task>> \in Tasks
  <1>1. cmds[p] \in Seq(Command)
    BY DEF TypeInv, TypeOK
  <1>2. cmds[p][i] \in Command
    BY <1>1, SeqFacts
  <1>3. cmds[p][i].task \in Deliveries
    BY <1>2 DEF Command
  <1> QED BY <1>1, <1>2, <1>3 DEF TypeInv, Known, Tasks

(* What is in flight when command i has been answered.                      *)
LEMMA RestFacts ==
  ASSUME TypeInv, NEW p \in Instances, NEW i \in DOMAIN cmds[p]
  PROVE  /\ Rest(p, i) \in Seq(Command)
         /\ \A n \in DOMAIN Rest(p, i) : Rest(p, i)[n].task \in DOMAIN log
         /\ \A n \in DOMAIN Rest(p, i) : \E m \in DOMAIN cmds[p] \ {i} :
              m = (IF n < i THEN n ELSE n + 1) /\ Rest(p, i)[n] = cmds[p][m]
         /\ i \in Nat /\ DOMAIN Rest(p, i) \subseteq Nat
  <1>1. cmds[p] \in Seq(Command)
    BY CmdFacts
  <1>2. ASSUME NEW n \in DOMAIN Rest(p, i)
        PROVE  \E m \in DOMAIN cmds[p] \ {i} :
                 m = (IF n < i THEN n ELSE n + 1) /\ Rest(p, i)[n] = cmds[p][m]
    <2>1. n \in Nat /\ i \in Nat
      BY <1>1, RemoveAtFacts, SeqFacts DEF Rest
    <2>2. IF n < i THEN n \in DOMAIN cmds[p] /\ Rest(p, i)[n] = cmds[p][n]
                   ELSE n + 1 \in DOMAIN cmds[p] /\ Rest(p, i)[n] = cmds[p][n + 1]
      BY <1>1, RemoveAtFacts DEF Rest
    <2> QED BY <2>1, <2>2
  <1>3. i \in Nat /\ DOMAIN Rest(p, i) \subseteq Nat
    BY <1>1, RemoveAtFacts, SeqFacts DEF Rest
  <1> QED BY <1>1, <1>2, <1>3, RemoveAtFacts, CmdFacts DEF Rest

(* An answer changes the reply of one command.                              *)
LEMMA ReplyFacts ==
  ASSUME TypeOK, NEW p \in Instances, NEW i \in DOMAIN cmds[p],
         NEW r \in {"OK", "nil"}, Reply(p, i, r)
  PROVE  /\ cmds' \in [Instances -> Seq(Command)]
         /\ \A q \in Instances : DOMAIN cmds'[q] = DOMAIN cmds[q]
         /\ \A q \in Instances : \A n \in DOMAIN cmds[q] :
              /\ cmds'[q][n].task = cmds[q][n].task
              /\ cmds'[q][n].op = cmds[q][n].op
              /\ <<q, n>> # <<p, i>> => cmds'[q][n] = cmds[q][n]
         /\ cmds'[p][i].reply = r
  <1> DEFINE new == [cmds[p][i] EXCEPT !.reply = r]
             queue == [cmds[p] EXCEPT ![i] = new]
  <1>1. cmds[p] \in Seq(Command) /\ cmds[p][i] \in Command
    BY SeqFacts DEF TypeOK
  <1>2. /\ new \in Command /\ new.task = cmds[p][i].task
        /\ new.op = cmds[p][i].op /\ new.reply = r
    BY <1>1 DEF Command
  <1>3. /\ queue \in Seq(Command) /\ DOMAIN queue = DOMAIN cmds[p]
        /\ queue[i] = new
        /\ \A n \in DOMAIN cmds[p] : n # i => queue[n] = cmds[p][n]
    BY <1>1, <1>2
  <1>4. cmds' = [cmds EXCEPT ![p] = queue]
    BY DEF Reply
  <1> QED BY <1>2, <1>3, <1>4 DEF TypeOK

(* Commands that are sent again have no reply.                              *)
LEMMA ResendFacts ==
  ASSUME TypeOK, NEW p, Reconnect(p)
  PROVE  \A q \in Instances :
           /\ cmds'[q] \in Seq(Command)
           /\ DOMAIN cmds'[q] = DOMAIN cmds[q]
           /\ \A n \in DOMAIN cmds[q] :
                /\ cmds'[q][n].task = cmds[q][n].task
                /\ cmds'[q][n].op = cmds[q][n].op
                /\ cmds'[q][n].reply = "none" \/ cmds'[q][n] = cmds[q][n]
  <1>1. PICK i \in DOMAIN cmds[p] :
          cmds' = [cmds EXCEPT ![p] =
                    [j \in DOMAIN @ |-> IF NodeOf(p, j) = NodeOf(p, i)
                                        THEN [@[j] EXCEPT !.reply = "none"] ELSE @[j]]]
    BY DEF Reconnect
  <1>2. SUFFICES ASSUME NEW q \in Instances
                 PROVE  /\ cmds'[q] \in Seq(Command)
                        /\ DOMAIN cmds'[q] = DOMAIN cmds[q]
                        /\ \A n \in DOMAIN cmds[q] :
                             /\ cmds'[q][n].task = cmds[q][n].task
                             /\ cmds'[q][n].op = cmds[q][n].op
                             /\ cmds'[q][n].reply = "none" \/ cmds'[q][n] = cmds[q][n]
    OBVIOUS
  <1>3. CASE q # p
    BY <1>1, <1>3 DEF TypeOK
  <1>4. CASE q = p
    <2> DEFINE again == [j \in DOMAIN cmds[p] |->
                           IF NodeOf(p, j) = NodeOf(p, i)
                           THEN [cmds[p][j] EXCEPT !.reply = "none"] ELSE cmds[p][j]]
    <2>1. cmds[p] \in Seq(Command) /\ cmds'[p] = again
      BY <1>1, <1>4 DEF TypeOK
    <2>2. /\ DOMAIN cmds[p] = 1..Len(cmds[p]) /\ Len(cmds[p]) \in Nat
          /\ \A j \in DOMAIN cmds[p] : cmds[p][j] \in Command
      BY <2>1, SeqFacts
    <2>3. \A c \in Command : LET d == [c EXCEPT !.reply = "none"]
                             IN  d \in Command /\ d.task = c.task /\ d.op = c.op /\ d.reply = "none"
      BY DEF Command
    <2>4. \A j \in DOMAIN cmds[p] :
            /\ again[j] \in Command
            /\ again[j].task = cmds[p][j].task /\ again[j].op = cmds[p][j].op
            /\ again[j].reply = "none" \/ again[j] = cmds[p][j]
      BY <2>2, <2>3
    <2>5. again \in [1..Len(cmds[p]) -> Command]
      BY <2>2, <2>4
    <2> HIDE DEF again
    <2> QED BY <1>4, <2>1, <2>2, <2>4, <2>5, SeqDef
  <1> QED BY <1>3, <1>4

(* Every step keeps the types and refers only to deliveries that were made. *)
LEMMA TypeStep ==
  ASSUME TypeInv, [Next]_vars
  PROVE  TypeInv'
  <1> USE DEF TypeInv
  <1>1. ASSUME NEW p \in Instances, Subscribe(p)
        PROVE  TypeInv'
    BY <1>1 DEF Subscribe, TypeOK, Known, mem, redis
  <1>2. ASSUME NEW p \in Instances, NEW c \in Channels, NEW h \in Dynamic,
               RegistHandler(p, c, h)
        PROVE  TypeInv'
    <2>1. handlers[p][c] \in Seq(Handlers) /\ h \in Handlers
      BY HandlerAssumption DEF TypeOK
    <2>2. /\ Append(handlers[p][c], h) \in Seq(Handlers)
          /\ Len(Append(handlers[p][c], h)) <= MaxListeners
      BY <1>2, <2>1, AppendFacts, SeqFacts, ConfigAssumption DEF RegistHandler, RoomFor
    <2>3. /\ handlers' \in [Instances -> [Channels -> Seq(Handlers)]]
          /\ \A q \in Instances, d \in Channels : Len(handlers'[q][d]) <= MaxListeners
      BY <1>2, <2>2 DEF RegistHandler, TypeOK
    <2> QED BY <1>2, <2>3 DEF RegistHandler, TypeOK, Known, redis
  <1>3. ASSUME NEW p \in Instances, NEW c \in Channels, NEW h \in Dynamic,
               RemoveHandler(p, c, h)
        PROVE  TypeInv'
    <2>1. handlers[p][c] \in Seq(Handlers) /\ Len(handlers[p][c]) <= MaxListeners
      BY DEF TypeOK
    <2>2. PICK i \in DOMAIN handlers[p][c] :
            handlers' = [handlers EXCEPT ![p][c] = RemoveAt(@, i)]
      BY <1>3 DEF RemoveHandler
    <2>3. /\ RemoveAt(handlers[p][c], i) \in Seq(Handlers)
          /\ Len(RemoveAt(handlers[p][c], i)) <= MaxListeners
      BY <2>1, RemoveAtFacts, SeqFacts, ConfigAssumption
    <2>4. /\ handlers' \in [Instances -> [Channels -> Seq(Handlers)]]
          /\ \A q \in Instances, d \in Channels : Len(handlers'[q][d]) <= MaxListeners
      BY <2>2, <2>3 DEF TypeOK
    <2> QED BY <1>3, <2>4 DEF RemoveHandler, TypeOK, Known, redis
  <1>4. ASSUME NEW p \in Instances, NEW c \in Channels, RemoveAllHandlers(p, c)
        PROVE  TypeInv'
    <2>1. <<>> \in Seq(Handlers) /\ Len(<<>>) <= MaxListeners
      BY ConfigAssumption
    <2>2. /\ handlers' \in [Instances -> [Channels -> Seq(Handlers)]]
          /\ \A q \in Instances, d \in Channels : Len(handlers'[q][d]) <= MaxListeners
      BY <1>4, <2>1 DEF RemoveAllHandlers, TypeOK
    <2> QED BY <1>4, <2>2 DEF RemoveAllHandlers, TypeOK, Known, redis
  <1>5. ASSUME NEW s \in Publishers, NEW c \in Channels, PublishMessage(s, c)
        PROVE  TypeInv'
    <2>1. Len(log) + 1 \in Deliveries /\ s \in Senders
      BY <1>5, ConfigAssumption, SeqFacts DEF PublishMessage, Broadcast, Deliveries, TypeOK
    <2> QED BY <1>5, <2>1, BroadcastType DEF PublishMessage
  <1>6. ASSUME NEW k \in Deliveries, PublishAgain(k)
        PROVE  TypeInv'
    BY <1>6, LogFacts, BroadcastType DEF PublishAgain
  <1>7. ASSUME NEW p \in Instances, NEW k \in Deliveries, Ignore(p, k) \/ Receive(p, k)
        PROVE  TypeInv'
    <2>1. k \in inbox[p] /\ inbox' = [inbox EXCEPT ![p] = @ \ {k}]
      BY <1>7 DEF Ignore, Receive, Arrived
    <2>2. k \in DOMAIN log
      BY <2>1 DEF Known
    <2>3. /\ inbox' \in [Instances -> SUBSET Deliveries]
          /\ \A q \in Instances : inbox'[q] \subseteq DOMAIN log
      BY <2>1 DEF TypeOK, Known
    <2>4. PICK s \in Stages : Moved(p, k, s)
      BY <1>7 DEF Ignore, Receive, Stages, Active
    <2>5. /\ stage' \in [Instances -> [Deliveries -> Stages]]
          /\ \A q \in Instances, j \in Deliveries : stage'[q][j] # "idle" => j \in DOMAIN log
      BY <2>2, <2>4, MovedFacts DEF Known
    <2>6. /\ cmds' \in [Instances -> Seq(Command)]
          /\ \A q \in Instances : \A n \in DOMAIN cmds'[q] : cmds'[q][n].task \in DOMAIN log
      <3>1. Set(k) \in Command /\ Set(k).task = k
        BY <2>2 DEF Set, Command
      <3>2. cmds[p] \in Seq(Command)
        BY DEF TypeOK
      <3>3. /\ Append(cmds[p], Set(k)) \in Seq(Command)
            /\ \A n \in DOMAIN Append(cmds[p], Set(k)) : Append(cmds[p], Set(k))[n].task \in DOMAIN log
        BY <2>2, <3>1, <3>2, AppendFacts DEF Known
      <3>4. cmds' = cmds \/ cmds' = [cmds EXCEPT ![p] = Append(cmds[p], Set(k))]
        BY <1>7 DEF Ignore, Receive, Sent
      <3> QED BY <3>3, <3>4 DEF TypeOK, Known
    <2> QED BY <1>7, <2>3, <2>5, <2>6 DEF Ignore, Receive, TypeOK, Known, mem, redis
  <1>8. ASSUME NEW p \in Instances, LockGranted(p)
        PROVE  TypeInv'
    <2>1. PICK i \in DOMAIN cmds[p] :
            /\ RunFrom(p, cmds[p][i].task, 1, Rest(p, i))
            /\ UNCHANGED <<log, alive, subscribed, inbox, handlers, redis>>
      BY <1>8 DEF LockGranted
    <2>2. cmds[p][i].task \in DOMAIN log
      BY CmdFacts
    <2>3. /\ Rest(p, i) \in Seq(Command)
          /\ \A n \in DOMAIN Rest(p, i) : Rest(p, i)[n].task \in DOMAIN log
      BY RestFacts
    <2>4. 1 \in Nat /\ 1 >= 1
      OBVIOUS
    <2> QED BY <2>1, <2>2, <2>3, <2>4, RunFromType
  <1>9. ASSUME NEW p \in Instances, NEW k \in Deliveries, HandlerSettles(p, k)
        PROVE  TypeInv'
    <2>1. k \in DOMAIN log /\ index[p][k] + 1 \in Nat /\ index[p][k] + 1 >= 1
      BY <1>9 DEF HandlerSettles, Known, TypeOK
    <2>2. /\ cmds[p] \in Seq(Command)
          /\ \A n \in DOMAIN cmds[p] : cmds[p][n].task \in DOMAIN log
      BY DEF TypeOK, Known
    <2>3. /\ RunFrom(p, k, index[p][k] + 1, cmds[p])
          /\ UNCHANGED <<log, alive, subscribed, inbox, handlers, redis>>
      BY <1>9 DEF HandlerSettles
    <2> QED BY <2>1, <2>2, <2>3, RunFromType
  <1>10. ASSUME NEW p \in Instances, LockDenied(p) \/ LockReleased(p)
         PROVE  TypeInv'
    <2>1. PICK i \in DOMAIN cmds[p], s \in Stages :
            /\ Moved(p, cmds[p][i].task, s)
            /\ cmds' = [cmds EXCEPT ![p] = Rest(p, i)]
      BY <1>10 DEF LockDenied, LockReleased, Stages, Active
    <2> DEFINE k == cmds[p][i].task
    <2>2. k \in DOMAIN log /\ k \in Deliveries
      BY CmdFacts
    <2>3. /\ cmds' \in [Instances -> Seq(Command)]
          /\ \A q \in Instances : \A n \in DOMAIN cmds'[q] : cmds'[q][n].task \in DOMAIN log
      BY <2>1, RestFacts DEF TypeOK, Known
    <2>4. Moved(p, k, s)
      BY <2>1
    <2>5. /\ stage' \in [Instances -> [Deliveries -> Stages]]
          /\ \A q \in Instances, j \in Deliveries : stage'[q][j] # "idle" => j \in DOMAIN log
      BY <2>2, <2>4, MovedFacts DEF Known
    <2> QED BY <1>10, <2>3, <2>5 DEF LockDenied, LockReleased, TypeOK, Known, mem, redis
  <1>11. ASSUME NEW p \in Instances, ExecSet(p) \/ ExecDel(p)
         PROVE  TypeInv'
    <2>1. PICK i \in DOMAIN cmds[p], r \in {"OK", "nil"} : Reply(p, i, r)
      BY <1>11 DEF ExecSet, ExecDel
    <2>2. cmds' \in [Instances -> Seq(Command)] /\ DOMAIN cmds'[p] = DOMAIN cmds[p]
      BY <2>1, ReplyFacts
    <2>3. \A q \in Instances : \A n \in DOMAIN cmds'[q] : cmds'[q][n].task \in DOMAIN log
      BY <2>1, ReplyFacts DEF Known
    <2>4. /\ holder' \in [Keys -> Tasks \cup {None}]
          /\ ttl' \in [Keys -> 0..Ttl]
      <3>1. CASE ExecSet(p)
        <4>1. PICK n \in DOMAIN cmds[p] :
                LET k == cmds[p][n].task
                IN  \/ /\ holder' = [holder EXCEPT ![LockKey(k)] = <<p, k>>]
                       /\ ttl' = [ttl EXCEPT ![LockKey(k)] = Ttl]
                    \/ UNCHANGED <<holder, ttl>>
          BY <3>1 DEF ExecSet, Expiry
        <4>2. <<p, cmds[p][n].task>> \in Tasks
          BY CmdFacts
        <4>3. Ttl \in 0..Ttl
          BY ConfigAssumption
        <4> QED BY <4>1, <4>2, <4>3 DEF TypeOK
      <3>2. CASE ExecDel(p)
        <4>1. PICK key : /\ holder' = [holder EXCEPT ![key] = None]
                         /\ ttl' = [ttl EXCEPT ![key] = 0]
          BY <3>2 DEF ExecDel
        <4>2. 0 \in 0..Ttl
          BY ConfigAssumption
        <4> QED BY <4>1, <4>2 DEF TypeOK
      <3> QED BY <1>11, <3>1, <3>2
    <2>5. probe' \in BOOLEAN
      BY <1>11 DEF ExecSet, ExecDel, TypeOK
    <2> QED BY <1>11, <2>2, <2>3, <2>4, <2>5 DEF ExecSet, ExecDel, TypeOK, Known, mem
  <1>12. ASSUME Tick
         PROVE  TypeInv'
    <2>1. ttl' \in [Keys -> 0..Ttl]
      BY <1>12, ConfigAssumption DEF Tick, TypeOK
    <2>2. holder' \in [Keys -> Tasks \cup {None}]
      BY <1>12 DEF Tick, TypeOK
    <2> QED BY <1>12, <2>1, <2>2 DEF Tick, TypeOK, Known, mem
  <1>13. ASSUME NEW p \in MayCrash, Crash(p)
         PROVE  TypeInv'
    <2>1. p \in Instances
      BY ConfigAssumption
    <2>2. /\ inbox' \in [Instances -> SUBSET Deliveries]
          /\ \A q \in Instances : inbox'[q] \subseteq DOMAIN log
      BY <1>13 DEF Crash, TypeOK, Known
    <2>3. /\ cmds' \in [Instances -> Seq(Command)]
          /\ \A q \in Instances : \A i \in DOMAIN cmds'[q] : cmds'[q][i].task \in DOMAIN log
      BY <1>13 DEF Crash, TypeOK, Known
    <2>4. /\ stage' \in [Instances -> [Deliveries -> Stages]]
          /\ \A q \in Instances, k \in Deliveries : stage'[q][k] # "idle" => k \in DOMAIN log
      BY <1>13 DEF Crash, TypeOK, Known, Stages, Active
    <2> QED BY <1>13, <2>2, <2>3, <2>4 DEF Crash, TypeOK, Known, mem, redis
  <1>14. ASSUME NEW p \in MayDrop, Reconnect(p)
         PROVE  TypeInv'
    <2>1. \A q \in Instances : /\ cmds'[q] \in Seq(Command)
                               /\ DOMAIN cmds'[q] = DOMAIN cmds[q]
                               /\ \A n \in DOMAIN cmds[q] : cmds'[q][n].task = cmds[q][n].task
      BY <1>14, ResendFacts
    <2>2. cmds' = [q \in Instances |-> cmds'[q]]
      BY <1>14 DEF Reconnect, TypeOK
    <2>3. cmds' \in [Instances -> Seq(Command)]
      BY <2>1, <2>2
    <2>4. \A q \in Instances : \A n \in DOMAIN cmds'[q] : cmds'[q][n].task \in DOMAIN log
      BY <2>1 DEF Known
    <2> QED BY <1>14, <2>3, <2>4 DEF Reconnect, TypeOK, Known, mem, redis
  <1>15. ASSUME NEW p \in FlakySub, LoseSubscription(p)
         PROVE  TypeInv'
    <2>1. /\ inbox' \in [Instances -> SUBSET Deliveries]
          /\ \A q \in Instances : inbox'[q] \subseteq DOMAIN log
      BY <1>15 DEF LoseSubscription, TypeOK, Known
    <2> QED BY <1>15, <2>1 DEF LoseSubscription, TypeOK, Known, mem, redis
  <1>16. ASSUME UNCHANGED vars
         PROVE  TypeInv'
    BY <1>16 DEF vars, TypeOK, Known, mem, redis
  <1> QED
    BY <1>1, <1>2, <1>3, <1>4, <1>5, <1>6, <1>7, <1>8, <1>9, <1>10, <1>11,
       <1>12, <1>13, <1>14, <1>15, <1>16
    DEF Next, Application, Handling, Server, Faults, Sleep

LEMMA TypeInit == Init => TypeInv
  <1> SUFFICES ASSUME Init PROVE TypeInv
    OBVIOUS
  <1> USE DEF Init
  <1>1. /\ log \in Seq([id : Deliveries, from : Senders, channel : Channels])
        /\ Len(log) <= MaxPublishes
    BY ConfigAssumption
  <1>2. /\ handlers \in [Instances -> [Channels -> Seq(Handlers)]]
        /\ \A p \in Instances, c \in Channels : Len(handlers[p][c]) <= MaxListeners
    BY HandlerAssumption
  <1>3. /\ inbox \in [Instances -> SUBSET Deliveries]
        /\ cmds \in [Instances -> Seq(Command)]
        /\ invoked \in [Instances -> [Deliveries -> Seq(Handlers)]]
        /\ index \in [Instances -> [Deliveries -> Nat]]
        /\ stage \in [Instances -> [Deliveries -> Stages]]
    BY DEF Stages
  <1>4. /\ holder \in [Keys -> Tasks \cup {None}]
        /\ ttl \in [Keys -> 0..Ttl]
    BY ConfigAssumption
  <1>5. Known
    BY DEF Known
  <1> QED BY <1>1, <1>2, <1>3, <1>4, <1>5 DEF TypeInv, TypeOK

(* Redis and the instances keep the types, whatever fails.                  *)
THEOREM TypeCorrect == Spec => []TypeOK
  <1>1. Init => TypeInv
    BY TypeInit
  <1>2. TypeInv /\ [Next]_vars => TypeInv'
    BY TypeStep
  <1>3. TypeInv => TypeOK
    BY DEF TypeInv
  <1> QED BY <1>1, <1>2, <1>3, PTL DEF Spec

-----------------------------------------------------------------------------
(* The lock. *)

FlowInv == TypeInv /\ ArriveOnce /\ AwaitOne

(* What handleMessage leaves of its instance's command queue when the       *)
(* activation of task k goes on: commands of other activations.             *)
Others(p, k, queue) ==
  /\ queue \in Seq(Command)
  /\ \A n \in DOMAIN queue :
       /\ queue[n].task # k
       /\ stage[p][queue[n].task] = IF queue[n].op = "SET" THEN "locking" ELSE "releasing"
       /\ \A m \in DOMAIN queue : queue[n].task = queue[m].task => n = m
       /\ \E m \in DOMAIN cmds[p] : queue[n] = cmds[p][m]

LEMMA RestIsOthers ==
  ASSUME FlowInv, NEW p \in Instances, NEW i \in DOMAIN cmds[p]
  PROVE  /\ Others(p, cmds[p][i].task, Rest(p, i))
         /\ cmds[p][i].task \in DOMAIN log
         /\ cmds[p][i].task \in Deliveries
  <1>1. /\ cmds[p] \in Seq(Command) /\ cmds[p][i].task \in DOMAIN log
        /\ cmds[p][i].task \in Deliveries
    BY CmdFacts DEF FlowInv
  <1>2. ASSUME NEW n \in DOMAIN Rest(p, i)
        PROVE  /\ Rest(p, i)[n].task # cmds[p][i].task
               /\ stage[p][Rest(p, i)[n].task] = IF Rest(p, i)[n].op = "SET" THEN "locking" ELSE "releasing"
               /\ \A m \in DOMAIN Rest(p, i) : Rest(p, i)[n].task = Rest(p, i)[m].task => n = m
               /\ \E m \in DOMAIN cmds[p] : Rest(p, i)[n] = cmds[p][m]
    <2>1. PICK o \in DOMAIN cmds[p] \ {i} :
            o = (IF n < i THEN n ELSE n + 1) /\ Rest(p, i)[n] = cmds[p][o]
      BY RestFacts DEF FlowInv
    <2>2. ASSUME NEW m \in DOMAIN Rest(p, i), Rest(p, i)[n].task = Rest(p, i)[m].task
          PROVE  n = m
      <3>1. PICK u \in DOMAIN cmds[p] \ {i} :
              u = (IF m < i THEN m ELSE m + 1) /\ Rest(p, i)[m] = cmds[p][u]
        BY RestFacts DEF FlowInv
      <3>2. o = u
        BY <2>1, <2>2, <3>1 DEF FlowInv, AwaitOne
      <3>3. n \in Nat /\ m \in Nat /\ i \in Nat
        BY RestFacts DEF FlowInv
      <3>4. CASE n < i /\ m < i
        BY <2>1, <3>1, <3>2, <3>4
      <3>5. CASE ~ (n < i) /\ ~ (m < i)
        <4>1. n + 1 = m + 1
          BY <2>1, <3>1, <3>2, <3>5
        <4> QED BY <3>3, <4>1
      <3>6. CASE n < i /\ ~ (m < i)
        <4>1. n = m + 1
          BY <2>1, <3>1, <3>2, <3>6
        <4> QED BY <3>3, <3>6, <4>1
      <3>7. CASE ~ (n < i) /\ m < i
        <4>1. n + 1 = m
          BY <2>1, <3>1, <3>2, <3>7
        <4> QED BY <3>3, <3>7, <4>1
      <3> QED BY <3>4, <3>5, <3>6, <3>7
    <2> QED BY <2>1, <2>2 DEF FlowInv, AwaitOne
  <1>3. Rest(p, i) \in Seq(Command)
    BY RestFacts DEF FlowInv
  <1> QED BY <1>1, <1>2, <1>3 DEF Others

LEMMA AllIsOthers ==
  ASSUME FlowInv, NEW p \in Instances, NEW k \in Deliveries,
         stage[p][k] \notin {"locking", "releasing"}
  PROVE  Others(p, k, cmds[p])
  BY DEF FlowInv, TypeInv, TypeOK, AwaitOne, Others

(* The commands in flight stay those that their activations await.          *)
LEMMA AwaitMoved ==
  ASSUME TypeOK, AwaitOne,
         NEW p \in Instances, NEW k \in Deliveries, NEW s \in Stages, Moved(p, k, s),
         NEW queue, Others(p, k, queue),
         \/ cmds' = [cmds EXCEPT ![p] = queue]
         \/ s = "locking" /\ cmds' = [cmds EXCEPT ![p] = Append(queue, Set(k))]
         \/ s = "releasing" /\ cmds' = [cmds EXCEPT ![p] = Append(queue, Del(k))]
  PROVE  AwaitOne'
  <1>1. /\ stage'[p][k] = s
        /\ \A q \in Instances, j \in Deliveries : <<q, j>> # <<p, k>> => stage'[q][j] = stage[q][j]
    BY MovedFacts
  <1>2. \A n \in DOMAIN queue : queue[n] \in Command /\ queue[n].task \in Deliveries
    <2>1. \A n \in DOMAIN queue : queue[n] \in Command
      BY SeqFacts DEF Others
    <2> QED BY <2>1 DEF Command
  <1>3. \A n \in DOMAIN queue : stage'[p][queue[n].task] = stage[p][queue[n].task]
    BY <1>1, <1>2 DEF Others
  <1>4. \A q \in Instances : q # p => cmds'[q] = cmds[q]
    BY DEF TypeOK
  <1>5. ASSUME NEW q \in Instances, q # p, NEW i \in DOMAIN cmds'[q]
        PROVE  /\ stage'[q][cmds'[q][i].task] = IF cmds'[q][i].op = "SET" THEN "locking" ELSE "releasing"
               /\ \A j \in DOMAIN cmds'[q] : cmds'[q][i].task = cmds'[q][j].task => i = j
    <2>1. cmds[q][i].task \in Deliveries
      <3>1. cmds[q][i] \in Command
        BY <1>4, <1>5, SeqFacts DEF TypeOK
      <3> QED BY <3>1 DEF Command
    <2> QED BY <1>1, <1>4, <1>5, <2>1 DEF AwaitOne
  <1>6. ASSUME NEW i \in DOMAIN cmds'[p]
        PROVE  /\ stage'[p][cmds'[p][i].task] = IF cmds'[p][i].op = "SET" THEN "locking" ELSE "releasing"
               /\ \A j \in DOMAIN cmds'[p] : cmds'[p][i].task = cmds'[p][j].task => i = j
    <2>1. CASE cmds' = [cmds EXCEPT ![p] = queue]
      <3>1. cmds'[p] = queue
        BY <2>1 DEF TypeOK
      <3> QED BY <1>3, <3>1 DEF Others
    <2>2. ASSUME NEW c \in Command, c.task = k,
                 s = IF c.op = "SET" THEN "locking" ELSE "releasing",
                 cmds' = [cmds EXCEPT ![p] = Append(queue, c)]
          PROVE  <1>6!2
      <3>1. cmds'[p] = Append(queue, c)
        BY <2>2 DEF TypeOK
      <3>2. /\ DOMAIN cmds'[p] = 1..(Len(queue) + 1)
            /\ DOMAIN queue = 1..Len(queue) /\ Len(queue) \in Nat
            /\ \A n \in DOMAIN queue : cmds'[p][n] = queue[n]
            /\ cmds'[p][Len(queue) + 1] = c
        BY <3>1, AppendFacts, SeqFacts DEF Others
      <3>3. \A n \in DOMAIN cmds'[p] : n \in DOMAIN queue \/ n = Len(queue) + 1
        BY <3>2
      <3> QED BY <1>1, <1>3, <2>2, <3>2, <3>3 DEF Others
    <2>3. /\ Set(k) \in Command /\ Set(k).task = k /\ Set(k).op = "SET"
          /\ Del(k) \in Command /\ Del(k).task = k /\ Del(k).op = "DEL"
      BY CommandFacts DEF Set, Del
    <2> QED BY <2>1, <2>2, <2>3
  <1> QED BY <1>5, <1>6 DEF AwaitOne

(* Handling leaves what waits in the inboxes alone.                         *)
LEMMA ArriveMoved ==
  ASSUME TypeOK, ArriveOnce, inbox' = inbox,
         NEW p \in Instances, NEW k \in Deliveries, NEW s \in Stages, Moved(p, k, s),
         stage[p][k] # "idle"
  PROVE  ArriveOnce'
  <1>1. \A q \in Instances, j \in Deliveries : <<q, j>> # <<p, k>> => stage'[q][j] = stage[q][j]
    BY MovedFacts
  <1>2. \A q \in Instances : inbox[q] \subseteq Deliveries
    BY DEF TypeOK
  <1> QED BY <1>1, <1>2 DEF ArriveOnce

LEMMA FlowStep ==
  ASSUME FlowInv, [Next]_vars
  PROVE  FlowInv'
  <1> USE DEF FlowInv
  <1>1. TypeInv'
    BY TypeStep
  <1>2. CASE UNCHANGED <<inbox, stage, cmds>>
    BY <1>1, <1>2 DEF ArriveOnce, AwaitOne
  <1>3. ASSUME NEW e, Broadcast(e), UNCHANGED <<stage, cmds>>
        PROVE  FlowInv'
    <2>1. /\ Len(log) + 1 \in Deliveries /\ Len(log) + 1 \notin DOMAIN log
      BY <1>3, SeqFacts, ConfigAssumption DEF Broadcast, Deliveries, TypeInv, TypeOK
    <2>2. ASSUME NEW p \in Instances, NEW k \in inbox'[p]
          PROVE  stage[p][k] = "idle"
      <3>1. k \in inbox[p] \/ k = Len(log) + 1
        BY <1>3, <2>2 DEF Broadcast
      <3>2. stage[p][Len(log) + 1] = "idle"
        BY <2>1 DEF TypeInv, Known
      <3> QED BY <3>1, <3>2 DEF ArriveOnce
    <2> QED BY <1>1, <1>3, <2>2 DEF ArriveOnce, AwaitOne
  <1>4. ASSUME NEW p \in Instances, NEW k \in Deliveries, Ignore(p, k) \/ Receive(p, k)
        PROVE  FlowInv'
    <2>1. k \in inbox[p] /\ inbox' = [inbox EXCEPT ![p] = @ \ {k}]
      BY <1>4 DEF Ignore, Receive, Arrived
    <2>3. stage[p][k] = "idle"
      BY <2>1 DEF ArriveOnce
    <2>4. PICK s \in Stages : /\ Moved(p, k, s)
                              /\ \/ s = "locking" /\ Sent(p, Set(k))
                                 \/ UNCHANGED cmds
      BY <1>4 DEF Ignore, Receive, Stages, Active
    <2>5. Others(p, k, cmds[p])
      BY <2>3, AllIsOthers
    <2>6. AwaitOne'
      <3>1. \/ cmds' = [cmds EXCEPT ![p] = cmds[p]]
            \/ s = "locking" /\ cmds' = [cmds EXCEPT ![p] = Append(cmds[p], Set(k))]
        BY <2>4 DEF Sent, TypeInv, TypeOK
      <3> QED BY <2>4, <2>5, <3>1, AwaitMoved DEF TypeInv
    <2>7. \A q \in Instances, j \in Deliveries : <<q, j>> # <<p, k>> => stage'[q][j] = stage[q][j]
      BY <2>4, MovedFacts DEF TypeInv
    <2>8. \A q \in Instances : /\ inbox[q] \subseteq Deliveries
                               /\ inbox'[q] = IF q = p THEN inbox[q] \ {k} ELSE inbox[q]
      BY <2>1 DEF TypeInv, TypeOK
    <2>9. ArriveOnce'
      BY <2>7, <2>8 DEF ArriveOnce
    <2> QED BY <1>1, <2>6, <2>9
  <1>5. ASSUME NEW p \in Instances, LockGranted(p) \/ LockDenied(p) \/ LockReleased(p)
        PROVE  FlowInv'
    <2>1. PICK i \in DOMAIN cmds[p], s \in Stages :
            /\ Moved(p, cmds[p][i].task, s)
            /\ \/ cmds' = [cmds EXCEPT ![p] = Rest(p, i)]
               \/ /\ s = "releasing"
                  /\ cmds' = [cmds EXCEPT ![p] = Append(Rest(p, i), Del(cmds[p][i].task))]
      BY <1>5 DEF LockGranted, LockDenied, LockReleased, RunFrom, Stages, Active
    <2> DEFINE k == cmds[p][i].task
    <2>2. Others(p, k, Rest(p, i)) /\ k \in Deliveries /\ stage[p][k] # "idle"
      BY RestIsOthers DEF AwaitOne
    <2>3. /\ Moved(p, k, s)
          /\ \/ cmds' = [cmds EXCEPT ![p] = Rest(p, i)]
             \/ s = "releasing" /\ cmds' = [cmds EXCEPT ![p] = Append(Rest(p, i), Del(k))]
      BY <2>1
    <2>4. inbox' = inbox
      BY <1>5 DEF LockGranted, LockDenied, LockReleased
    <2> HIDE DEF k
    <2> QED BY <1>1, <2>2, <2>3, <2>4, AwaitMoved, ArriveMoved DEF TypeInv
  <1>6. ASSUME NEW p \in Instances, NEW k \in Deliveries, HandlerSettles(p, k)
        PROVE  FlowInv'
    <2>1. stage[p][k] = "handling" /\ inbox' = inbox
      BY <1>6 DEF HandlerSettles
    <2>2. PICK s \in Stages : /\ Moved(p, k, s)
                              /\ \/ cmds' = [cmds EXCEPT ![p] = cmds[p]]
                                 \/ s = "releasing" /\ cmds' = [cmds EXCEPT ![p] = Append(cmds[p], Del(k))]
      BY <1>6 DEF HandlerSettles, RunFrom, Stages, Active
    <2>3. Others(p, k, cmds[p])
      BY <2>1, AllIsOthers
    <2> QED BY <1>1, <2>1, <2>2, <2>3, AwaitMoved, ArriveMoved DEF TypeInv
  <1>7. ASSUME NEW p \in Instances, ExecSet(p) \/ ExecDel(p)
        PROVE  FlowInv'
    <2>1. PICK i \in DOMAIN cmds[p], r \in {"OK", "nil"} : Reply(p, i, r)
      BY <1>7 DEF ExecSet, ExecDel
    <2>2. UNCHANGED <<inbox, stage>>
      BY <1>7 DEF ExecSet, ExecDel, mem
    <2>3. AwaitOne'
      BY <2>1, <2>2, ReplyFacts DEF AwaitOne, TypeInv
    <2> QED BY <1>1, <2>2, <2>3 DEF ArriveOnce
  <1>8. ASSUME NEW p \in MayCrash, Crash(p)
        PROVE  FlowInv'
    <2>1. p \in Instances
      BY ConfigAssumption
    <2>2. \A q \in Instances : q # p => /\ inbox'[q] = inbox[q] /\ cmds'[q] = cmds[q]
                                        /\ stage'[q] = stage[q]
      BY <1>8, <2>1 DEF Crash, TypeInv, TypeOK
    <2>3. inbox'[p] = {} /\ cmds'[p] = <<>>
      BY <1>8, <2>1 DEF Crash, TypeInv, TypeOK
    <2> QED BY <1>1, <2>2, <2>3 DEF ArriveOnce, AwaitOne
  <1>9. ASSUME NEW p \in MayDrop, Reconnect(p)
        PROVE  FlowInv'
    <2>1. \A q \in Instances : /\ DOMAIN cmds'[q] = DOMAIN cmds[q]
                               /\ \A i \in DOMAIN cmds[q] : /\ cmds'[q][i].task = cmds[q][i].task
                                                            /\ cmds'[q][i].op = cmds[q][i].op
      BY <1>9, ResendFacts DEF TypeInv
    <2>2. UNCHANGED <<inbox, stage>>
      BY <1>9 DEF Reconnect
    <2> QED BY <1>1, <2>1, <2>2 DEF ArriveOnce, AwaitOne
  <1>10. ASSUME NEW p \in FlakySub, LoseSubscription(p)
         PROVE  FlowInv'
    <2>1. UNCHANGED <<cmds, stage>> /\ inbox' = [inbox EXCEPT ![p] = {}]
      BY <1>10 DEF LoseSubscription
    <2>2. \A q \in Instances : inbox'[q] \subseteq inbox[q]
      BY <2>1 DEF TypeInv, TypeOK
    <2> QED BY <1>1, <2>1, <2>2 DEF ArriveOnce, AwaitOne
  <1>11. ASSUME Application
         PROVE  FlowInv'
    <2>1. ASSUME NEW p \in Instances, Subscribe(p)
          PROVE  FlowInv'
      BY <1>2, <2>1 DEF Subscribe
    <2>2. ASSUME NEW p \in Instances, NEW c \in Channels, NEW h \in Dynamic,
                 RegistHandler(p, c, h) \/ RemoveHandler(p, c, h)
          PROVE  FlowInv'
      BY <1>2, <2>2 DEF RegistHandler, RemoveHandler
    <2>3. ASSUME NEW p \in Instances, NEW c \in Channels, RemoveAllHandlers(p, c)
          PROVE  FlowInv'
      BY <1>2, <2>3 DEF RemoveAllHandlers
    <2>4. ASSUME NEW s \in Publishers, NEW c \in Channels, PublishMessage(s, c)
          PROVE  FlowInv'
      BY <1>3, <2>4 DEF PublishMessage
    <2>5. ASSUME NEW k \in Deliveries, PublishAgain(k)
          PROVE  FlowInv'
      BY <1>3, <2>5 DEF PublishAgain
    <2> QED BY <1>11, <2>1, <2>2, <2>3, <2>4, <2>5 DEF Application
  <1>12. ASSUME Tick \/ Sleep \/ UNCHANGED vars
         PROVE  FlowInv'
    BY <1>2, <1>12 DEF Tick, Sleep, vars
  <1> QED
    BY <1>4, <1>5, <1>6, <1>7, <1>8, <1>9, <1>10, <1>11, <1>12
    DEF Next, Handling, Server, Faults

LEMMA FlowInit == Init => FlowInv
  BY TypeInit DEF Init, FlowInv, ArriveOnce, AwaitOne

(* LockLives holds whatever fails.                                          *)
LEMMA LivesStep ==
  ASSUME FlowInv, LockLives, [Next]_vars
  PROVE  LockLives'
  <1>1. CASE UNCHANGED redis
    BY <1>1 DEF LockLives, redis
  <1>2. ASSUME NEW p \in Instances, ExecSet(p)
        PROVE  LockLives'
    <2>1. PICK i \in DOMAIN cmds[p] :
            LET k == cmds[p][i].task
            IN  \/ /\ holder' = [holder EXCEPT ![LockKey(k)] = <<p, k>>]
                   /\ ttl' = [ttl EXCEPT ![LockKey(k)] = Ttl]
                \/ UNCHANGED <<holder, ttl>>
      BY <1>2 DEF ExecSet, Expiry
    <2>2. <<p, cmds[p][i].task>> # None /\ Ttl # 0
      BY CmdFacts, ConfigAssumption DEF FlowInv
    <2> QED BY <2>1, <2>2 DEF LockLives, FlowInv, TypeInv, TypeOK
  <1>3. ASSUME NEW p \in Instances, ExecDel(p)
        PROVE  LockLives'
    <2>1. PICK key : /\ holder' = [holder EXCEPT ![key] = None]
                     /\ ttl' = [ttl EXCEPT ![key] = 0]
      BY <1>3 DEF ExecDel
    <2> QED BY <2>1 DEF LockLives, FlowInv, TypeInv, TypeOK
  <1>4. ASSUME Tick
        PROVE  LockLives'
    <2>1. ASSUME NEW key \in Keys
          PROVE  holder'[key] = None <=> ttl'[key] = 0
      <3>1. /\ ttl'[key] = IF ttl[key] > 0 THEN ttl[key] - 1 ELSE 0
            /\ holder'[key] = IF ttl[key] > 1 THEN holder[key] ELSE None
        BY <1>4 DEF Tick
      <3>2. ttl[key] \in Nat
        BY ConfigAssumption DEF FlowInv, TypeInv, TypeOK
      <3>3. holder[key] = None <=> ttl[key] = 0
        BY DEF LockLives
      <3> QED BY <3>1, <3>2, <3>3
    <2> QED BY <2>1 DEF LockLives
  <1>5. Application \/ Handling \/ Faults \/ Sleep \/ UNCHANGED vars
          => UNCHANGED redis
    <2>1. Application => UNCHANGED redis
      BY DEF Application, Subscribe, RegistHandler, RemoveHandler, RemoveAllHandlers,
             PublishMessage, PublishAgain
    <2>2. Handling => UNCHANGED redis
      BY DEF Handling, Ignore, Receive, LockGranted, LockDenied, LockReleased, HandlerSettles
    <2>3. Faults \/ Sleep \/ UNCHANGED vars => UNCHANGED redis
      BY DEF Faults, Crash, Reconnect, LoseSubscription, Sleep, vars
    <2> QED BY <2>1, <2>2, <2>3
  <1> QED BY <1>1, <1>2, <1>3, <1>4, <1>5 DEF Next, Server

(* Steps that neither take nor lose a lock and put no new activation        *)
(* between its SET and its DEL.                                             *)
LEMMA SectionKept ==
  ASSUME SectionHolds, UNCHANGED <<log, redis>>,
         \A q \in Instances, j \in DOMAIN log : InSection(q, j)' => InSection(q, j)
  PROVE  SectionHolds'
  BY DEF SectionHolds, Held, LockKey, redis

OwnOrOld(p, k, queue) ==
  \A n \in DOMAIN queue : \/ queue[n].task = k
                          \/ \E m \in DOMAIN cmds[p] : queue[n] = cmds[p][m]

(* Activation k of p moves on; only its own commands are added.             *)
LEMMA SectionMoved ==
  ASSUME TypeInv, SectionHolds, UNCHANGED <<log, redis>>,
         NEW p \in Instances, NEW k \in Deliveries, NEW s \in Stages, Moved(p, k, s),
         NEW queue, cmds' = [cmds EXCEPT ![p] = queue],
         OwnOrOld(p, k, queue),
         InSection(p, k)' => InSection(p, k)
  PROVE  SectionHolds'
  <1> SUFFICES ASSUME NEW q \in Instances, NEW j \in DOMAIN log, InSection(q, j)',
                      <<q, j>> # <<p, k>>
               PROVE  InSection(q, j)
    BY SectionKept
  <1>1. stage'[q][j] = stage[q][j]
    BY MovedFacts, LogFacts DEF TypeInv
  <1>2. CASE q # p
    <2>1. cmds'[q] = cmds[q]
      BY <1>2 DEF TypeInv, TypeOK
    <2> QED BY <1>1, <2>1 DEF InSection
  <1>3. CASE q = p
    <2>1. cmds'[p] = queue /\ j # k
      BY <1>3 DEF TypeInv, TypeOK
    <2> QED BY <1>1, <1>3, <2>1 DEF InSection, OwnOrOld
  <1> QED BY <1>2, <1>3

(* Under the conditions of MutualExclusion every step keeps the lock with   *)
(* the activation that is between its SET and its DEL.                      *)
LEMMA SectionStep ==
  ASSUME FlowInv, LockLives, SectionHolds, [Next]_vars,
         MayDrop = {}, MaxBusy < Ttl
  PROVE  SectionHolds'
  <1> USE DEF FlowInv
  <1>1. CASE UNCHANGED <<log, stage, cmds, redis>>
    BY <1>1, SectionKept DEF InSection
  <1>2. ASSUME NEW e, Broadcast(e), UNCHANGED <<stage, cmds, redis>>
        PROVE  SectionHolds'
    <2>1. /\ DOMAIN log' = DOMAIN log \cup {Len(log) + 1}
          /\ Len(log) + 1 \in Deliveries /\ Len(log) + 1 \notin DOMAIN log
          /\ \A k \in DOMAIN log : log'[k] = log[k]
      <3> DEFINE Entry == [id : Deliveries, from : Senders, channel : Channels]
      <3>1. log \in Seq(Entry) /\ log' = Append(log, e) /\ Len(log) < MaxPublishes
        BY <1>2 DEF Broadcast, TypeInv, TypeOK
      <3> HIDE DEF Entry
      <3>2. log \in Seq(Entry \cup {e}) /\ e \in Entry \cup {e}
        BY <3>1
      <3> QED BY <3>1, <3>2, AppendFacts, SeqFacts, ConfigAssumption DEF Deliveries
    <2>2. \A q \in Instances : ~ InSection(q, Len(log) + 1)
      BY <2>1 DEF InSection, TypeInv, Known
    <2>3. \A q \in Instances : \A k : InSection(q, k)' <=> InSection(q, k)
      BY <1>2 DEF InSection
    <2> QED BY <1>2, <2>1, <2>2, <2>3 DEF SectionHolds, Held, LockKey, redis
  <1>3. ASSUME NEW p \in Instances, NEW k \in Deliveries, Ignore(p, k) \/ Receive(p, k)
        PROVE  SectionHolds'
    <2>1. stage[p][k] = "idle"
      BY <1>3 DEF Ignore, Receive, Arrived, ArriveOnce
    <2>2. PICK s \in Stages : Moved(p, k, s) /\ s # "handling"
      BY <1>3, <2>1 DEF Ignore, Receive, Stages, Active
    <2>3. UNCHANGED <<log, redis>>
      BY <1>3 DEF Ignore, Receive
    <2>4. PICK queue : /\ queue = cmds[p] \/ queue = Append(cmds[p], Set(k))
                       /\ cmds' = [cmds EXCEPT ![p] = queue]
      <3>1. cmds = [cmds EXCEPT ![p] = cmds[p]]
        BY DEF TypeInv, TypeOK
      <3> QED BY <1>3, <2>1, <3>1 DEF Ignore, Receive, Sent
    <2>5. \A n \in DOMAIN queue : \/ queue[n] = Set(k)
                                  \/ \E m \in DOMAIN cmds[p] : queue[n] = cmds[p][m]
      <3>1. cmds[p] \in Seq(Command) /\ Set(k) \in Command
        BY <2>1, CommandFacts DEF TypeInv, TypeOK
      <3> QED BY <2>4, <3>1, AppendFacts, SeqFacts
    <2>6. Set(k).task = k /\ Set(k).op = "SET" /\ Set(k).reply = "none"
      BY DEF Set
    <2>7. ~ InSection(p, k)'
      <3>1. stage'[p][k] # "handling"
        BY <2>1, <2>2, MovedFacts DEF TypeInv
      <3>2. cmds'[p] = queue
        BY <2>4 DEF TypeInv, TypeOK
      <3>3. \A m \in DOMAIN cmds[p] : cmds[p][m].task # k
        BY <2>1 DEF AwaitOne
      <3> QED BY <2>5, <2>6, <3>1, <3>2, <3>3 DEF InSection
    <2>8. OwnOrOld(p, k, queue)
      BY <2>5, <2>6 DEF OwnOrOld
    <2> QED BY <2>2, <2>3, <2>4, <2>7, <2>8, SectionMoved
  <1>4. ASSUME NEW p \in Instances, NEW i \in DOMAIN cmds[p], NEW s \in Stages, NEW queue,
               UNCHANGED <<log, redis>>,
               Moved(p, cmds[p][i].task, s), cmds' = [cmds EXCEPT ![p] = queue],
               \/ queue = Rest(p, i) /\ s # "handling"
               \/ /\ cmds[p][i].op = "SET" /\ cmds[p][i].reply = "OK"
                  /\ queue = Rest(p, i) \/ queue = Append(Rest(p, i), Del(cmds[p][i].task))
        PROVE  SectionHolds'
    <2>1. PICK k \in Deliveries : k = cmds[p][i].task
      BY CmdFacts
    <2>2. Moved(p, k, s) /\ Others(p, k, Rest(p, i))
      BY <1>4, <2>1, RestIsOthers
    <2>3. PICK own \in {0, 1} : own = 1 <=> cmds[p][i].op = "SET" /\ cmds[p][i].reply = "OK"
      OBVIOUS
    <2>4. own = 1 => InSection(p, k)
      BY <2>1, <2>3 DEF InSection
    <2>5. /\ s = "handling" => own = 1
          /\ queue = Rest(p, i) \/ (own = 1 /\ queue = Append(Rest(p, i), Del(k)))
      BY <1>4, <2>1, <2>3
    <2>6. \A n \in DOMAIN queue : \/ queue[n].task = k /\ own = 1
                                  \/ /\ queue[n].task # k
                                     /\ \E m \in DOMAIN cmds[p] : queue[n] = cmds[p][m]
      <3>1. Rest(p, i) \in Seq(Command) /\ Del(k) \in Command /\ Del(k).task = k
        BY <2>2, CommandFacts DEF Others, Del
      <3>2. \A n \in DOMAIN Rest(p, i) :
              /\ Rest(p, i)[n].task # k
              /\ \E m \in DOMAIN cmds[p] : Rest(p, i)[n] = cmds[p][m]
        BY <2>2 DEF Others
      <3>3. CASE queue = Rest(p, i)
        BY <3>2, <3>3
      <3>4. CASE own = 1 /\ queue = Append(Rest(p, i), Del(k))
        <4>1. \A n \in DOMAIN queue : \/ queue[n] = Del(k)
                                      \/ n \in DOMAIN Rest(p, i) /\ queue[n] = Rest(p, i)[n]
          BY <3>1, <3>4, AppendFacts, SeqFacts
        <4> QED BY <3>1, <3>2, <3>4, <4>1
      <3> QED BY <2>5, <3>3, <3>4
    <2>7. InSection(p, k)' => InSection(p, k)
      <3>1. stage'[p][k] = s
        BY <2>2, MovedFacts DEF TypeInv
      <3>2. cmds'[p] = queue
        BY <1>4 DEF TypeInv, TypeOK
      <3> QED BY <2>4, <2>5, <2>6, <3>1, <3>2 DEF InSection
    <2>8. OwnOrOld(p, k, queue)
      BY <2>6 DEF OwnOrOld
    <2> QED BY <1>4, <2>2, <2>7, <2>8, SectionMoved
  <1>14. ASSUME NEW p \in Instances, LockGranted(p) \/ LockDenied(p) \/ LockReleased(p)
         PROVE  SectionHolds'
    <2>1. UNCHANGED <<log, redis>>
      BY <1>14 DEF LockGranted, LockDenied, LockReleased
    <2>2. CASE LockGranted(p)
      <3>1. PICK i \in DOMAIN cmds[p] : /\ cmds[p][i].op = "SET" /\ cmds[p][i].reply = "OK"
                                       /\ RunFrom(p, cmds[p][i].task, 1, Rest(p, i))
        BY <2>2 DEF LockGranted, Answered
      <3>2. PICK s \in Stages : Moved(p, cmds[p][i].task, s)
        BY <3>1 DEF RunFrom, Stages, Active
      <3>3. \/ cmds' = [cmds EXCEPT ![p] = Rest(p, i)]
            \/ cmds' = [cmds EXCEPT ![p] = Append(Rest(p, i), Del(cmds[p][i].task))]
        BY <3>1 DEF RunFrom
      <3> QED BY <1>4, <2>1, <3>1, <3>2, <3>3
    <2>3. CASE LockDenied(p)
      <3>1. PICK i \in DOMAIN cmds[p] : /\ Moved(p, cmds[p][i].task, "skipped")
                                       /\ cmds' = [cmds EXCEPT ![p] = Rest(p, i)]
        BY <2>3 DEF LockDenied
      <3>2. "skipped" \in Stages
        BY DEF Stages
      <3> QED BY <1>4, <2>1, <3>1, <3>2
    <2>4. CASE LockReleased(p)
      <3>1. PICK i \in DOMAIN cmds[p] : /\ Moved(p, cmds[p][i].task, "done")
                                       /\ cmds' = [cmds EXCEPT ![p] = Rest(p, i)]
        BY <2>4 DEF LockReleased
      <3>2. "done" \in Stages
        BY DEF Stages
      <3> QED BY <1>4, <2>1, <3>1, <3>2
    <2> QED BY <1>14, <2>2, <2>3, <2>4
  <1>5. ASSUME NEW p \in Instances, NEW k \in Deliveries, HandlerSettles(p, k)
        PROVE  SectionHolds'
    <2>1. stage[p][k] = "handling" /\ UNCHANGED <<log, redis>> /\ InSection(p, k)
      BY <1>5 DEF HandlerSettles, InSection
    <2>2. PICK s \in Stages : Moved(p, k, s)
      BY <1>5 DEF HandlerSettles, RunFrom, Stages, Active
    <2>3. PICK queue : /\ queue = cmds[p] \/ queue = Append(cmds[p], Del(k))
                       /\ cmds' = [cmds EXCEPT ![p] = queue]
      BY <1>5 DEF HandlerSettles, RunFrom
    <2>4. OwnOrOld(p, k, queue)
      <3>1. cmds[p] \in Seq(Command) /\ Del(k) \in Command /\ Del(k).task = k
        BY CommandFacts DEF TypeInv, TypeOK, Del
      <3> QED BY <2>3, <3>1, AppendFacts, SeqFacts DEF OwnOrOld
    <2> QED BY <2>1, <2>2, <2>3, <2>4, SectionMoved
  <1>6. ASSUME NEW p \in Instances, NEW i \in DOMAIN cmds[p], NEW r \in {"OK", "nil"},
               Reply(p, i, r), UNCHANGED <<log, stage>>,
               NEW q \in Instances, NEW j \in DOMAIN log, InSection(q, j)',
               <<q, j>> # <<p, cmds[p][i].task>>
        PROVE  InSection(q, j) /\ Held(q, j) /\ ttl[LockKey(j)] + MaxBusy >= Ttl
    <2>1. /\ DOMAIN cmds'[q] = DOMAIN cmds[q]
          /\ \A n \in DOMAIN cmds[q] : cmds'[q][n].task = j => cmds'[q][n] = cmds[q][n]
      BY <1>6, ReplyFacts DEF TypeInv
    <2>2. InSection(q, j)
      BY <1>6, <2>1 DEF InSection
    <2> QED BY <2>2 DEF SectionHolds
  <1>7. ASSUME NEW p \in Instances, ExecSet(p)
        PROVE  SectionHolds'
    <2>10. PICK i \in DOMAIN cmds[p] :
            LET k   == cmds[p][i].task
                key == LockKey(k)
            IN  /\ cmds[p][i].op = "SET"
                /\ \/ /\ holder[key] = None
                      /\ holder' = [holder EXCEPT ![key] = <<p, k>>]
                      /\ ttl' = [ttl EXCEPT ![key] = Ttl]
                      /\ Reply(p, i, "OK")
                   \/ /\ Reply(p, i, "nil")
                      /\ UNCHANGED <<holder, ttl>>
      BY <1>7 DEF ExecSet, Free, Expiry
    <2>11. PICK k \in Deliveries : k = cmds[p][i].task
      BY CmdFacts
    <2>12. PICK key : key = LockKey(k)
      OBVIOUS
    <2>1. PICK r \in {"OK", "nil"} :
            /\ Reply(p, i, r) /\ cmds[p][i].op = "SET"
            /\ \/ /\ holder[key] = None /\ r = "OK"
                  /\ holder' = [holder EXCEPT ![key] = <<p, k>>]
                  /\ ttl' = [ttl EXCEPT ![key] = Ttl]
               \/ /\ r = "nil"
                  /\ UNCHANGED <<holder, ttl>>
      BY <2>10, <2>11, <2>12
    <2>2. UNCHANGED <<log, stage>>
      BY <1>7 DEF ExecSet
    <2>3. k \in DOMAIN log /\ key \in Keys /\ stage[p][k] = "locking"
      BY <2>11, <2>12, <2>1, CmdFacts, LogFacts DEF AwaitOne, TypeInv
    <2> SUFFICES ASSUME NEW q \in Instances, NEW j \in DOMAIN log, InSection(q, j)'
                 PROVE  /\ holder'[LockKey(j)] = <<q, j>>
                        /\ ttl'[LockKey(j)] + MaxBusy >= Ttl
      BY <2>2 DEF SectionHolds, Held, LockKey
    <2>4. CASE <<q, j>> = <<p, k>>
      <3>1. CASE r = "OK"
        <4>1. holder'[key] = <<p, k>> /\ ttl'[key] = Ttl
          BY <2>11, <2>12, <2>1, <2>3, <3>1 DEF TypeInv, TypeOK
        <4> QED BY <2>11, <2>12, <2>1, <2>4, <4>1, ConfigAssumption
      <3>2. CASE r = "nil"
        <4>1. /\ cmds'[p][i].reply = "nil" /\ cmds'[p][i].op = "SET"
              /\ DOMAIN cmds'[p] = DOMAIN cmds[p]
              /\ \A n \in DOMAIN cmds[p] : cmds'[p][n].task = k => n = i
          BY <2>11, <2>12, <2>1, <3>2, ReplyFacts DEF AwaitOne, TypeInv
        <4>2. ~ InSection(p, k)'
          BY <2>2, <2>3, <4>1 DEF InSection
        <4> QED BY <2>4, <4>2
      <3> QED BY <3>1, <3>2
    <2>5. CASE <<q, j>> # <<p, k>>
      <3>1. Held(q, j) /\ ttl[LockKey(j)] + MaxBusy >= Ttl
        BY <1>6, <2>11, <2>1, <2>2, <2>5
      <3>2. holder[LockKey(j)] # None
        BY <3>1, LogFacts, ConfigAssumption DEF Held, Tasks, TypeInv
      <3>3. holder'[LockKey(j)] = holder[LockKey(j)] /\ ttl'[LockKey(j)] = ttl[LockKey(j)]
        BY <2>11, <2>12, <2>1, <3>2, LogFacts DEF TypeInv, TypeOK
      <3> QED BY <3>1, <3>3 DEF Held
    <2> QED BY <2>4, <2>5
  <1>8. ASSUME NEW p \in Instances, ExecDel(p)
        PROVE  SectionHolds'
    <2>10. PICK i \in DOMAIN cmds[p] :
             LET key == LockKey(cmds[p][i].task)
             IN  /\ NextCommand(p, i)
                 /\ cmds[p][i].op = "DEL"
                 /\ holder' = [holder EXCEPT ![key] = None]
                 /\ ttl' = [ttl EXCEPT ![key] = 0]
                 /\ Reply(p, i, "OK")
      BY <1>8 DEF ExecDel
    <2>11. PICK k \in Deliveries : k = cmds[p][i].task
      BY CmdFacts
    <2>12. PICK key : key = LockKey(k)
      OBVIOUS
    <2>1. /\ k = cmds[p][i].task /\ key = LockKey(k)
          /\ Reply(p, i, "OK") /\ cmds[p][i].op = "DEL" /\ cmds[p][i].reply = "none"
          /\ holder' = [holder EXCEPT ![key] = None]
          /\ ttl' = [ttl EXCEPT ![key] = 0]
      BY <2>10, <2>11, <2>12 DEF NextCommand
    <2>2. UNCHANGED <<log, stage>>
      BY <1>8 DEF ExecDel, mem
    <2>3. k \in DOMAIN log /\ stage[p][k] = "releasing"
      BY <2>1, CmdFacts DEF AwaitOne
    <2>4. holder[key] = <<p, k>>
      BY <2>1, <2>3 DEF InSection, SectionHolds, Held
    <2>5. ~ InSection(p, k)'
      <3>1. /\ cmds'[p][i].reply = "OK" /\ cmds'[p][i].op = "DEL"
            /\ DOMAIN cmds'[p] = DOMAIN cmds[p]
            /\ \A n \in DOMAIN cmds[p] : cmds'[p][n].task = k => n = i
        BY <2>1, ReplyFacts DEF AwaitOne, TypeInv
      <3> QED BY <2>2, <2>3, <3>1 DEF InSection
    <2> SUFFICES ASSUME NEW q \in Instances, NEW j \in DOMAIN log, InSection(q, j)'
                 PROVE  /\ holder'[LockKey(j)] = <<q, j>>
                        /\ ttl'[LockKey(j)] + MaxBusy >= Ttl
      BY <2>2 DEF SectionHolds, Held, LockKey
    <2>6. <<q, j>> # <<p, k>>
      BY <2>5
    <2>7. Held(q, j) /\ ttl[LockKey(j)] + MaxBusy >= Ttl
      BY <1>6, <2>1, <2>2, <2>6
    <2>8. LockKey(j) # key
      BY <2>4, <2>6, <2>7 DEF Held
    <2>9. holder'[LockKey(j)] = holder[LockKey(j)] /\ ttl'[LockKey(j)] = ttl[LockKey(j)]
      BY <2>1, <2>8, LogFacts DEF TypeInv, TypeOK
    <2> QED BY <2>7, <2>9 DEF Held
  <1>9. ASSUME Tick
        PROVE  SectionHolds'
    <2>1. UNCHANGED <<log, stage, cmds>>
      BY <1>9 DEF Tick
    <2> SUFFICES ASSUME NEW q \in Instances, NEW j \in DOMAIN log, InSection(q, j)
                 PROVE  /\ holder'[LockKey(j)] = <<q, j>>
                        /\ ttl'[LockKey(j)] + MaxBusy >= Ttl
      BY <2>1 DEF SectionHolds, Held, LockKey, InSection
    <2> DEFINE key == LockKey(j)
    <2>2. key \in Keys
      BY LogFacts DEF TypeInv
    <2>3. holder[key] = <<q, j>> /\ Ttl - ttl[key] < MaxBusy
      BY <1>9 DEF Tick, SectionHolds, Held
    <2>4. ttl[key] \in Nat /\ Ttl \in Nat /\ MaxBusy \in Nat
      BY <2>2, ConfigAssumption DEF TypeInv, TypeOK
    <2>5. /\ ttl'[key] = IF ttl[key] > 0 THEN ttl[key] - 1 ELSE 0
          /\ holder'[key] = IF ttl[key] > 1 THEN holder[key] ELSE None
      BY <1>9, <2>2 DEF Tick
    <2> HIDE DEF key
    <2>6. ttl[key] > 1
      BY <2>3, <2>4
    <2>7. holder'[key] = <<q, j>> /\ ttl'[key] + MaxBusy >= Ttl
      BY <2>3, <2>4, <2>5, <2>6
    <2> QED BY <2>7 DEF key
  <1>10. ASSUME NEW p \in MayCrash, Crash(p)
         PROVE  SectionHolds'
    <2>1. p \in Instances /\ UNCHANGED <<log, redis>>
      BY <1>10, ConfigAssumption DEF Crash
    <2>2. /\ cmds'[p] = <<>>
          /\ \A k \in Deliveries : stage'[p][k] # "handling"
      BY <1>10, <2>1 DEF Crash, TypeInv, TypeOK, Active
    <2>3. \A q \in Instances : q # p => cmds'[q] = cmds[q] /\ stage'[q] = stage[q]
      BY <1>10, <2>1 DEF Crash, TypeInv, TypeOK
    <2>4. ASSUME NEW q \in Instances, NEW j \in DOMAIN log, InSection(q, j)'
          PROVE  InSection(q, j)
      <3>1. q # p
        BY <2>2, <2>4, LogFacts DEF InSection, TypeInv
      <3> QED BY <2>3, <2>4, <3>1 DEF InSection
    <2> QED BY <2>1, <2>4, SectionKept
  <1>11. ASSUME Application
         PROVE  SectionHolds'
    <2>1. ASSUME NEW p \in Instances, Subscribe(p)
          PROVE  SectionHolds'
      BY <1>1, <2>1 DEF Subscribe
    <2>2. ASSUME NEW p \in Instances, NEW c \in Channels, NEW h \in Dynamic,
                 RegistHandler(p, c, h) \/ RemoveHandler(p, c, h)
          PROVE  SectionHolds'
      BY <1>1, <2>2 DEF RegistHandler, RemoveHandler
    <2>3. ASSUME NEW p \in Instances, NEW c \in Channels, RemoveAllHandlers(p, c)
          PROVE  SectionHolds'
      BY <1>1, <2>3 DEF RemoveAllHandlers
    <2>4. ASSUME NEW s \in Publishers, NEW c \in Channels, PublishMessage(s, c)
          PROVE  SectionHolds'
      BY <1>2, <2>4 DEF PublishMessage
    <2>5. ASSUME NEW k \in Deliveries, PublishAgain(k)
          PROVE  SectionHolds'
      BY <1>2, <2>5 DEF PublishAgain
    <2> QED BY <1>11, <2>1, <2>2, <2>3, <2>4, <2>5 DEF Application
  <1>12. ASSUME NEW p \in FlakySub, LoseSubscription(p)
         PROVE  SectionHolds'
    BY <1>1, <1>12 DEF LoseSubscription
  <1>13. ASSUME Sleep \/ UNCHANGED vars
         PROVE  SectionHolds'
    BY <1>1, <1>13 DEF Sleep, vars
  <1> QED
    BY <1>3, <1>5, <1>7, <1>8, <1>9, <1>10, <1>11, <1>12, <1>13, <1>14
    DEF Next, Handling, Server, Faults

(* The strengthening of MutualExclusion is inductive while no command is    *)
(* sent twice and handling takes less than the ttl.                         *)
THEOREM LockInvariant ==
  ASSUME MayDrop = {}, MaxBusy < Ttl
  PROVE  Spec => []LockInv
  <1> DEFINE Inv == FlowInv /\ LockLives /\ SectionHolds
  <1>1. Init => Inv
    <2>1. Init => LockLives
      BY DEF Init, LockLives
    <2>2. Init => SectionHolds
      BY DEF Init, SectionHolds
    <2> QED BY <2>1, <2>2, FlowInit
  <1>2. Inv /\ [Next]_vars => Inv'
    BY FlowStep, LivesStep, SectionStep
  <1>3. Inv => LockInv
    BY DEF FlowInv, TypeInv, LockInv
  <1> QED BY <1>1, <1>2, <1>3, PTL DEF Spec

(* MutualExclusion for any number of instances, messages and deliveries.    *)
THEOREM MutualExclusionHolds ==
  ASSUME MayDrop = {}, MaxBusy < Ttl
  PROVE  Spec => []MutualExclusion
  <1>1. LockInv => MutualExclusion
    <2> SUFFICES ASSUME LockInv,
                        NEW p \in Instances, NEW q \in Instances,
                        NEW j \in DOMAIN log, NEW k \in DOMAIN log,
                        stage[p][j] = "handling", stage[q][k] = "handling",
                        Message(j) = Message(k)
                 PROVE  p = q /\ j = k
      BY DEF MutualExclusion
    <2>1. holder[LockKey(j)] = <<p, j>> /\ holder[LockKey(k)] = <<q, k>>
      BY DEF LockInv, SectionHolds, InSection, Held
    <2>2. LockKey(j) = LockKey(k)
      BY LogFacts DEF LockInv
    <2> QED BY <2>1, <2>2
  <1> QED BY <1>1, LockInvariant, PTL

(* No DEL removes the lock of another activation.                           *)
THEOREM ReleaseIsOwnHolds ==
  ASSUME MayDrop = {}, MaxBusy < Ttl
  PROVE  Spec => ReleaseIsOwn
  <1>1. LockInv => \A p \in Instances : \A i \in DOMAIN cmds[p] :
                     cmds[p][i].op = "DEL" /\ cmds[p][i].reply = "none"
                       => Held(p, cmds[p][i].task)
    BY DEF LockInv, Known, SectionHolds, InSection
  <1>2. LockInv /\ [Next]_vars =>
          [\A p \in Instances : \A i \in DOMAIN cmds[p] :
             /\ cmds[p][i].op = "DEL" /\ cmds[p][i].reply = "none"
             /\ i \in DOMAIN cmds'[p] /\ cmds'[p][i] = [cmds[p][i] EXCEPT !.reply = "OK"]
             => Held(p, cmds[p][i].task)]_vars
    BY <1>1
  <1> QED BY <1>2, LockInvariant, PTL DEF Spec, ReleaseIsOwn
=============================================================================
