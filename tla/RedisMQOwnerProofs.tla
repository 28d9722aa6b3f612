------------------------- MODULE RedisMQOwnerProofs -------------------------
EXTENDS RedisMQServiceProofs

(* Who owns a lock was granted it, and who is skipped was denied it by      *)
(* another owner: the strengthening of NoLeakedLock and SkipIsCovered.      *)
Owners ==
  \A key \in Keys, p \in Instances, k \in Deliveries :
    holder[key] = <<p, k>> => k \in DOMAIN log /\ key = LockKey(k) /\ Granted(p, k)

Covered(p, k) ==
  \E q \in Instances, j \in DOMAIN log :
    <<q, j>> # <<p, k>> /\ Message(j) = Message(k) /\ Granted(q, j)

IsDenied(command) == command.op = "SET" /\ command.reply = "nil"

Denials ==
  \A p \in Instances, k \in DOMAIN log :
    (\E i \in DOMAIN cmds[p] : IsDenied(cmds[p][i]) /\ cmds[p][i].task = k) => Covered(p, k)

OwnerInv == FlowInv /\ Owners /\ NoLeakedLock /\ Denials /\ SkipIsCovered

-----------------------------------------------------------------------------
(* Activation k of p goes on to stage s and leaves queue as the commands in *)
(* flight; the commands of other activations stay.                          *)
Goes(p, k, s, queue) ==
  /\ Moved(p, k, s)
  /\ cmds' = [cmds EXCEPT ![p] = queue]
  /\ \A i \in DOMAIN cmds[p] : cmds[p][i].task # k => \E n \in DOMAIN queue : queue[n] = cmds[p][i]
  /\ \A n \in DOMAIN queue : \/ queue[n].reply = "none"
                             \/ \E i \in DOMAIN cmds[p] : queue[n] = cmds[p][i]

(* What the step of an activation does to its grant and to its section.     *)
Orderly(p, k, s, queue) ==
  /\ Granted(p, k) => s \in {"handling", "releasing", "done"}
  /\ InSection(p, k) => s = "handling" \/ \E n \in DOMAIN queue : queue[n] = Del(k)
  /\ s = "handling" => InSection(p, k)
  /\ s = "skipped" => \E i \in DOMAIN cmds[p] : IsDenied(cmds[p][i]) /\ cmds[p][i].task = k

LEMMA AppendKeeps ==
  ASSUME NEW S, NEW s \in Seq(S), NEW x \in S
  PROVE  /\ \A i \in DOMAIN s : \E n \in DOMAIN Append(s, x) : Append(s, x)[n] = s[i]
         /\ \A n \in DOMAIN Append(s, x) : Append(s, x)[n] = x \/ \E i \in DOMAIN s : Append(s, x)[n] = s[i]
         /\ \E n \in DOMAIN Append(s, x) : Append(s, x)[n] = x
  <1>1. /\ DOMAIN Append(s, x) = 1..(Len(s) + 1) /\ DOMAIN s = 1..Len(s) /\ Len(s) \in Nat
        /\ \A i \in DOMAIN s : Append(s, x)[i] = s[i]
        /\ Append(s, x)[Len(s) + 1] = x
    BY AppendFacts, SeqFacts
  <1>2. \A n \in DOMAIN Append(s, x) : n \in DOMAIN s \/ n = Len(s) + 1
    BY <1>1
  <1>3. /\ \A i \in DOMAIN s : i \in DOMAIN Append(s, x)
        /\ Len(s) + 1 \in DOMAIN Append(s, x)
    BY <1>1
  <1> QED BY <1>1, <1>2, <1>3

(* Going on with one more command.                                          *)
LEMMA GoesSending ==
  ASSUME NEW p, NEW k, NEW s, NEW rest \in Seq(Command),
         NEW c \in Command, c.reply = "none",
         NEW queue, queue = Append(rest, c),
         \A i \in DOMAIN cmds[p] : cmds[p][i].task # k => \E n \in DOMAIN rest : rest[n] = cmds[p][i],
         \A n \in DOMAIN rest : \E i \in DOMAIN cmds[p] : rest[n] = cmds[p][i],
         Moved(p, k, s), cmds' = [cmds EXCEPT ![p] = queue]
  PROVE  Goes(p, k, s, queue)
  <1>1. /\ \A i \in DOMAIN rest : \E n \in DOMAIN queue : queue[n] = rest[i]
        /\ \A n \in DOMAIN queue : queue[n] = c \/ \E i \in DOMAIN rest : queue[n] = rest[i]
        /\ \E n \in DOMAIN queue : queue[n] = c
    BY AppendKeeps
  <1>2. ASSUME NEW i \in DOMAIN cmds[p], cmds[p][i].task # k
        PROVE  \E n \in DOMAIN queue : queue[n] = cmds[p][i]
    BY <1>1, <1>2
  <1>3. ASSUME NEW n \in DOMAIN queue
        PROVE  queue[n].reply = "none" \/ \E i \in DOMAIN cmds[p] : queue[n] = cmds[p][i]
    BY <1>1
  <1> QED BY <1>1, <1>2, <1>3 DEF Goes

(* The answered command i in flight is the one activation k awaits; every   *)
(* other one is of another activation and stays in the rest of the queue.   *)
LEMMA AnsweredFacts ==
  ASSUME FlowInv, NEW p \in Instances, NEW i \in DOMAIN cmds[p]
  PROVE  \E k \in Deliveries :
           /\ k = cmds[p][i].task /\ k \in DOMAIN log
           /\ Rest(p, i) \in Seq(Command)
           /\ \A n \in DOMAIN cmds[p] : cmds[p][n].task = k <=> n = i
           /\ \A n \in DOMAIN cmds[p] : cmds[p][n].task # k =>
                \E m \in DOMAIN Rest(p, i) : Rest(p, i)[m] = cmds[p][n]
           /\ \A m \in DOMAIN Rest(p, i) : \E n \in DOMAIN cmds[p] : Rest(p, i)[m] = cmds[p][n]
  <1>1. cmds[p] \in Seq(Command) /\ cmds[p][i].task \in Deliveries /\ cmds[p][i].task \in DOMAIN log
    BY CmdFacts DEF FlowInv
  <1>2. /\ DOMAIN cmds[p] = 1..Len(cmds[p]) /\ Len(cmds[p]) \in Nat
        /\ DOMAIN Rest(p, i) = 1..(Len(cmds[p]) - 1)
        /\ \A n \in DOMAIN Rest(p, i) :
             IF n < i THEN n \in DOMAIN cmds[p] /\ Rest(p, i)[n] = cmds[p][n]
                      ELSE n + 1 \in DOMAIN cmds[p] /\ Rest(p, i)[n] = cmds[p][n + 1]
    BY <1>1, RemoveAtFacts, SeqFacts DEF Rest
  <1>3. \A n \in DOMAIN cmds[p] : cmds[p][n].task = cmds[p][i].task <=> n = i
    BY DEF FlowInv, AwaitOne
  <1>4. ASSUME NEW n \in DOMAIN cmds[p], n # i
        PROVE  \E m \in DOMAIN Rest(p, i) : Rest(p, i)[m] = cmds[p][n]
    <2>1. CASE n < i
      <3>1. n \in DOMAIN Rest(p, i)
        BY <1>2, <2>1
      <3> QED BY <1>2, <2>1, <3>1
    <2>2. CASE ~ (n < i)
      <3>1. n - 1 \in DOMAIN Rest(p, i) /\ ~ (n - 1 < i) /\ n - 1 + 1 = n
        BY <1>2, <1>4, <2>2
      <3> QED BY <1>2, <3>1
    <2> QED BY <2>1, <2>2
  <1>5. \A m \in DOMAIN Rest(p, i) : \E n \in DOMAIN cmds[p] : Rest(p, i)[m] = cmds[p][n]
    BY <1>2
  <1>6. Rest(p, i) \in Seq(Command)
    BY RestFacts DEF FlowInv
  <1> QED BY <1>1, <1>3, <1>4, <1>5, <1>6

(* An activation that is granted the lock is locking only while its SET has *)
(* been answered.                                                           *)
LEMMA LockingFacts ==
  ASSUME FlowInv, NEW p \in Instances, NEW i \in DOMAIN cmds[p],
         NEW k, k = cmds[p][i].task
  PROVE  /\ Granted(p, k) <=> cmds[p][i].op = "DEL" \/ cmds[p][i].reply = "OK"
         /\ InSection(p, k) <=> \/ cmds[p][i].op = "SET" /\ cmds[p][i].reply = "OK"
                                \/ cmds[p][i].op = "DEL" /\ cmds[p][i].reply = "none"
  <1>1. /\ stage[p][k] = IF cmds[p][i].op = "SET" THEN "locking" ELSE "releasing"
        /\ \A j \in DOMAIN cmds[p] : cmds[p][j].task = k <=> j = i
    BY DEF FlowInv, AwaitOne
  <1>2. cmds[p][i].op \in {"SET", "DEL"}
    <2>1. cmds[p][i] \in Command
      BY CmdFacts DEF FlowInv
    <2> QED BY <2>1 DEF Command
  <1> QED BY <1>1, <1>2 DEF Granted, InSection

(* Every step of handleMessage is the orderly step of one activation.       *)
LEMMA HandlingGoes ==
  ASSUME FlowInv, Handling
  PROVE  /\ \E p \in Instances, k \in Deliveries, s \in Stages : \E queue :
              Goes(p, k, s, queue) /\ Orderly(p, k, s, queue)
         /\ UNCHANGED <<log, alive, redis>>
  <1>0. UNCHANGED <<log, alive, redis>>
    BY DEF Handling, Ignore, Receive, LockGranted, LockDenied, LockReleased, HandlerSettles
  <1>1. ASSUME NEW p \in Instances, NEW k \in Deliveries, Ignore(p, k) \/ Receive(p, k)
        PROVE  \E s \in Stages : \E queue : Goes(p, k, s, queue) /\ Orderly(p, k, s, queue)
    <2>1. stage[p][k] = "idle"
      BY <1>1 DEF Ignore, Receive, Arrived, FlowInv, ArriveOnce
    <2>2. \A i \in DOMAIN cmds[p] : cmds[p][i].task # k
      BY <2>1 DEF FlowInv, AwaitOne
    <2>3. ~ Granted(p, k) /\ ~ InSection(p, k)
      BY <2>1, <2>2 DEF Granted, InSection
    <2>4. cmds[p] \in Seq(Command) /\ Set(k) \in Command /\ Set(k).reply = "none"
      BY CommandFacts DEF Set, FlowInv, TypeInv, TypeOK
    <2>5. CASE Ignore(p, k)
      <3>1. Goes(p, k, "ignored", cmds[p])
        BY <2>1, <2>5 DEF Ignore, Goes, FlowInv, TypeInv, TypeOK
      <3> QED BY <2>3, <3>1 DEF Orderly, Stages
    <2>6. CASE Receive(p, k)
      <3>1. Moved(p, k, "locking") /\ cmds' = [cmds EXCEPT ![p] = Append(cmds[p], Set(k))]
        BY <2>1, <2>6 DEF Receive, Sent
      <3>2. Goes(p, k, "locking", Append(cmds[p], Set(k)))
        BY <2>4, <3>1, GoesSending
      <3> QED BY <2>3, <3>2 DEF Orderly, Stages, Active
    <2> QED BY <1>1, <2>5, <2>6
  <1>2. ASSUME NEW p \in Instances, LockGranted(p) \/ LockDenied(p) \/ LockReleased(p)
        PROVE  \E k \in Deliveries, s \in Stages : \E queue :
                 Goes(p, k, s, queue) /\ Orderly(p, k, s, queue)
    <2>1. PICK i \in DOMAIN cmds[p], k \in Deliveries :
            /\ k = cmds[p][i].task
            /\ \/ /\ cmds[p][i].op = "SET" /\ cmds[p][i].reply = "OK"
                  /\ RunFrom(p, k, 1, Rest(p, i))
               \/ /\ cmds[p][i].op = "SET" /\ cmds[p][i].reply = "nil" /\ Moved(p, k, "skipped")
                  /\ cmds' = [cmds EXCEPT ![p] = Rest(p, i)]
               \/ /\ cmds[p][i].op = "DEL" /\ cmds[p][i].reply = "OK" /\ Moved(p, k, "done")
                  /\ cmds' = [cmds EXCEPT ![p] = Rest(p, i)]
      <3>1. \A i \in DOMAIN cmds[p] : cmds[p][i].task \in Deliveries
        BY CmdFacts DEF FlowInv
      <3>2. CASE LockGranted(p)
        BY <3>1, <3>2 DEF LockGranted, Answered
      <3>3. CASE LockDenied(p)
        BY <3>1, <3>3 DEF LockDenied, Answered
      <3>4. CASE LockReleased(p)
        BY <3>1, <3>4 DEF LockReleased, Answered
      <3> QED BY <1>2, <3>2, <3>3, <3>4
    <2>2. PICK rest \in Seq(Command) :
           /\ rest = Rest(p, i)
           /\ \A n \in DOMAIN cmds[p] : cmds[p][n].task = k <=> n = i
           /\ \A n \in DOMAIN cmds[p] : cmds[p][n].task # k => \E m \in DOMAIN rest : rest[m] = cmds[p][n]
           /\ \A m \in DOMAIN rest : \E n \in DOMAIN cmds[p] : rest[m] = cmds[p][n]
      BY <2>1, AnsweredFacts
    <2>3. /\ Granted(p, k) <=> cmds[p][i].op = "DEL" \/ cmds[p][i].reply = "OK"
          /\ InSection(p, k) <=> \/ cmds[p][i].op = "SET" /\ cmds[p][i].reply = "OK"
                                 \/ cmds[p][i].op = "DEL" /\ cmds[p][i].reply = "none"
      BY <2>1, LockingFacts
    <2>4. ASSUME NEW s \in Stages, Moved(p, k, s), cmds' = [cmds EXCEPT ![p] = rest]
          PROVE  Goes(p, k, s, rest)
      BY <2>2, <2>4 DEF Goes
    <2>5. CASE cmds[p][i].op = "SET" /\ cmds[p][i].reply = "OK" /\ RunFrom(p, k, 1, rest)
      <3>1. CASE Moved(p, k, "handling") /\ cmds' = [cmds EXCEPT ![p] = rest]
        <4>1. Goes(p, k, "handling", rest)
          BY <2>4, <3>1 DEF Stages, Active
        <4> QED BY <2>3, <2>5, <4>1 DEF Orderly, Stages, Active
      <3>2. CASE /\ Moved(p, k, "releasing")
                 /\ cmds' = [cmds EXCEPT ![p] = Append(rest, Del(k))]
        <4>1. PICK c \in Command : c = Del(k) /\ c.reply = "none"
          BY CommandFacts DEF Del
        <4>2. PICK queue : queue = Append(rest, c)
          OBVIOUS
        <4>3. cmds' = [cmds EXCEPT ![p] = queue]
          BY <3>2, <4>1, <4>2
        <4>4. \E n \in DOMAIN queue : queue[n] = c
          BY <4>2, AppendKeeps
        <4>5. Goes(p, k, "releasing", queue)
          BY <2>2, <3>2, <4>1, <4>2, <4>3, GoesSending
        <4>6. Orderly(p, k, "releasing", queue)
          BY <4>1, <4>4 DEF Orderly
        <4> QED BY <4>5, <4>6 DEF Stages, Active
      <3> QED BY <2>5, <3>1, <3>2 DEF RunFrom
    <2>6. CASE /\ cmds[p][i].op = "SET" /\ cmds[p][i].reply = "nil" /\ Moved(p, k, "skipped")
               /\ cmds' = [cmds EXCEPT ![p] = rest]
      <3>1. Goes(p, k, "skipped", rest)
        BY <2>4, <2>6 DEF Stages
      <3>2. ~ Granted(p, k) /\ ~ InSection(p, k) /\ IsDenied(cmds[p][i])
        BY <2>3, <2>6 DEF IsDenied
      <3>3. Orderly(p, k, "skipped", rest)
        BY <2>1, <3>2 DEF Orderly
      <3> QED BY <3>1, <3>3 DEF Stages
    <2>7. CASE /\ cmds[p][i].op = "DEL" /\ cmds[p][i].reply = "OK" /\ Moved(p, k, "done")
               /\ cmds' = [cmds EXCEPT ![p] = rest]
      <3>1. Goes(p, k, "done", rest)
        BY <2>4, <2>7 DEF Stages
      <3> QED BY <2>3, <2>7, <3>1 DEF Orderly, Stages
    <2> QED BY <2>1, <2>2, <2>5, <2>6, <2>7
  <1>3. ASSUME NEW p \in Instances, NEW k \in Deliveries, HandlerSettles(p, k)
        PROVE  \E s \in Stages : \E queue : Goes(p, k, s, queue) /\ Orderly(p, k, s, queue)
    <2>1. stage[p][k] = "handling" /\ InSection(p, k) /\ RunFrom(p, k, index[p][k] + 1, cmds[p])
      BY <1>3 DEF HandlerSettles, InSection
    <2>2. cmds[p] \in Seq(Command) /\ Del(k) \in Command /\ Del(k).reply = "none"
      BY CommandFacts DEF Del, FlowInv, TypeInv, TypeOK
    <2>3. CASE Moved(p, k, "handling") /\ cmds' = [cmds EXCEPT ![p] = cmds[p]]
      <3>1. Goes(p, k, "handling", cmds[p])
        BY <2>3 DEF Goes
      <3> QED BY <2>1, <3>1 DEF Orderly, Stages, Active
    <2>4. CASE /\ Moved(p, k, "releasing")
               /\ cmds' = [cmds EXCEPT ![p] = Append(cmds[p], Del(k))]
      <3>1. PICK c \in Command : c = Del(k) /\ c.reply = "none"
        BY <2>2
      <3>2. PICK queue : queue = Append(cmds[p], c)
        OBVIOUS
      <3>3. cmds' = [cmds EXCEPT ![p] = queue]
        BY <2>4, <3>1, <3>2
      <3>4. \E n \in DOMAIN queue : queue[n] = c
        BY <2>2, <3>2, AppendKeeps
      <3>5. Goes(p, k, "releasing", queue)
        BY <2>2, <2>4, <3>1, <3>2, <3>3, GoesSending
      <3>6. Orderly(p, k, "releasing", queue)
        BY <3>1, <3>4 DEF Orderly
      <3> QED BY <3>5, <3>6 DEF Stages, Active
    <2> QED BY <2>1, <2>3, <2>4 DEF RunFrom
  <1> QED BY <1>0, <1>1, <1>2, <1>3 DEF Handling

-----------------------------------------------------------------------------
(* Redis answers one command.                                               *)
LEMMA SetFacts ==
  ASSUME FlowInv, NEW p \in Instances, ExecSet(p)
  PROVE  \E i \in DOMAIN cmds[p], k \in Deliveries, key \in Keys, r \in {"OK", "nil"} :
           /\ k = cmds[p][i].task /\ k \in DOMAIN log /\ key = LockKey(k)
           /\ cmds[p][i].op = "SET" /\ cmds[p][i].reply = "none" /\ Reply(p, i, r)
           /\ \/ /\ r = "OK" /\ holder[key] = None
                 /\ holder' = [holder EXCEPT ![key] = <<p, k>>]
              \/ r = "nil" /\ holder[key] # None /\ holder' = holder
           /\ UNCHANGED <<log, alive, stage>>
  <1>1. PICK i \in DOMAIN cmds[p] :
          LET k   == cmds[p][i].task
              key == LockKey(k)
          IN  /\ NextCommand(p, i)
              /\ cmds[p][i].op = "SET"
              /\ \/ /\ holder[key] = None
                    /\ holder' = [holder EXCEPT ![key] = <<p, k>>]
                    /\ Reply(p, i, "OK")
                 \/ /\ holder[key] # None
                    /\ Reply(p, i, "nil")
                    /\ holder' = holder
    BY DEF ExecSet, Free
  <1>2. PICK k \in Deliveries : k = cmds[p][i].task /\ k \in DOMAIN log
    BY CmdFacts DEF FlowInv
  <1>3. PICK key \in Keys : key = LockKey(k)
    BY <1>2, LogFacts DEF FlowInv, TypeInv
  <1>4. cmds[p][i].op = "SET" /\ cmds[p][i].reply = "none"
    BY <1>1 DEF NextCommand
  <1>5. UNCHANGED <<log, alive, stage>>
    BY DEF ExecSet
  <1> QED BY <1>1, <1>2, <1>3, <1>4, <1>5

LEMMA DelFacts ==
  ASSUME FlowInv, NEW p \in Instances, ExecDel(p)
  PROVE  \E i \in DOMAIN cmds[p], k \in Deliveries, key \in Keys :
           /\ k = cmds[p][i].task /\ k \in DOMAIN log /\ key = LockKey(k)
           /\ cmds[p][i].op = "DEL" /\ cmds[p][i].reply = "none" /\ Reply(p, i, "OK")
           /\ holder' = [holder EXCEPT ![key] = None]
           /\ UNCHANGED <<log, alive, stage>>
  <1>1. PICK i \in DOMAIN cmds[p] :
          LET key == LockKey(cmds[p][i].task)
          IN  /\ NextCommand(p, i)
              /\ cmds[p][i].op = "DEL"
              /\ holder' = [holder EXCEPT ![key] = None]
              /\ Reply(p, i, "OK")
    BY DEF ExecDel
  <1>2. PICK k \in Deliveries : k = cmds[p][i].task /\ k \in DOMAIN log
    BY CmdFacts DEF FlowInv
  <1>3. PICK key \in Keys : key = LockKey(k)
    BY <1>2, LogFacts DEF FlowInv, TypeInv
  <1>4. cmds[p][i].op = "DEL" /\ cmds[p][i].reply = "none"
    BY <1>1 DEF NextCommand
  <1>5. UNCHANGED <<log, alive, stage>>
    BY DEF ExecDel
  <1> QED BY <1>1, <1>2, <1>3, <1>4, <1>5

(* An answer takes no grant away, and ends no section but that of the       *)
(* activation it is for.                                                    *)
LEMMA AnswerKeeps ==
  ASSUME FlowInv, NEW p \in Instances, NEW i \in DOMAIN cmds[p],
         cmds[p][i].reply = "none", NEW r \in {"OK", "nil"}, Reply(p, i, r), stage' = stage,
         NEW q \in Instances, NEW j \in Deliveries
  PROVE  /\ Granted(q, j) => Granted(q, j)'
         /\ InSection(q, j) /\ <<q, j>> # <<p, cmds[p][i].task>> => InSection(q, j)'
  <1>1. /\ DOMAIN cmds'[q] = DOMAIN cmds[q]
        /\ \A n \in DOMAIN cmds[q] : <<q, n>> # <<p, i>> => cmds'[q][n] = cmds[q][n]
    BY ReplyFacts DEF FlowInv, TypeInv
  <1>2. \A n \in DOMAIN cmds[q] : cmds[q][n].reply = "OK" => <<q, n>> # <<p, i>>
    BY DEF FlowInv
  <1>3. \A n \in DOMAIN cmds[q] : cmds[q][n].task = j /\ <<q, j>> # <<p, cmds[p][i].task>>
                                   => <<q, n>> # <<p, i>>
    OBVIOUS
  <1>4. Granted(q, j) => Granted(q, j)'
    BY <1>1, <1>2 DEF Granted
  <1>5. InSection(q, j) /\ <<q, j>> # <<p, cmds[p][i].task>> => InSection(q, j)'
    BY <1>1, <1>3 DEF InSection
  <1> QED BY <1>4, <1>5

(* The steps that are neither of handleMessage, of Redis nor a death.       *)
LEMMA QuietSteps ==
  ASSUME FlowInv, MayDrop = {},
         Application \/ Sleep \/ UNCHANGED vars \/ \E p \in FlakySub : LoseSubscription(p)
  PROVE  UNCHANGED <<alive, stage, cmds, holder>>
  BY DEF Application, Subscribe, RegistHandler, RemoveHandler, RemoveAllHandlers,
         PublishMessage, PublishAgain, LoseSubscription, Sleep, vars, redis

(* A step of handleMessage keeps every grant, and the section of every      *)
(* activation.                                                              *)
LEMMA GoingKeeps ==
  ASSUME FlowInv, NEW p \in Instances, NEW k \in Deliveries, NEW s \in Stages, NEW queue,
         Goes(p, k, s, queue), Orderly(p, k, s, queue),
         NEW q \in Instances, NEW j \in Deliveries
  PROVE  /\ Granted(q, j) => Granted(q, j)'
         /\ InSection(q, j) => InSection(q, j)'
  <1>1. /\ stage'[p][k] = s
        /\ <<q, j>> # <<p, k>> => stage'[q][j] = stage[q][j]
    BY MovedFacts DEF Goes, FlowInv, TypeInv
  <1>2. cmds'[p] = queue /\ (q # p => cmds'[q] = cmds[q])
    BY DEF Goes, FlowInv, TypeInv, TypeOK
  <1>3. CASE <<q, j>> = <<p, k>>
    <2>1. q = p /\ j = k
      BY <1>3
    <2>2. Granted(p, k) => Granted(p, k)'
      BY <1>1 DEF Granted, Orderly
    <2>3. InSection(p, k) => InSection(p, k)'
      BY <1>1, <1>2 DEF InSection, Orderly, Del
    <2> QED BY <2>1, <2>2, <2>3
  <1>4. CASE <<q, j>> # <<p, k>>
    <2>1. \A i \in DOMAIN cmds[q] : cmds[q][i].task = j => \E n \in DOMAIN cmds'[q] : cmds'[q][n] = cmds[q][i]
      <3>1. CASE q = p
        BY <1>2, <1>4, <3>1 DEF Goes
      <3>2. CASE q # p
        BY <1>2, <3>2
      <3> QED BY <3>1, <3>2
    <2> QED BY <1>1, <1>4, <2>1 DEF Granted, InSection
  <1> QED BY <1>3, <1>4

(* No step takes a grant back.                                              *)
LEMMA GrantKept ==
  ASSUME FlowInv, [Next]_vars, MayDrop = {},
         NEW q \in Instances, NEW j \in Deliveries, Granted(q, j)
  PROVE  Granted(q, j)'
  <1>1. CASE UNCHANGED <<stage, cmds>>
    BY <1>1 DEF Granted
  <1>2. CASE Handling
    BY <1>2, HandlingGoes, GoingKeeps
  <1>3. ASSUME NEW p \in Instances, ExecSet(p)
        PROVE  Granted(q, j)'
    BY <1>3, SetFacts, AnswerKeeps
  <1>4. ASSUME NEW p \in Instances, ExecDel(p)
        PROVE  Granted(q, j)'
    BY <1>4, DelFacts, AnswerKeeps
  <1>5. ASSUME NEW p \in MayCrash, Crash(p)
        PROVE  Granted(q, j)'
    <2>1. p \in Instances
      BY ConfigAssumption
    <2>2. CASE q = p
      <3>1. stage'[p][j] = IF stage[p][j] \in Active THEN "crashed" ELSE stage[p][j]
        BY <1>5, <2>1 DEF Crash, FlowInv, TypeInv, TypeOK
      <3>2. stage[p][j] \in {"handling", "releasing", "done", "crashed", "locking"}
        BY <2>2 DEF Granted, FlowInv, AwaitOne
      <3> QED BY <2>2, <3>1, <3>2 DEF Granted, Active
    <2>3. CASE q # p
      <3>1. cmds'[q] = cmds[q] /\ stage'[q] = stage[q]
        BY <1>5, <2>1, <2>3 DEF Crash, FlowInv, TypeInv, TypeOK
      <3> QED BY <3>1 DEF Granted
    <2> QED BY <2>2, <2>3
  <1>6. CASE Tick
    BY <1>1, <1>6 DEF Tick
  <1> QED
    BY <1>1, <1>2, <1>3, <1>4, <1>5, <1>6, QuietSteps DEF Next, Server, Faults

(* What was published stays what it was.                                    *)
LEMMA LogGrows ==
  ASSUME FlowInv, [Next]_vars, NEW k \in DOMAIN log
  PROVE  /\ k \in DOMAIN log' /\ log'[k] = log[k]
         /\ LockKey(k)' = LockKey(k) /\ Message(k)' = Message(k)
  <1>1. log' = log \/ \E e : Broadcast(e)
    BY DEF Next, Application, Subscribe, RegistHandler, RemoveHandler, RemoveAllHandlers,
           PublishMessage, PublishAgain, Handling, Ignore, Receive, LockGranted, LockDenied,
           LockReleased, HandlerSettles, Server, Tick, ExecSet, ExecDel, Faults, Crash,
           Reconnect, LoseSubscription, Sleep, vars
  <1>2. k \in DOMAIN log' /\ log'[k] = log[k]
    <2>1. CASE log' = log
      BY <2>1
    <2>2. ASSUME NEW e, Broadcast(e)
          PROVE  k \in DOMAIN log' /\ log'[k] = log[k]
      <3> DEFINE Entry == [id : Deliveries, from : Senders, channel : Channels]
      <3>1. log \in Seq(Entry) /\ log' = Append(log, e)
        BY <2>2 DEF Broadcast, FlowInv, TypeInv, TypeOK
      <3> HIDE DEF Entry
      <3>2. log \in Seq(Entry \cup {e}) /\ e \in Entry \cup {e}
        BY <3>1
      <3>3. /\ DOMAIN log = 1..Len(log) /\ DOMAIN log' = 1..(Len(log) + 1) /\ Len(log) \in Nat
            /\ \A i \in DOMAIN log : log'[i] = log[i]
        BY <3>1, <3>2, AppendFacts, SeqFacts
      <3> QED BY <3>3
    <2> QED BY <1>1, <2>1, <2>2
  <1> QED BY <1>2 DEF LockKey, Message

LEMMA CoverKept ==
  ASSUME FlowInv, [Next]_vars, MayDrop = {},
         NEW p \in Instances, NEW k \in DOMAIN log, Covered(p, k)
  PROVE  Covered(p, k)'
  <1>1. PICK q \in Instances, j \in DOMAIN log :
          <<q, j>> # <<p, k>> /\ Message(j) = Message(k) /\ Granted(q, j)
    BY DEF Covered
  <1>2. j \in Deliveries
    BY LogFacts DEF FlowInv, TypeInv
  <1>3. Granted(q, j)'
    BY <1>1, <1>2, GrantKept
  <1>4. j \in DOMAIN log' /\ Message(j)' = Message(j) /\ Message(k)' = Message(k)
    BY LogGrows
  <1> QED BY <1>1, <1>3, <1>4 DEF Covered

(* While a lock exists, only the death of its owner ends the section.       *)
LEMMA SectionLasts ==
  ASSUME FlowInv, [Next]_vars, MayDrop = {},
         NEW q \in alive', NEW j \in DOMAIN log, InSection(q, j), holder'[LockKey(j)] # None
  PROVE  InSection(q, j)'
  <1>0. q \in alive /\ q \in Instances /\ j \in Deliveries
    <2>1. alive' \subseteq alive
      BY DEF Next, Application, Subscribe, RegistHandler, RemoveHandler, RemoveAllHandlers,
             PublishMessage, PublishAgain, Handling, Ignore, Receive, LockGranted, LockDenied,
             LockReleased, HandlerSettles, Server, Tick, ExecSet, ExecDel, Faults, Crash,
             Reconnect, LoseSubscription, Sleep, vars
    <2> QED BY <2>1, LogFacts DEF FlowInv, TypeInv, TypeOK
  <1>1. CASE UNCHANGED <<stage, cmds>>
    BY <1>1 DEF InSection
  <1>2. CASE Handling
    BY <1>0, <1>2, HandlingGoes, GoingKeeps
  <1>3. ASSUME NEW p \in Instances, ExecSet(p)
        PROVE  InSection(q, j)'
    <2>1. PICK i \in DOMAIN cmds[p], r \in {"OK", "nil"} :
            /\ cmds[p][i].op = "SET" /\ cmds[p][i].reply = "none" /\ Reply(p, i, r)
            /\ stage' = stage
      BY <1>3, SetFacts
    <2>2. ~ InSection(p, cmds[p][i].task)
      BY <2>1, LockingFacts
    <2> QED BY <1>0, <2>1, <2>2, AnswerKeeps
  <1>4. ASSUME NEW p \in Instances, ExecDel(p)
        PROVE  InSection(q, j)'
    <2>1. PICK i \in DOMAIN cmds[p] :
            /\ cmds[p][i].reply = "none" /\ Reply(p, i, "OK") /\ stage' = stage
            /\ holder' = [holder EXCEPT ![LockKey(cmds[p][i].task)] = None]
      BY <1>4, DelFacts
    <2>2. LockKey(j) \in Keys
      BY LogFacts DEF FlowInv, TypeInv
    <2>3. <<q, j>> # <<p, cmds[p][i].task>>
      BY <2>1, <2>2 DEF FlowInv, TypeInv, TypeOK
    <2> QED BY <1>0, <2>1, <2>3, AnswerKeeps
  <1>5. ASSUME NEW p \in MayCrash, Crash(p)
        PROVE  InSection(q, j)'
    <2>1. q # p
      BY <1>5 DEF Crash
    <2>2. cmds'[q] = cmds[q] /\ stage'[q] = stage[q]
      BY <1>0, <1>5, <2>1 DEF Crash, FlowInv, TypeInv, TypeOK
    <2> QED BY <2>2 DEF InSection
  <1>6. CASE Tick
    BY <1>1, <1>6 DEF Tick
  <1> QED
    BY <1>1, <1>2, <1>3, <1>4, <1>5, <1>6, QuietSteps DEF Next, Server, Faults

(* A lock that appears is the one of the activation whose SET was answered. *)
LEMMA NewOwner ==
  ASSUME FlowInv, [Next]_vars, MayDrop = {},
         NEW key \in Keys, NEW p \in Instances, NEW k \in Deliveries,
         holder'[key] = <<p, k>>, holder[key] # <<p, k>>
  PROVE  /\ k \in DOMAIN log /\ key = LockKey(k)
         /\ Granted(p, k)' /\ InSection(p, k)'
  <1>0. <<p, k>> # None
    BY ConfigAssumption DEF Tasks
  <1>1. ASSUME NEW q \in Instances, ExecSet(q)
        PROVE  /\ k \in DOMAIN log /\ key = LockKey(k)
               /\ Granted(p, k)' /\ InSection(p, k)'
    <2>1. PICK i \in DOMAIN cmds[q], j \in Deliveries, lock \in Keys :
            /\ j = cmds[q][i].task /\ j \in DOMAIN log /\ lock = LockKey(j)
            /\ cmds[q][i].op = "SET" /\ Reply(q, i, "OK")
            /\ holder' = [holder EXCEPT ![lock] = <<q, j>>]
      BY <1>1, SetFacts
    <2>2. key = lock /\ <<q, j>> = <<p, k>>
      BY <2>1 DEF FlowInv, TypeInv, TypeOK
    <2>3. q = p /\ j = k
      BY <2>2
    <2>4. /\ i \in DOMAIN cmds'[p] /\ cmds'[p][i].task = k
          /\ cmds'[p][i].op = "SET" /\ cmds'[p][i].reply = "OK"
      BY <2>1, <2>3, ReplyFacts DEF FlowInv, TypeInv
    <2> QED BY <2>1, <2>2, <2>3, <2>4 DEF Granted, InSection
  <1>2. ~ \E q \in Instances : ExecDel(q)
    <2> SUFFICES ASSUME NEW q \in Instances, ExecDel(q) PROVE FALSE
      OBVIOUS
    <2>1. PICK lock \in Keys : holder' = [holder EXCEPT ![lock] = None]
      BY DelFacts
    <2> QED BY <1>0, <2>1 DEF FlowInv, TypeInv, TypeOK
  <1>3. ~ Tick
    BY <1>0 DEF Tick
  <1>4. holder' # holder
    OBVIOUS
  <1>5. ~ Handling /\ ~ \E q \in MayCrash : Crash(q)
    BY <1>4, HandlingGoes DEF Crash, redis
  <1> QED
    BY <1>1, <1>2, <1>3, <1>4, <1>5, QuietSteps DEF Next, Server, Faults

(* A SET is denied by a lock that exists.                                   *)
LEMMA NewDenial ==
  ASSUME FlowInv, [Next]_vars, MayDrop = {},
         NEW p \in Instances, NEW i \in DOMAIN cmds'[p], IsDenied(cmds'[p][i])
  PROVE  \E n \in DOMAIN cmds[p] :
           /\ cmds[p][n].task = cmds'[p][i].task
           /\ \/ IsDenied(cmds[p][n])
              \/ /\ cmds[p][n].op = "SET" /\ cmds[p][n].reply = "none"
                 /\ holder[LockKey(cmds[p][n].task)] # None
  <1>1. CASE cmds' = cmds
    BY <1>1
  <1>2. CASE Handling
    <2>1. PICK q, k, s, queue :
            q \in Instances /\ k \in Deliveries /\ s \in Stages /\ Goes(q, k, s, queue)
      BY <1>2, HandlingGoes
    <2>2. /\ cmds'[q] = queue
          /\ p # q => cmds'[p] = cmds[p]
          /\ \A n \in DOMAIN queue : queue[n].reply = "none"
                                   \/ \E m \in DOMAIN cmds[q] : queue[n] = cmds[q][m]
      BY <2>1 DEF Goes, FlowInv, TypeInv, TypeOK
    <2> QED BY <2>2 DEF IsDenied
  <1>3. ASSUME NEW q \in Instances, ExecSet(q)
        PROVE  \E n \in DOMAIN cmds[p] :
                 /\ cmds[p][n].task = cmds'[p][i].task
                 /\ \/ IsDenied(cmds[p][n])
                    \/ /\ cmds[p][n].op = "SET" /\ cmds[p][n].reply = "none"
                       /\ holder[LockKey(cmds[p][n].task)] # None
    <2>1. PICK m \in DOMAIN cmds[q], r \in {"OK", "nil"} :
            /\ cmds[q][m].op = "SET" /\ cmds[q][m].reply = "none" /\ Reply(q, m, r)
            /\ r = "OK" \/ holder[LockKey(cmds[q][m].task)] # None
      BY <1>3, SetFacts
    <2>2. /\ i \in DOMAIN cmds[p] /\ cmds'[p][i].task = cmds[p][i].task
          /\ <<p, i>> # <<q, m>> => cmds'[p][i] = cmds[p][i]
          /\ cmds'[q][m].reply = r
      BY <2>1, ReplyFacts DEF FlowInv, TypeInv
    <2>3. CASE <<p, i>> = <<q, m>>
      <3>1. p = q /\ i = m
        BY <2>3
      <3> QED BY <2>1, <2>2, <3>1 DEF IsDenied
    <2> QED BY <2>2, <2>3
  <1>4. ASSUME NEW q \in Instances, ExecDel(q)
        PROVE  i \in DOMAIN cmds[p] /\ cmds'[p][i] = cmds[p][i]
    <2>1. PICK m \in DOMAIN cmds[q] : cmds[q][m].op = "DEL" /\ Reply(q, m, "OK")
      BY <1>4, DelFacts
    <2>2. /\ i \in DOMAIN cmds[p]
          /\ <<p, i>> # <<q, m>> => cmds'[p][i] = cmds[p][i]
          /\ cmds'[q][m].reply = "OK"
      BY <2>1, ReplyFacts DEF FlowInv, TypeInv
    <2>3. <<p, i>> # <<q, m>>
      BY <2>2 DEF IsDenied
    <2> QED BY <2>2, <2>3
  <1>5. ASSUME NEW q \in MayCrash, Crash(q)
        PROVE  cmds'[p] = cmds[p]
    <2>1. cmds'[p] = <<>> \/ cmds'[p] = cmds[p]
      BY <1>5, ConfigAssumption DEF Crash, FlowInv, TypeInv, TypeOK
    <2> QED BY <2>1
  <1>6. CASE Tick
    BY <1>1, <1>6 DEF Tick
  <1> QED
    BY <1>1, <1>2, <1>3, <1>4, <1>5, <1>6, QuietSteps DEF Next, Server, Faults

(* Only an activation that was denied the lock is skipped.                  *)
LEMMA NewSkip ==
  ASSUME FlowInv, [Next]_vars, MayDrop = {},
         NEW p \in Instances, NEW k \in Deliveries,
         stage'[p][k] = "skipped", stage[p][k] # "skipped"
  PROVE  \E i \in DOMAIN cmds[p] : IsDenied(cmds[p][i]) /\ cmds[p][i].task = k
  <1>1. stage' # stage
    OBVIOUS
  <1>2. CASE Handling
    <2>1. PICK q, j, s, queue :
            /\ q \in Instances /\ j \in Deliveries /\ s \in Stages
            /\ Goes(q, j, s, queue) /\ Orderly(q, j, s, queue)
      BY <1>2, HandlingGoes
    <2>2. /\ stage'[q][j] = s
          /\ <<p, k>> # <<q, j>> => stage'[p][k] = stage[p][k]
      BY <2>1, MovedFacts DEF Goes, FlowInv, TypeInv
    <2>3. p = q /\ j = k
      BY <2>2
    <2> QED BY <2>1, <2>2, <2>3 DEF Orderly
  <1>3. ~ \E q \in MayCrash : Crash(q)
    <2> SUFFICES ASSUME NEW q \in MayCrash, Crash(q) PROVE FALSE
      OBVIOUS
    <2>1. stage'[p][k] = stage[p][k] \/ stage'[p][k] = "crashed"
      BY ConfigAssumption DEF Crash, FlowInv, TypeInv, TypeOK
    <2> QED BY <2>1
  <1>4. ~ Tick /\ ~ \E q \in Instances : ExecSet(q) \/ ExecDel(q)
    BY <1>1 DEF Tick, ExecSet, ExecDel
  <1> QED
    BY <1>1, <1>2, <1>3, <1>4, QuietSteps DEF Next, Server, Faults

LEMMA OwnerStep ==
  ASSUME OwnerInv, [Next]_vars, MayDrop = {}
  PROVE  OwnerInv'
  <1>0. FlowInv /\ Owners /\ NoLeakedLock /\ Denials /\ SkipIsCovered
    BY DEF OwnerInv
  <1>1. FlowInv'
    BY <1>0, FlowStep
  <1> DEFINE Entry == [id : Deliveries, from : Senders, channel : Channels]
  <1>6. \A k \in DOMAIN log' : k \in Deliveries
    <2>1. log' \in Seq(Entry) /\ Len(log') <= MaxPublishes
      BY <1>0, <1>1 DEF FlowInv, TypeInv, TypeOK
    <2> HIDE DEF Entry
    <2>2. DOMAIN log' = 1..Len(log') /\ Len(log') \in Nat
      BY <2>1, SeqFacts
    <2> QED BY <2>1, <2>2, ConfigAssumption DEF Deliveries
  <1>2. Owners'
    <2> SUFFICES ASSUME NEW key \in Keys, NEW p \in Instances, NEW k \in Deliveries,
                        holder'[key] = <<p, k>>
                 PROVE  k \in DOMAIN log' /\ key = LockKey(k)' /\ Granted(p, k)'
      BY DEF Owners
    <2>1. k \in DOMAIN log /\ key = LockKey(k) /\ Granted(p, k)'
      <3>1. CASE holder[key] = <<p, k>>
        BY <1>0, <3>1, GrantKept DEF Owners
      <3>2. CASE holder[key] # <<p, k>>
        BY <1>0, <3>2, NewOwner
      <3> QED BY <3>1, <3>2
    <2> QED BY <1>0, <2>1, LogGrows
  <1>3. NoLeakedLock'
    <2> SUFFICES ASSUME NEW key \in Keys, NEW p \in alive', NEW k \in DOMAIN log',
                        holder'[key] = <<p, k>>
                 PROVE  key = LockKey(k)' /\ InSection(p, k)'
      BY DEF NoLeakedLock
    <2>1. p \in alive /\ p \in Instances /\ k \in Deliveries
      <3>1. alive' \subseteq alive
        BY DEF Next, Application, Subscribe, RegistHandler, RemoveHandler, RemoveAllHandlers,
               PublishMessage, PublishAgain, Handling, Ignore, Receive, LockGranted, LockDenied,
               LockReleased, HandlerSettles, Server, Tick, ExecSet, ExecDel, Faults, Crash,
               Reconnect, LoseSubscription, Sleep, vars
      <3> QED BY <1>0, <1>6, <3>1 DEF FlowInv, TypeInv, TypeOK
    <2>2. k \in DOMAIN log /\ key = LockKey(k) /\ InSection(p, k)'
      <3>1. CASE holder[key] = <<p, k>>
        <4>1. k \in DOMAIN log /\ key = LockKey(k)
          BY <1>0, <2>1, <3>1 DEF Owners
        <4>2. InSection(p, k)
          BY <1>0, <2>1, <3>1, <4>1 DEF NoLeakedLock
        <4>3. holder'[LockKey(k)] # None
          <5>1. <<p, k>> # None
            BY <2>1, ConfigAssumption DEF Tasks
          <5> QED BY <4>1, <5>1
        <4> QED BY <1>0, <4>1, <4>2, <4>3, SectionLasts
      <3>2. CASE holder[key] # <<p, k>>
        BY <1>0, <2>1, <3>2, NewOwner
      <3> QED BY <3>1, <3>2
    <2>3. LockKey(k)' = LockKey(k)
      BY <1>0, <2>2, LogGrows
    <2> QED BY <2>2, <2>3
  <1>4. Denials'
    <2> SUFFICES ASSUME NEW p \in Instances, NEW k \in DOMAIN log', NEW i \in DOMAIN cmds'[p],
                        IsDenied(cmds'[p][i]), cmds'[p][i].task = k
                 PROVE  Covered(p, k)'
      BY DEF Denials, IsDenied
    <2>1. PICK n \in DOMAIN cmds[p] :
           /\ cmds[p][n].task = k
           /\ \/ IsDenied(cmds[p][n])
              \/ /\ cmds[p][n].op = "SET" /\ cmds[p][n].reply = "none"
                 /\ holder[LockKey(cmds[p][n].task)] # None
      BY <1>0, NewDenial
    <2>2. k \in DOMAIN log
      BY <1>0, <2>1, CmdFacts DEF FlowInv
    <2>3. CASE IsDenied(cmds[p][n])
      <3>1. Covered(p, k)
        BY <1>0, <2>1, <2>2, <2>3 DEF Denials
      <3> QED BY <1>0, <2>2, <3>1, CoverKept
    <2>4. CASE /\ cmds[p][n].op = "SET" /\ cmds[p][n].reply = "none"
               /\ holder[LockKey(cmds[p][n].task)] # None
      <3>1. LockKey(k) \in Keys /\ Message(k) = LockKey(k)
        BY <1>0, <2>2, LogFacts DEF FlowInv, TypeInv
      <3>2. PICK q \in Instances, j \in Deliveries : holder[LockKey(k)] = <<q, j>>
        <4>1. \A key \in Keys : holder[key] = None \/ holder[key] \in Tasks
          BY <1>0 DEF FlowInv, TypeInv, TypeOK
        <4>2. holder[LockKey(k)] # None
          BY <2>1, <2>4
        <4>3. holder[LockKey(k)] \in Tasks
          BY <3>1, <4>1, <4>2
        <4> QED BY <4>3 DEF Tasks
      <3>3. j \in DOMAIN log /\ LockKey(k) = LockKey(j) /\ Granted(q, j)
        BY <1>0, <3>1, <3>2 DEF Owners
      <3>4. Message(j) = Message(k)
        BY <1>0, <3>1, <3>3, LogFacts DEF FlowInv, TypeInv
      <3>5. ~ Granted(p, k)
        BY <1>0, <2>1, <2>2, <2>4, LockingFacts
      <3>6. <<q, j>> # <<p, k>>
        BY <3>3, <3>5
      <3>7. Covered(p, k)
        BY <3>3, <3>4, <3>6 DEF Covered
      <3> QED BY <1>0, <2>2, <3>7, CoverKept
    <2> QED BY <2>1, <2>3, <2>4
  <1>5. SkipIsCovered'
    <2> SUFFICES ASSUME NEW p \in Instances, NEW k \in DOMAIN log', stage'[p][k] = "skipped"
                 PROVE  Covered(p, k)'
      BY DEF SkipIsCovered, Covered
    <2>1. k \in Deliveries
      BY <1>6
    <2>2. k \in DOMAIN log /\ Covered(p, k)
      <3>1. CASE stage[p][k] = "skipped"
        <4>1. k \in DOMAIN log
          BY <1>0, <2>1, <3>1 DEF FlowInv, TypeInv, Known
        <4> QED BY <1>0, <3>1, <4>1 DEF SkipIsCovered, Covered
      <3>2. CASE stage[p][k] # "skipped"
        <4>1. PICK i \in DOMAIN cmds[p] : IsDenied(cmds[p][i]) /\ cmds[p][i].task = k
          BY <1>0, <2>1, <3>2, NewSkip
        <4>2. k \in DOMAIN log
          BY <1>0, <4>1, CmdFacts DEF FlowInv
        <4> QED BY <1>0, <4>1, <4>2 DEF Denials
      <3> QED BY <3>1, <3>2
    <2> QED BY <1>0, <2>2, CoverKept
  <1> QED BY <1>1, <1>2, <1>3, <1>4, <1>5 DEF OwnerInv

LEMMA OwnerInit == Init => OwnerInv
  <1> SUFFICES ASSUME Init PROVE OwnerInv
    OBVIOUS
  <1>1. FlowInv
    BY FlowInit
  <1>2. Owners /\ NoLeakedLock
    <2>1. \A key \in Keys, p \in Instances, k \in Deliveries : holder[key] # <<p, k>>
      BY ConfigAssumption DEF Init, Tasks
    <2>2. alive = Instances /\ \A k \in DOMAIN log : k \in Deliveries
      BY DEF Init
    <2> QED BY <2>1, <2>2 DEF Owners, NoLeakedLock
  <1>3. Denials /\ SkipIsCovered
    BY DEF Init, Denials, SkipIsCovered
  <1> QED BY <1>1, <1>2, <1>3 DEF OwnerInv

(* The strengthening is inductive while no command is sent twice.           *)
THEOREM OwnerInvariant ==
  ASSUME MayDrop = {}
  PROVE  Spec => []OwnerInv
  <1>1. OwnerInv /\ [Next]_vars => OwnerInv'
    BY OwnerStep
  <1> QED BY <1>1, OwnerInit, PTL DEF Spec

(* No path through handleMessage of a living process forgets its lock,      *)
(* however long handlers take.                                              *)
THEOREM NoLeakedLockHolds ==
  ASSUME MayDrop = {}
  PROVE  Spec => []NoLeakedLock
  <1>1. OwnerInv => NoLeakedLock
    BY DEF OwnerInv
  <1> QED BY <1>1, OwnerInvariant, PTL

(* Whoever skips a message leaves it to another activation that was granted *)
(* its lock, however long handlers take and whoever dies.                   *)
THEOREM SkipIsCoveredHolds ==
  ASSUME MayDrop = {}
  PROVE  Spec => []SkipIsCovered
  <1>1. OwnerInv => SkipIsCovered
    BY DEF OwnerInv
  <1> QED BY <1>1, OwnerInvariant, PTL

-----------------------------------------------------------------------------
(* The lock refines MessageLock. *)

RunsHandlers == {t \in Tasks : stage[t[1]][t[2]] = "handling"}

LEMMA RunsFacts ==
  ASSUME NEW p \in Instances, NEW k \in Deliveries
  PROVE  /\ <<p, k>> \in Tasks
         /\ <<p, k>> \in RunsHandlers <=> stage[p][k] = "handling"
  BY DEF RunsHandlers, Tasks

(* A step of handleMessage enters the lock, leaves it or does neither.      *)
LEMMA GoingRefines ==
  ASSUME LockInv, NEW p \in Instances, NEW k \in Deliveries, NEW s \in Stages, NEW queue,
         Goes(p, k, s, queue), Orderly(p, k, s, queue), UNCHANGED holder
  PROVE  [Lock!Next]_(Lock!vars)
  <1>1. /\ stage'[p][k] = s
        /\ \A q \in Instances, j \in Deliveries : <<q, j>> # <<p, k>> => stage'[q][j] = stage[q][j]
    BY MovedFacts DEF Goes, LockInv
  <1>2. RunsHandlers' = IF s = "handling" THEN RunsHandlers \cup {<<p, k>>} ELSE RunsHandlers \ {<<p, k>>}
    <2>1. ASSUME NEW t \in Tasks
          PROVE  t \in RunsHandlers' <=> IF t = <<p, k>> THEN s = "handling" ELSE t \in RunsHandlers
      <3>1. PICK q \in Instances, j \in Deliveries : t = <<q, j>>
        BY DEF Tasks
      <3>2. t \in RunsHandlers' <=> stage'[q][j] = "handling"
        BY <3>1 DEF RunsHandlers, Tasks
      <3>3. t \in RunsHandlers <=> stage[q][j] = "handling"
        BY <3>1 DEF RunsHandlers, Tasks
      <3>4. t = <<p, k>> => q = p /\ j = k
        BY <3>1
      <3> QED BY <1>1, <3>1, <3>2, <3>3, <3>4
    <2>2. RunsHandlers \subseteq Tasks /\ RunsHandlers' \subseteq Tasks /\ <<p, k>> \in Tasks
      BY DEF RunsHandlers, Tasks
    <2> QED BY <2>1, <2>2
  <1>3. CASE RunsHandlers' = RunsHandlers
    BY <1>3 DEF Lock!vars, RunsHandlers
  <1>4. CASE s = "handling" /\ <<p, k>> \notin RunsHandlers
    <2>1. InSection(p, k)
      BY <1>4 DEF Orderly
    <2>2. k \in DOMAIN log
      BY <2>1 DEF InSection, LockInv, Known
    <2>3. holder[LockKey(k)] = <<p, k>> /\ LockKey(k) \in Keys
      BY <2>1, <2>2, LogFacts DEF LockInv, SectionHolds, Held
    <2>4. Lock!Enter(LockKey(k), <<p, k>>)
      BY <1>2, <1>4, <2>3 DEF Lock!Enter, RunsHandlers
    <2> QED BY <2>3, <2>4, RunsFacts DEF Lock!Next
  <1>5. CASE RunsHandlers' \subseteq RunsHandlers /\ RunsHandlers' # RunsHandlers
    <2>1. Lock!Leave
      BY <1>5 DEF Lock!Leave, RunsHandlers
    <2> QED BY <2>1 DEF Lock!Next
  <1> QED BY <1>2, <1>3, <1>4, <1>5

(* Every step is a step of the abstract lock: nobody enters it but the      *)
(* owner, and it is never released under one who is inside.                 *)
LEMMA LockStep ==
  ASSUME LockInv, OwnerInv, [Next]_vars, MayDrop = {}, MaxBusy < Ttl
  PROVE  [Lock!Next]_(Lock!vars)
  <1>0. FlowInv
    BY DEF OwnerInv
  <1>1. CASE UNCHANGED <<stage, holder>>
    BY <1>1 DEF Lock!vars
  <1>2. CASE Handling
    BY <1>0, <1>2, HandlingGoes, GoingRefines DEF redis
  <1>3. ASSUME NEW p \in Instances, ExecSet(p)
        PROVE  [Lock!Next]_(Lock!vars)
    <2>1. PICK k \in Deliveries, key \in Keys :
            /\ \/ holder[key] = None /\ holder' = [holder EXCEPT ![key] = <<p, k>>]
               \/ holder' = holder
            /\ stage' = stage
      BY <1>0, <1>3, SetFacts
    <2>2. CASE holder[key] = None /\ holder' = [holder EXCEPT ![key] = <<p, k>>]
      <3>1. Lock!Acquire(key, <<p, k>>)
        BY <2>1, <2>2 DEF Lock!Acquire
      <3> QED BY <3>1, RunsFacts DEF Lock!Next
    <2>3. CASE holder' = holder
      BY <1>1, <2>1, <2>3
    <2> QED BY <2>1, <2>2, <2>3
  <1>4. ASSUME NEW K \in SUBSET Keys,
               \A key \in K : holder[key] \notin RunsHandlers,
               holder' = [key \in Keys |-> IF key \in K THEN None ELSE holder[key]],
               stage' = stage
        PROVE  [Lock!Next]_(Lock!vars)
    <2>1. CASE K = {}
      <3>1. holder' = holder
        BY <1>4, <2>1 DEF LockInv, TypeOK
      <3> QED BY <1>1, <1>4, <3>1
    <2>2. CASE K # {}
      <3>1. Lock!Release
        BY <1>4, <2>2 DEF Lock!Release, RunsHandlers
      <3> QED BY <3>1 DEF Lock!Next
    <2> QED BY <2>1, <2>2
  <1>5. ASSUME NEW p \in Instances, ExecDel(p)
        PROVE  [Lock!Next]_(Lock!vars)
    <2>1. PICK i \in DOMAIN cmds[p], k \in Deliveries, key \in Keys :
            /\ k = cmds[p][i].task /\ k \in DOMAIN log /\ key = LockKey(k)
            /\ cmds[p][i].op = "DEL" /\ cmds[p][i].reply = "none"
            /\ holder' = [holder EXCEPT ![key] = None]
            /\ stage' = stage
      BY <1>0, <1>5, DelFacts
    <2>2. holder[key] = <<p, k>>
      BY <2>1 DEF LockInv, SectionHolds, InSection, Held
    <2>3. stage[p][k] = "releasing"
      BY <2>1 DEF LockInv, AwaitOne
    <2>4. holder[key] \notin RunsHandlers
      BY <2>2, <2>3, RunsFacts
    <2>5. holder' = [l \in Keys |-> IF l \in {key} THEN None ELSE holder[l]]
      BY <2>1 DEF LockInv, TypeOK
    <2> QED BY <1>4, <2>1, <2>4, <2>5
  <1>6. CASE Tick
    <2> DEFINE K == {key \in Keys : ttl[key] <= 1}
    <2>1. ASSUME NEW key \in Keys, holder[key] \in RunsHandlers
          PROVE  ttl[key] > 1
      <3>1. PICK p \in Instances, k \in Deliveries :
              holder[key] = <<p, k>> /\ stage[p][k] = "handling"
        <4>1. holder[key] \in Tasks /\ stage[holder[key][1]][holder[key][2]] = "handling"
          BY <2>1 DEF RunsHandlers
        <4> QED BY <4>1 DEF Tasks
      <3>2. k \in DOMAIN log /\ key = LockKey(k)
        BY <3>1 DEF OwnerInv, Owners
      <3>3. Ttl - ttl[key] < MaxBusy
        BY <1>6, <3>1, <3>2 DEF Tick, InSection
      <3>4. ttl[key] \in Nat /\ Ttl \in Nat /\ MaxBusy \in Nat
        BY ConfigAssumption DEF LockInv, TypeOK
      <3> QED BY <3>3, <3>4
    <2>2. \A key \in K : holder[key] \notin RunsHandlers
      <3>1. \A key \in Keys : ttl[key] \in Nat
        BY ConfigAssumption DEF LockInv, TypeOK
      <3> QED BY <2>1, <3>1
    <2>3. holder' = [key \in Keys |-> IF key \in K THEN None ELSE holder[key]]
      <3>1. \A key \in Keys : ttl[key] \in Nat
        BY ConfigAssumption DEF LockInv, TypeOK
      <3>2. \A key \in Keys : ttl[key] > 1 <=> key \notin K
        BY <3>1
      <3> HIDE DEF K
      <3>3. holder' = [key \in Keys |-> IF ttl[key] > 1 THEN holder[key] ELSE None]
        BY <1>6 DEF Tick
      <3> QED BY <3>2, <3>3
    <2>4. stage' = stage
      BY <1>6 DEF Tick
    <2>5. K \in SUBSET Keys
      OBVIOUS
    <2> HIDE DEF K
    <2> QED BY <1>4, <2>2, <2>3, <2>4, <2>5
  <1>7. ASSUME NEW p \in MayCrash, Crash(p)
        PROVE  [Lock!Next]_(Lock!vars)
    <2>1. p \in Instances /\ holder' = holder
      BY <1>7, ConfigAssumption DEF Crash, redis
    <2>2. \A q \in Instances, k \in Deliveries : stage'[q][k] = "handling" => stage[q][k] = "handling"
      BY <1>7, <2>1 DEF Crash, LockInv, TypeOK
    <2>3. RunsHandlers' \subseteq RunsHandlers
      BY <2>2 DEF RunsHandlers, Tasks
    <2>4. CASE RunsHandlers' = RunsHandlers
      BY <2>1, <2>4 DEF Lock!vars, RunsHandlers
    <2>5. CASE RunsHandlers' # RunsHandlers
      <3>1. Lock!Leave
        BY <2>1, <2>3, <2>5 DEF Lock!Leave, RunsHandlers
      <3> QED BY <3>1 DEF Lock!Next
    <2> QED BY <2>4, <2>5
  <1> QED
    BY <1>0, <1>1, <1>2, <1>3, <1>5, <1>6, <1>7, QuietSteps DEF Next, Server, Faults

LEMMA LockStart == Init => Lock!Init
  <1> SUFFICES ASSUME Init PROVE Lock!Init
    OBVIOUS
  <1>1. ASSUME NEW t \in Tasks PROVE stage[t[1]][t[2]] # "handling"
    <2>1. t[1] \in Instances /\ t[2] \in Deliveries
      BY DEF Tasks
    <2>2. stage = [p \in Instances |-> [k \in Deliveries |-> "idle"]]
      BY DEF Init
    <2> QED BY <2>1, <2>2
  <1>2. {t \in Tasks : stage[t[1]][t[2]] = "handling"} = {}
    BY <1>1
  <1> QED BY <1>2 DEF Init, Lock!Init

(* The per-message lock implements MessageLock: a key has one owner, only   *)
(* the owner runs handlers, and it is released only after the owner left.   *)
THEOREM ImplementsLockHolds ==
  ASSUME MayDrop = {}, MaxBusy < Ttl
  PROVE  Spec => ImplementsLock
  <1>1. LockInv /\ OwnerInv /\ [Next]_vars => [Lock!Next]_(Lock!vars)
    BY LockStep
  <1> QED BY <1>1, LockStart, LockInvariant, OwnerInvariant, PTL DEF Spec, ImplementsLock, Lock!Spec

-----------------------------------------------------------------------------
(* The loop of processByRegistered has called the handlers up to its index. *)

Fresh ==
  \A p \in Instances, k \in Deliveries :
    stage[p][k] \in {"idle", "locking"} => invoked[p][k] = <<>>

Called(p, k, list) ==
  /\ index[p][k] = Len(invoked[p][k]) /\ index[p][k] <= Len(list)
  /\ \A i \in 1..Len(invoked[p][k]) : invoked[p][k][i] = list[i]

Loops ==
  \A p \in Instances, k \in Deliveries :
    stage[p][k] = "handling" => Called(p, k, HandlersOf(p, k))

LoopInv == FlowInv /\ Fresh /\ Loops

LEMMA ListFacts ==
  ASSUME FlowInv, NEW p \in Instances, NEW k \in DOMAIN log
  PROVE  /\ k \in Deliveries /\ log[k].channel \in Channels
         /\ HandlersOf(p, k) \in Seq(Handlers) /\ invoked[p][k] \in Seq(Handlers)
  <1>1. k \in Deliveries /\ log[k].channel \in Channels
    BY LogFacts DEF FlowInv, TypeInv
  <1> QED BY <1>1 DEF HandlersOf, FlowInv, TypeInv, TypeOK

(* One turn of the loop: the next handler is called, or all have been.      *)
LEMMA Turn ==
  ASSUME FlowInv, NEW p \in Instances, NEW k \in DOMAIN log,
         NEW i, i = Len(invoked[p][k]) + 1, i <= Len(HandlersOf(p, k)) + 1,
         \A n \in 1..Len(invoked[p][k]) : invoked[p][k][n] = HandlersOf(p, k)[n],
         NEW queue, RunFrom(p, k, i, queue), UNCHANGED <<log, handlers>>
  PROVE  /\ stage'[p][k] = "handling" => Called(p, k, HandlersOf(p, k))'
         /\ stage'[p][k] \in {"handling", "releasing"}
         /\ stage'[p][k] = "releasing" => invoked[p][k] = HandlersOf(p, k)
         /\ \A q \in Instances, j \in Deliveries : <<q, j>> # <<p, k>> =>
              /\ stage'[q][j] = stage[q][j]
              /\ index'[q][j] = index[q][j] /\ invoked'[q][j] = invoked[q][j]
  <1> DEFINE list == HandlersOf(p, k)
             calls == invoked[p][k]
  <1>1. k \in Deliveries /\ list \in Seq(Handlers) /\ calls \in Seq(Handlers)
    BY ListFacts
  <1>2. list' = list
    BY DEF HandlersOf
  <1>3. "handling" \in Stages /\ "releasing" \in Stages
    BY DEF Stages, Active
  <1>4. CASE i <= Len(list)
    <2>1. /\ Moved(p, k, "handling") /\ index' = [index EXCEPT ![p][k] = i]
          /\ invoked' = [invoked EXCEPT ![p][k] = Append(@, list[i])]
      BY <1>4 DEF RunFrom
    <2>2. /\ stage'[p][k] = "handling"
          /\ \A q \in Instances, j \in Deliveries : <<q, j>> # <<p, k>> => stage'[q][j] = stage[q][j]
      BY <1>1, <1>3, <2>1, MovedFacts DEF FlowInv, TypeInv
    <2>3. /\ index'[p][k] = i /\ invoked'[p][k] = Append(calls, list[i])
          /\ \A q \in Instances, j \in Deliveries : <<q, j>> # <<p, k>> =>
               index'[q][j] = index[q][j] /\ invoked'[q][j] = invoked[q][j]
      BY <1>1, <2>1 DEF FlowInv, TypeInv, TypeOK
    <2>4. list[i] \in Handlers
      BY <1>1, <1>4
    <2>5. /\ Len(invoked'[p][k]) = i
          /\ \A n \in 1..i : n \in 1..Len(calls) \/ n = i
          /\ \A n \in 1..Len(calls) : invoked'[p][k][n] = calls[n]
          /\ invoked'[p][k][i] = list[i]
      <3> HIDE DEF list, calls
      <3> QED BY <1>1, <2>3, <2>4, AppendFacts, SeqFacts DEF calls
    <2>6. Called(p, k, HandlersOf(p, k))'
      BY <1>2, <1>4, <2>3, <2>5 DEF Called
    <2> QED BY <2>2, <2>3, <2>6
  <1>5. CASE ~ (i <= Len(list))
    <2>1. Moved(p, k, "releasing") /\ UNCHANGED <<index, invoked>>
      BY <1>5 DEF RunFrom
    <2>2. /\ stage'[p][k] = "releasing"
          /\ \A q \in Instances, j \in Deliveries : <<q, j>> # <<p, k>> => stage'[q][j] = stage[q][j]
      BY <1>1, <1>3, <2>1, MovedFacts DEF FlowInv, TypeInv
    <2>3. Len(calls) = Len(list)
      BY <1>1, <1>5
    <2>4. calls = list
      <3> HIDE DEF list, calls
      <3>1. \A n \in 1..Len(calls) : calls[n] = list[n]
        BY DEF calls, list
      <3> QED BY <1>1, <2>3, <3>1
    <2> QED BY <2>1, <2>2, <2>4
  <1> QED BY <1>4, <1>5

(* The two continuations that enter the loop at its next turn.              *)
LEMMA Turns ==
  ASSUME LoopInv, NEW p \in Instances,
         LockGranted(p) \/ \E k \in Deliveries : HandlerSettles(p, k)
  PROVE  \E k \in DOMAIN log :
           /\ stage[p][k] \in {"locking", "handling"}
           /\ stage'[p][k] = "handling" => Called(p, k, HandlersOf(p, k))'
           /\ stage'[p][k] \in {"handling", "releasing"}
           /\ stage'[p][k] = "releasing" => invoked[p][k] = HandlersOf(p, k)
           /\ \A q \in Instances, j \in Deliveries : <<q, j>> # <<p, k>> =>
                /\ stage'[q][j] = stage[q][j]
                /\ index'[q][j] = index[q][j] /\ invoked'[q][j] = invoked[q][j]
  <1> USE DEF LoopInv
  <1>1. CASE LockGranted(p)
    <2>1. UNCHANGED <<log, handlers>>
      BY <1>1 DEF LockGranted
    <2>2. PICK i \in DOMAIN cmds[p], k \in Deliveries :
            /\ k = cmds[p][i].task /\ cmds[p][i].op = "SET"
            /\ RunFrom(p, k, 1, Rest(p, i))
      <3>1. \A i \in DOMAIN cmds[p] : cmds[p][i].task \in Deliveries
        BY CmdFacts DEF FlowInv
      <3> QED BY <1>1, <3>1 DEF LockGranted, Answered
    <2>3. k \in DOMAIN log
      BY <2>2, CmdFacts DEF FlowInv
    <2>4. stage[p][k] = "locking"
      BY <2>2 DEF FlowInv, AwaitOne
    <2>6. invoked[p][k] = <<>>
      BY <2>4 DEF Fresh
    <2>7. Len(HandlersOf(p, k)) \in Nat
      BY <2>3, ListFacts, SeqFacts
    <2>8. /\ 1 = Len(invoked[p][k]) + 1 /\ 1 <= Len(HandlersOf(p, k)) + 1
          /\ \A n \in 1..Len(invoked[p][k]) : invoked[p][k][n] = HandlersOf(p, k)[n]
      BY <2>6, <2>7
    <2> QED BY <2>1, <2>2, <2>3, <2>4, <2>8, Turn
  <1>2. ASSUME NEW k \in Deliveries, HandlerSettles(p, k)
        PROVE  /\ k \in DOMAIN log
               /\ stage[p][k] \in {"locking", "handling"}
               /\ stage'[p][k] = "handling" => Called(p, k, HandlersOf(p, k))'
               /\ stage'[p][k] \in {"handling", "releasing"}
               /\ stage'[p][k] = "releasing" => invoked[p][k] = HandlersOf(p, k)
               /\ \A q \in Instances, j \in Deliveries : <<q, j>> # <<p, k>> =>
                    /\ stage'[q][j] = stage[q][j]
                    /\ index'[q][j] = index[q][j] /\ invoked'[q][j] = invoked[q][j]
    <2>1. stage[p][k] = "handling" /\ RunFrom(p, k, index[p][k] + 1, cmds[p]) /\ UNCHANGED <<log, handlers>>
      BY <1>2 DEF HandlerSettles
    <2>2. k \in DOMAIN log /\ Called(p, k, HandlersOf(p, k))
      BY <2>1 DEF Loops, FlowInv, TypeInv, Known
    <2>3. Len(HandlersOf(p, k)) \in Nat /\ Len(invoked[p][k]) \in Nat
      BY <2>2, ListFacts, SeqFacts
    <2>4. /\ index[p][k] + 1 = Len(invoked[p][k]) + 1
          /\ index[p][k] + 1 <= Len(HandlersOf(p, k)) + 1
          /\ \A n \in 1..Len(invoked[p][k]) : invoked[p][k][n] = HandlersOf(p, k)[n]
      BY <2>2, <2>3 DEF Called
    <2> QED BY <2>1, <2>2, <2>4, Turn
  <1> QED BY <1>1, <1>2

(* The other steps of handleMessage neither enter nor leave the loop.       *)
LEMMA NoTurn ==
  ASSUME FlowInv, NEW p \in Instances,
         \/ LockDenied(p) \/ LockReleased(p)
         \/ \E k \in Deliveries : Ignore(p, k) \/ Receive(p, k)
  PROVE  /\ UNCHANGED <<log, handlers, index, invoked>>
         /\ \A q \in Instances, j \in Deliveries :
              /\ stage[q][j] = "handling" <=> stage'[q][j] = "handling"
              /\ stage'[q][j] \in {"idle", "locking"} => stage[q][j] \in {"idle", "locking"}
  <1>1. UNCHANGED <<log, handlers, index, invoked>>
    BY DEF Ignore, Receive, LockDenied, LockReleased, mem
  <1>2. PICK k \in Deliveries, s \in Stages :
          /\ Moved(p, k, s) /\ s # "handling" /\ stage[p][k] # "handling"
          /\ s \in {"idle", "locking"} => stage[p][k] = "idle"
    <2>1. ASSUME NEW k \in Deliveries, Ignore(p, k) \/ Receive(p, k)
          PROVE  stage[p][k] = "idle" /\ (Moved(p, k, "ignored") \/ Moved(p, k, "locking"))
      BY <2>1 DEF Ignore, Receive, Arrived, FlowInv, ArriveOnce
    <2>2. CASE LockDenied(p) \/ LockReleased(p)
      <3>1. PICK i \in DOMAIN cmds[p] :
              Moved(p, cmds[p][i].task, "skipped") \/ Moved(p, cmds[p][i].task, "done")
        BY <2>2 DEF LockDenied, LockReleased
      <3>2. PICK k \in Deliveries : k = cmds[p][i].task
        BY CmdFacts DEF FlowInv
      <3>3. stage[p][k] \in {"locking", "releasing"}
        BY <3>2 DEF FlowInv, AwaitOne
      <3> QED BY <3>1, <3>2, <3>3 DEF Stages
    <2>3. {"ignored", "locking"} \subseteq Stages
      BY DEF Stages, Active
    <2> QED BY <2>1, <2>2, <2>3
  <1>3. /\ stage'[p][k] = s
        /\ \A q \in Instances, j \in Deliveries : <<q, j>> # <<p, k>> => stage'[q][j] = stage[q][j]
    BY <1>2, MovedFacts DEF FlowInv, TypeInv
  <1>4. ASSUME NEW q \in Instances, NEW j \in Deliveries
        PROVE  /\ stage[q][j] = "handling" <=> stage'[q][j] = "handling"
               /\ stage'[q][j] \in {"idle", "locking"} => stage[q][j] \in {"idle", "locking"}
    <2>1. CASE <<q, j>> = <<p, k>>
      <3>1. q = p /\ j = k
        BY <2>1
      <3> QED BY <1>2, <1>3, <3>1
    <2>2. CASE <<q, j>> # <<p, k>>
      BY <1>3, <2>2
    <2> QED BY <2>1, <2>2
  <1> QED BY <1>1, <1>4

(* Changes of the handler lists extend those that are being walked.         *)
LEMMA ListsGrow ==
  ASSUME FlowInv, [Next]_vars, QuietRemoval,
         NEW p \in Instances, NEW k \in DOMAIN log, stage[p][k] = "handling"
  PROVE  /\ Len(HandlersOf(p, k)) <= Len(HandlersOf(p, k)')
         /\ \A i \in 1..Len(HandlersOf(p, k)) : HandlersOf(p, k)'[i] = HandlersOf(p, k)[i]
  <1>1. log'[k].channel = log[k].channel
    BY LogGrows
  <1>2. k \in Deliveries /\ HandlersOf(p, k) \in Seq(Handlers) /\ Len(HandlersOf(p, k)) \in Nat
    BY ListFacts, SeqFacts
  <1>3. CASE handlers'[p][log[k].channel] = handlers[p][log[k].channel]
    BY <1>1, <1>2, <1>3 DEF HandlersOf
  <1>4. ASSUME NEW q \in Instances, NEW c \in Channels, NEW h \in Dynamic, RegistHandler(q, c, h)
        PROVE  \/ handlers'[p][log[k].channel] = handlers[p][log[k].channel]
               \/ HandlersOf(p, k)' = Append(HandlersOf(p, k), h) /\ h \in Handlers
    <2>1. handlers' = [handlers EXCEPT ![q][c] = Append(@, h)] /\ h \in Handlers
      BY <1>4, HandlerAssumption DEF RegistHandler
    <2> QED BY <1>1, <2>1, ListFacts DEF HandlersOf, FlowInv, TypeInv, TypeOK
  <1>5. ASSUME NEW h \in Handlers, HandlersOf(p, k)' = Append(HandlersOf(p, k), h)
        PROVE  /\ Len(HandlersOf(p, k)) <= Len(HandlersOf(p, k)')
               /\ \A i \in 1..Len(HandlersOf(p, k)) : HandlersOf(p, k)'[i] = HandlersOf(p, k)[i]
    <2>1. PICK list \in Seq(Handlers) : list = HandlersOf(p, k)
      BY <1>2
    <2>2. /\ Len(Append(list, h)) = Len(list) + 1 /\ Len(list) \in Nat
          /\ \A i \in 1..Len(list) : Append(list, h)[i] = list[i]
      BY AppendFacts, SeqFacts
    <2> QED BY <1>5, <2>1, <2>2
  <1>6. ASSUME NEW q \in Instances, NEW c \in Channels,
               RemoveAllHandlers(q, c) \/ \E h \in Dynamic : RemoveHandler(q, c, h)
        PROVE  handlers'[p][log[k].channel] = handlers[p][log[k].channel]
    <2>1. MayRemove(q, c)
      BY <1>6 DEF RemoveAllHandlers, RemoveHandler
    <2>2. q = p => log[k].channel # c
      BY <1>2, <2>1 DEF MayRemove
    <2>3. PICK list : handlers' = [handlers EXCEPT ![q][c] = list]
      BY <1>6 DEF RemoveAllHandlers, RemoveHandler
    <2> QED BY <2>2, <2>3, ListFacts DEF FlowInv, TypeInv, TypeOK
  <1>7. ASSUME Handling \/ Server \/ Faults \/ Sleep \/ UNCHANGED vars
        PROVE  handlers' = handlers
    BY <1>7 DEF Handling, Ignore, Receive, LockGranted, LockDenied, LockReleased, HandlerSettles,
           Server, Tick, ExecSet, ExecDel, Faults, Crash, Reconnect, LoseSubscription, Sleep, vars, mem
  <1>8. ASSUME Application
        PROVE  /\ Len(HandlersOf(p, k)) <= Len(HandlersOf(p, k)')
               /\ \A i \in 1..Len(HandlersOf(p, k)) : HandlersOf(p, k)'[i] = HandlersOf(p, k)[i]
    <2>1. CASE handlers' = handlers
      BY <1>3, <2>1
    <2>2. ASSUME NEW q \in Instances, NEW c \in Channels, NEW h \in Dynamic, RegistHandler(q, c, h)
          PROVE  <1>8!2
      BY <1>3, <1>4, <1>5, <2>2
    <2>3. ASSUME NEW q \in Instances, NEW c \in Channels,
                 RemoveAllHandlers(q, c) \/ \E h \in Dynamic : RemoveHandler(q, c, h)
          PROVE  <1>8!2
      BY <1>3, <1>6, <2>3
    <2>4. (\E q \in Instances : Subscribe(q)) \/ (\E s \in Publishers, c \in Channels : PublishMessage(s, c))
            \/ (\E n \in Deliveries : PublishAgain(n)) => handlers' = handlers
      BY DEF Subscribe, PublishMessage, PublishAgain, mem
    <2> QED BY <1>8, <2>1, <2>2, <2>3, <2>4 DEF Application
  <1> QED BY <1>3, <1>7, <1>8 DEF Next

LEMMA CalledKept ==
  ASSUME LoopInv, [Next]_vars, QuietRemoval,
         NEW p \in Instances, NEW k \in Deliveries, stage[p][k] = "handling",
         index'[p][k] = index[p][k], invoked'[p][k] = invoked[p][k]
  PROVE  Called(p, k, HandlersOf(p, k))'
  <1> USE DEF LoopInv
  <1>1. k \in DOMAIN log
    BY DEF FlowInv, TypeInv, Known
  <1>2. PICK list, grown :
          /\ list = HandlersOf(p, k) /\ grown = HandlersOf(p, k)'
          /\ list \in Seq(Handlers) /\ grown \in Seq(Handlers)
    <2>1. FlowInv' /\ log'[k].channel = log[k].channel
      BY <1>1, FlowStep, LogGrows
    <2>2. /\ handlers' \in [Instances -> [Channels -> Seq(Handlers)]]
          /\ log[k].channel \in Channels
          /\ HandlersOf(p, k) \in Seq(Handlers)
      BY <1>1, <2>1, ListFacts DEF FlowInv, TypeInv, TypeOK
    <2>3. HandlersOf(p, k)' \in Seq(Handlers)
      BY <2>1, <2>2 DEF HandlersOf
    <2> QED BY <2>2, <2>3
  <1>3. /\ Len(list) <= Len(grown)
        /\ \A i \in 1..Len(list) : grown[i] = list[i]
    BY <1>1, <1>2, ListsGrow
  <1>4. /\ index[p][k] = Len(invoked[p][k]) /\ index[p][k] <= Len(list)
        /\ \A i \in 1..Len(invoked[p][k]) : invoked[p][k][i] = list[i]
    BY <1>2 DEF Loops, Called
  <1>5. Len(list) \in Nat /\ Len(grown) \in Nat /\ index[p][k] \in Nat
    BY <1>2, SeqFacts DEF FlowInv, TypeInv, TypeOK
  <1>6. \A i \in 1..Len(invoked[p][k]) : i \in 1..Len(list)
    BY <1>4, <1>5
  <1>7. index[p][k] <= Len(grown)
    BY <1>3, <1>4, <1>5
  <1> QED BY <1>2, <1>3, <1>4, <1>6, <1>7 DEF Called

(* Which stages the steps outside handleMessage change, and the loop's      *)
(* state not at all.                                                        *)
LEMMA Outside ==
  ASSUME FlowInv, Application \/ Server \/ Faults \/ Sleep \/ UNCHANGED vars
  PROVE  /\ UNCHANGED <<index, invoked>>
         /\ \A p \in Instances, k \in Deliveries :
              stage'[p][k] = stage[p][k] \/ stage'[p][k] = "crashed"
  <1>1. UNCHANGED <<index, invoked>>
    BY DEF Application, Subscribe, RegistHandler, RemoveHandler, RemoveAllHandlers, PublishMessage,
           PublishAgain, Server, Tick, ExecSet, ExecDel, Faults, Crash, Reconnect,
           LoseSubscription, Sleep, vars, mem
  <1>2. stage' = stage \/ \E q \in MayCrash : Crash(q)
    BY DEF Application, Subscribe, RegistHandler, RemoveHandler, RemoveAllHandlers, PublishMessage,
           PublishAgain, Server, Tick, ExecSet, ExecDel, Faults, Reconnect,
           LoseSubscription, Sleep, vars
  <1>3. ASSUME NEW q \in MayCrash, Crash(q), NEW p \in Instances, NEW k \in Deliveries
        PROVE  stage'[p][k] = stage[p][k] \/ stage'[p][k] = "crashed"
    BY <1>3, ConfigAssumption DEF Crash, FlowInv, TypeInv, TypeOK
  <1> QED BY <1>1, <1>2, <1>3

LEMMA LoopStep ==
  ASSUME LoopInv, [Next]_vars, QuietRemoval
  PROVE  /\ LoopInv'
         /\ \A p \in Instances, k \in Deliveries :
              stage[p][k] = "handling" /\ stage'[p][k] = "releasing" => invoked[p][k] = HandlersOf(p, k)
  <1> USE DEF LoopInv
  <1>1. FlowInv'
    BY FlowStep
  <1>2. ASSUME NEW p \in Instances, LockGranted(p) \/ \E k \in Deliveries : HandlerSettles(p, k)
        PROVE  /\ Fresh' /\ Loops'
               /\ \A q \in Instances, j \in Deliveries :
                    stage[q][j] = "handling" /\ stage'[q][j] = "releasing" => invoked[q][j] = HandlersOf(q, j)
    <2>1. PICK k \in DOMAIN log :
            /\ stage'[p][k] = "handling" => Called(p, k, HandlersOf(p, k))'
            /\ stage'[p][k] \in {"handling", "releasing"}
            /\ stage'[p][k] = "releasing" => invoked[p][k] = HandlersOf(p, k)
            /\ \A q \in Instances, j \in Deliveries : <<q, j>> # <<p, k>> =>
                 /\ stage'[q][j] = stage[q][j]
                 /\ index'[q][j] = index[q][j] /\ invoked'[q][j] = invoked[q][j]
      BY <1>2, Turns
    <2>2. Fresh'
      <3> SUFFICES ASSUME NEW q \in Instances, NEW j \in Deliveries, stage'[q][j] \in {"idle", "locking"}
                   PROVE  invoked'[q][j] = <<>>
        BY DEF Fresh
      <3>1. <<q, j>> # <<p, k>>
        BY <2>1
      <3> QED BY <2>1, <3>1 DEF Fresh
    <2>3. Loops'
      <3> SUFFICES ASSUME NEW q \in Instances, NEW j \in Deliveries, stage'[q][j] = "handling"
                   PROVE  Called(q, j, HandlersOf(q, j))'
        BY DEF Loops
      <3>1. CASE <<q, j>> = <<p, k>>
        <4>1. q = p /\ j = k
          BY <3>1
        <4> QED BY <2>1, <4>1
      <3>2. CASE <<q, j>> # <<p, k>>
        BY <2>1, <3>2, CalledKept
      <3> QED BY <3>1, <3>2
    <2>4. ASSUME NEW q \in Instances, NEW j \in Deliveries,
                 stage[q][j] = "handling", stage'[q][j] = "releasing"
          PROVE  invoked[q][j] = HandlersOf(q, j)
      <3>1. <<q, j>> = <<p, k>>
        BY <2>1, <2>4
      <3>2. q = p /\ j = k
        BY <3>1
      <3> QED BY <2>1, <2>4, <3>2
    <2> QED BY <2>2, <2>3, <2>4
  <1>3. ASSUME UNCHANGED <<index, invoked>>,
               \A q \in Instances, j \in Deliveries :
                 /\ stage'[q][j] \in {"idle", "locking"} => stage[q][j] \in {"idle", "locking"}
                 /\ stage'[q][j] = "handling" => stage[q][j] = "handling"
        PROVE  Fresh' /\ Loops'
    <2>1. Fresh'
      BY <1>3 DEF Fresh
    <2>2. Loops'
      <3> SUFFICES ASSUME NEW q \in Instances, NEW j \in Deliveries, stage'[q][j] = "handling"
                   PROVE  Called(q, j, HandlersOf(q, j))'
        BY DEF Loops
      <3> QED BY <1>3, CalledKept
    <2> QED BY <2>1, <2>2
  <1>4. ASSUME NEW p \in Instances,
               \/ LockDenied(p) \/ LockReleased(p)
               \/ \E k \in Deliveries : Ignore(p, k) \/ Receive(p, k)
        PROVE  /\ Fresh' /\ Loops'
               /\ \A q \in Instances, j \in Deliveries :
                    ~ (stage[q][j] = "handling" /\ stage'[q][j] = "releasing")
    BY <1>3, <1>4, NoTurn
  <1>5. ASSUME Application \/ Server \/ Faults \/ Sleep \/ UNCHANGED vars
        PROVE  /\ Fresh' /\ Loops'
               /\ \A q \in Instances, j \in Deliveries :
                    ~ (stage[q][j] = "handling" /\ stage'[q][j] = "releasing")
    BY <1>3, <1>5, Outside
  <1> QED BY <1>1, <1>2, <1>4, <1>5 DEF Next, Handling

LEMMA LoopInit == Init => LoopInv
  <1>1. Init => Fresh /\ Loops
    BY DEF Init, Fresh, Loops
  <1> QED BY <1>1, FlowInit DEF LoopInv

(* When the loop ends it has called each handler of the channel once, in    *)
(* the order of their registration, those registered meanwhile included, as *)
(* long as none is removed while it runs.                                   *)
THEOREM FanoutHolds ==
  ASSUME QuietRemoval
  PROVE  Spec => Fanout
  <1>1. LoopInv /\ [Next]_vars => LoopInv'
    BY LoopStep
  <1>2. LoopInv /\ [Next]_vars =>
          [\A p \in Instances, k \in DOMAIN log :
             stage[p][k] = "handling" /\ stage'[p][k] = "releasing"
             => invoked[p][k] = HandlersOf(p, k)]_vars
    <2>1. LoopInv => \A k \in DOMAIN log : k \in Deliveries
      BY LogFacts DEF LoopInv, FlowInv, TypeInv
    <2> QED BY <2>1, LoopStep
  <1> QED BY <1>1, <1>2, LoopInit, PTL DEF Spec, Fanout
=============================================================================
