-------------------------- MODULE RedisCacheProofs --------------------------
(* Theorems about RedisCache, for every value of its constants. *)
EXTENDS RedisCache, TLAPS

LEMMA ObjectFacts ==
  ASSUME NEW obj \in Objects
  PROVE  /\ DOMAIN obj \subseteq Fields
         /\ obj \in [DOMAIN obj -> Values]
  BY DEF Objects

LEMMA AssignFacts ==
  ASSUME NEW old \in Objects, NEW some \in Objects
  PROVE  Assign(old, some) \in Objects
  <1>1. /\ DOMAIN old \subseteq Fields /\ old \in [DOMAIN old -> Values]
        /\ DOMAIN some \subseteq Fields /\ some \in [DOMAIN some -> Values]
    BY ObjectFacts
  <1>2. Assign(old, some) \in [DOMAIN old \cup DOMAIN some -> Values]
    BY <1>1 DEF Assign
  <1>3. DOMAIN old \cup DOMAIN some \in SUBSET Fields
    BY <1>1
  <1> QED
    BY <1>2, <1>3 DEF Objects

LEMMA MergeStored ==
  ASSUME NEW old \in Stored \cup {Absent}, NEW some \in Objects
  PROVE  Merge(old, some) \in Stored
  BY AssignFacts DEF Merge, Stored

LEMMA ScalarIsNoObject == \A obj \in Objects : obj \notin Scalars
  BY TextAssumption

(* What an operation may write: a value or nothing, with time to live.      *)
Sound(v, life) == v \in Stored \cup {Absent} /\ life \in Int

RedisOK == /\ data \in [Keys -> Stored \cup {Absent}]
           /\ expiry \in [Keys -> Int]

LEMMA PutFacts ==
  ASSUME RedisOK, NEW k \in Keys, NEW v, NEW life, Sound(v, life), Put(k, v, life)
  PROVE  /\ RedisOK'
         /\ \A other \in Keys : other # k => data'[other] = data[other]
         /\ data'[k] = v
  BY DEF RedisOK, Put, Sound

LEMMA DeleteFacts ==
  ASSUME RedisOK, NEW k \in Keys, Delete(k)
  PROVE  RedisOK' /\ \A other \in Keys : other # k => data'[other] = data[other]
  <1>1. Sound(Absent, Forever)
    BY DEF Sound, Forever
  <1> QED
    BY <1>1, PutFacts DEF Delete

LEMMA ExpireFacts ==
  ASSUME RedisOK, NEW k \in Keys, NEW life \in Int, Expire(k, life)
  PROVE  RedisOK' /\ \A other \in Keys : other # k => data'[other] = data[other]
  <1>1. CASE data[k] = Absent /\ UNCHANGED redis
    BY <1>1 DEF RedisOK, redis
  <1>2. CASE data[k] # Absent /\ life > 0 /\ Put(k, data[k], life)
    <2>1. Sound(data[k], life)
      BY <1>2 DEF RedisOK, Sound
    <2> QED
      BY <1>2, <2>1, PutFacts
  <1>3. CASE data[k] # Absent /\ life <= 0 /\ Delete(k)
    BY <1>3, DeleteFacts
  <1> QED
    BY <1>1, <1>2, <1>3 DEF Expire

LEMMA TypedExcept ==
  ASSUME NEW S, NEW T, NEW fun \in [S -> T], NEW s \in S, NEW v \in T
  PROVE  /\ [fun EXCEPT ![s] = v] \in [S -> T]
         /\ [fun EXCEPT ![s] = v][s] = v
         /\ \A x \in S : x # s => [fun EXCEPT ![s] = v][x] = fun[x]
  OBVIOUS

LEMMA UntypedExcept ==
  ASSUME NEW S, NEW fun, fun = [x \in S |-> fun[x]], NEW s \in S, NEW v,
         NEW new, new = [fun EXCEPT ![s] = v]
  PROVE  /\ new = [x \in S |-> new[x]]
         /\ new[s] = v
         /\ \A x \in S : x # s => new[x] = fun[x]
  OBVIOUS

-----------------------------------------------------------------------------
(* The invariant splits into what Redis holds and what each caller knows.   *)

Commands == {"idle", "get", "set", "ttl", "expire"}

JobOK(c) ==
  /\ IF pc[c] = "idle" THEN job[c] = None
     ELSE job[c] \in Job /\ c \in Writers[job[c].key]
  /\ pc[c] = "set" => job[c].value \in Stored

Current(c) ==
  pc[c] = "set" /\ Alone(job[c].key) /\ data[job[c].key] \in Objects =>
    job[c].value = Merge(data[job[c].key], job[c].some)

Frame == /\ pc \in [Callers -> Commands] /\ job = [c \in Callers |-> job[c]]
         /\ due \in [Callers -> Nat] /\ calls \in Nat

Inv == RedisOK /\ Frame /\ \A c \in Callers : JobOK(c) /\ Current(c)

LEMMA InvGives == Inv => TypeOK /\ ReadIsCurrent
  BY DEF Inv, RedisOK, Frame, Commands, JobOK, Current, TypeOK, ReadIsCurrent

(* A caller in the middle of an update is not disturbed by a step of        *)
(* another, because that other writes only keys that are its own as well.   *)
LEMMA OthersUndisturbed ==
  ASSUME Inv, NEW c \in Callers, NEW k \in Keys, c \in Writers[k],
         \A other \in Keys : other # k => data'[other] = data[other],
         NEW d \in Callers, d # c, pc'[d] = pc[d], job'[d] = job[d]
  PROVE  JobOK(d)' /\ Current(d)'
  <1>1. JobOK(d) /\ Current(d)
    BY DEF Inv
  <1>2. JobOK(d)'
    BY <1>1 DEF JobOK
  <1>3. ASSUME pc[d] = "set", Alone(job[d].key) PROVE data'[job[d].key] = data[job[d].key]
    <2>1. job[d].key \in Keys /\ d \in Writers[job[d].key]
      BY <1>1, <1>3 DEF JobOK, Job
    <2>2. job[d].key # k
      BY <1>3, <2>1 DEF Alone
    <2> QED
      BY <2>1, <2>2
  <1>4. Current(d)'
    <2>1. Alone(job[d].key)' <=> Alone(job[d].key)
      BY DEF Alone
    <2> QED
      BY <1>1, <1>3, <2>1 DEF Current, Alone
  <1> QED
    BY <1>2, <1>4

(* A single command leaves all updates under way alone.                     *)
LEMMA SingleStep ==
  ASSUME Inv, NEW c \in Callers, NEW k \in Keys, Single(c, k), RedisOK',
         \A other \in Keys : other # k => data'[other] = data[other]
  PROVE  Inv'
  <1>1. pc[c] = "idle" /\ c \in Writers[k] /\ UNCHANGED <<pc, job, due>> /\ calls' = calls + 1
    BY DEF Single, Called
  <1>2. Frame'
    BY <1>1 DEF Inv, Frame
  <1>3. JobOK(c)' /\ Current(c)'
    BY <1>1 DEF Inv, JobOK, Current
  <1>4. ASSUME NEW d \in Callers, d # c PROVE JobOK(d)' /\ Current(d)'
    BY <1>1, <1>4, OthersUndisturbed
  <1> QED
    BY <1>2, <1>3, <1>4 DEF Inv

(* A step of an update leaves the updates of other callers alone.           *)
LEMMA UpdateStep ==
  ASSUME Inv, NEW c \in Callers, NEW k \in Keys, c \in Writers[k], RedisOK', Frame',
         \A other \in Keys : other # k => data'[other] = data[other],
         \A d \in Callers : d # c => pc'[d] = pc[d] /\ job'[d] = job[d],
         JobOK(c)', Current(c)'
  PROVE  Inv'
  <1>1. ASSUME NEW d \in Callers, d # c PROVE JobOK(d)' /\ Current(d)'
    BY <1>1, OthersUndisturbed
  <1> QED
    BY <1>1 DEF Inv

-----------------------------------------------------------------------------
LEMMA OneCommandStep ==
  ASSUME Inv, NEW c \in Callers, NEW k \in Keys, OneCommand(c, k)
  PROVE  Inv'
  <1>0. RedisOK
    BY DEF Inv
  <1>1. ASSUME NEW v \in Stored, NEW life \in Int,
               Single(c, k), Put(k, v, life)
        PROVE  Inv'
    <2>1. Sound(v, life)
      BY <1>1 DEF Sound
    <2> QED
      BY <1>0, <1>1, <2>1, PutFacts, SingleStep
  <1>2. ASSUME NEW v \in Stored \ Objects, SetValue(c, k, v) PROVE Inv'
    BY <1>1, <1>2 DEF SetValue, Forever
  <1>3. ASSUME NEW v \in Stored \ Objects, NEW ex \in Lifetimes, SetValueEx(c, k, v, ex)
        PROVE  Inv'
    BY <1>1, <1>3, ConfigAssumption DEF SetValueEx
  <1>4. ASSUME NEW obj \in Objects, NEW ex \in Lifetimes, SetData(c, k, obj, ex) PROVE Inv'
    <2>1. obj \in Stored /\ ex \in Int
      BY ConfigAssumption DEF Stored
    <2>2. CASE ex > 0
      BY <1>1, <1>4, <2>1, <2>2 DEF SetData
    <2>3. CASE ~ (ex > 0)
      BY <1>1, <1>4, <2>1, <2>3 DEF SetData, Forever
    <2> QED
      BY <2>2, <2>3
  <1>5. ASSUME NEW ex \in Lifetimes, SetExpires(c, k, ex) PROVE Inv'
    BY <1>0, <1>5, ExpireFacts, SingleStep, ConfigAssumption DEF SetExpires
  <1>6. ASSUME DeleteKey(c, k) PROVE Inv'
    <2>1. CASE Delete(k)
      BY <1>0, <1>6, <2>1, DeleteFacts, SingleStep DEF DeleteKey
    <2>2. CASE UNCHANGED redis
      <3>1. RedisOK' /\ \A other \in Keys : data'[other] = data[other]
        BY <1>0, <2>2 DEF RedisOK, redis
      <3> QED
        BY <1>6, <3>1, SingleStep DEF DeleteKey
    <2> QED
      BY <1>6, <2>1, <2>2 DEF DeleteKey
  <1> QED
    BY <1>2, <1>3, <1>4, <1>5, <1>6 DEF OneCommand

(* What a step of an update changes of the caller's own state.              *)
LEMMA StepFacts ==
  ASSUME Inv, NEW c \in Callers, NEW next \in Commands, pc' = [pc EXCEPT ![c] = next],
         NEW mine, job' = [job EXCEPT ![c] = mine],
         NEW owed \in Nat, due' = [due EXCEPT ![c] = owed], calls' \in Nat
  PROVE  /\ Frame' /\ pc'[c] = next /\ job'[c] = mine
         /\ \A d \in Callers : d # c => pc'[d] = pc[d] /\ job'[d] = job[d]
  <1>1. Frame
    BY DEF Inv
  <1>2. /\ pc' \in [Callers -> Commands] /\ pc'[c] = next
        /\ \A d \in Callers : d # c => pc'[d] = pc[d]
    BY <1>1, TypedExcept DEF Frame
  <1>3. /\ job' = [d \in Callers |-> job'[d]] /\ job'[c] = mine
        /\ \A d \in Callers : d # c => job'[d] = job[d]
    BY <1>1, UntypedExcept DEF Frame
  <1>4. due' \in [Callers -> Nat]
    BY <1>1, TypedExcept DEF Frame
  <1> QED
    BY <1>2, <1>3, <1>4 DEF Frame

LEMMA BeginStep ==
  ASSUME Inv, NEW c \in Callers, NEW k \in Keys, NEW some \in Objects, NEW ex \in Int,
         Update(c, k, some, ex)
  PROVE  Inv'
  <1> DEFINE record == [key |-> k, some |-> some, ex |-> ex, value |-> None, ttl |-> 0]
  <1>1. /\ pc[c] = "idle" /\ c \in Writers[k] /\ calls' = calls + 1 /\ UNCHANGED <<redis, due>>
        /\ pc' = [pc EXCEPT ![c] = "get"] /\ job' = [job EXCEPT ![c] = record]
    BY DEF Update, Called
  <1>2. record \in Job /\ record.key = k
    BY DEF Job
  <1> HIDE DEF record
  <1>3. /\ Frame' /\ pc'[c] = "get" /\ job'[c] = record
        /\ \A d \in Callers : d # c => pc'[d] = pc[d] /\ job'[d] = job[d]
    <2>1. due \in [Callers -> Nat] /\ due[c] \in Nat /\ calls' \in Nat /\ due' = due
      BY <1>1 DEF Inv, Frame
    <2>2. due' = [due EXCEPT ![c] = due[c]]
      BY <2>1
    <2>3. "get" \in Commands
      BY DEF Commands
    <2> QED
      BY <1>1, <2>1, <2>2, <2>3, StepFacts
  <1>4. RedisOK' /\ \A other \in Keys : data'[other] = data[other]
    BY <1>1 DEF Inv, RedisOK, redis
  <1>5. JobOK(c)' /\ Current(c)'
    BY <1>1, <1>2, <1>3 DEF JobOK, Current
  <1> QED
    BY <1>1, <1>3, <1>4, <1>5, UpdateStep

(* What every command of an update changes of the caller's own state.       *)
LEMMA FinishFacts ==
  ASSUME Inv, NEW c \in Callers, NEW command, Finish(c, command)
  PROVE  /\ Frame' /\ JobOK(c)' /\ Current(c)'
         /\ \A d \in Callers : d # c => pc'[d] = pc[d] /\ job'[d] = job[d]
  <1>1. /\ pc' = [pc EXCEPT ![c] = "idle"] /\ job' = [job EXCEPT ![c] = None]
        /\ due' = [due EXCEPT ![c] = 0] /\ calls' = calls
    BY DEF Finish, Step
  <1>2. "idle" \in Commands /\ 0 \in Nat /\ calls' \in Nat
    BY <1>1 DEF Inv, Frame, Commands
  <1>3. /\ Frame' /\ pc'[c] = "idle" /\ job'[c] = None
        /\ \A d \in Callers : d # c => pc'[d] = pc[d] /\ job'[d] = job[d]
    BY <1>1, <1>2, StepFacts
  <1> QED
    BY <1>3 DEF JobOK, Current

LEMMA JobFacts ==
  ASSUME Inv, NEW c \in Callers, pc[c] # "idle"
  PROVE  /\ job[c] \in Job /\ job[c].key \in Keys /\ c \in Writers[job[c].key]
         /\ job[c].some \in Objects /\ job[c].ex \in Int /\ job[c].ttl \in Int
         /\ data[job[c].key] \in Stored \cup {Absent}
         /\ TtlOf(job[c].key) \in Int
         /\ due[c] \in Nat
  BY DEF Inv, JobOK, Job, RedisOK, TtlOf, Frame

LEMMA SameRedis ==
  ASSUME Inv, UNCHANGED redis
  PROVE  RedisOK' /\ \A other \in Keys : data'[other] = data[other]
  BY DEF Inv, RedisOK, redis

LEMMA GetStep ==
  ASSUME Inv, NEW c \in Callers, ExecGet(c)
  PROVE  Inv'
  <1> DEFINE k == job[c].key
             merged == Merge(data[k], job[c].some)
             owed == IF TtlOf(k) > 0 /\ job[c].ex >= 0 THEN TtlOf(k) + job[c].ex ELSE 0
  <1>1. pc[c] = "get" /\ Step(c, "get", "set") /\ UNCHANGED redis
    BY DEF ExecGet, Step
  <1>2. /\ job[c] \in Job /\ k \in Keys /\ c \in Writers[k]
        /\ merged \in Stored /\ owed \in Nat
    BY <1>1, JobFacts, MergeStored
  <1>3. job' = [job EXCEPT ![c] = [job[c] EXCEPT !.value = merged]]
    BY DEF ExecGet
  <1>4. due' = [due EXCEPT ![c] = owed]
    BY DEF ExecGet
  <1> HIDE DEF merged, owed
  <1>5. /\ Frame' /\ pc'[c] = "set" /\ job'[c] = [job[c] EXCEPT !.value = merged]
        /\ \A d \in Callers : d # c => pc'[d] = pc[d] /\ job'[d] = job[d]
    <2>1. "set" \in Commands /\ calls' \in Nat /\ pc' = [pc EXCEPT ![c] = "set"]
      BY <1>1 DEF Commands, Step, Inv, Frame
    <2> QED
      BY <1>2, <1>3, <1>4, <2>1, StepFacts
  <1>6. /\ job'[c] \in Job /\ job'[c].value = merged
        /\ job'[c].key = k /\ job'[c].some = job[c].some
    BY <1>2, <1>5 DEF Job
  <1>7. RedisOK' /\ data' = data
    BY <1>1, SameRedis DEF redis
  <1>8. JobOK(c)'
    BY <1>2, <1>5, <1>6 DEF JobOK
  <1>9. Current(c)'
    BY <1>6, <1>7 DEF Current, merged
  <1> QED
    BY <1>2, <1>5, <1>7, <1>8, <1>9, UpdateStep

LEMMA SetStep ==
  ASSUME Inv, NEW c \in Callers, ExecSet(c)
  PROVE  Inv'
  <1> DEFINE k == job[c].key
  <1>1. pc[c] = "set" /\ Put(k, job[c].value, Forever)
    BY DEF ExecSet
  <1>2. k \in Keys /\ c \in Writers[k] /\ job[c].value \in Stored /\ RedisOK /\ JobOK(c)
        /\ job[c] \in Job /\ due[c] \in Nat
    BY <1>1, JobFacts DEF Inv, JobOK
  <1>3. Sound(job[c].value, Forever)
    BY <1>2 DEF Sound, Forever
  <1>4. RedisOK' /\ \A other \in Keys : other # k => data'[other] = data[other]
    BY <1>1, <1>2, <1>3, PutFacts
  <1>5. CASE Finish(c, "set")
    BY <1>2, <1>4, <1>5, FinishFacts, UpdateStep
  <1>6. CASE Step(c, "set", "ttl") /\ UNCHANGED <<job, due>>
    <2>1. job' = [job EXCEPT ![c] = job[c]] /\ due' = [due EXCEPT ![c] = due[c]]
      BY <1>6 DEF Inv, Frame
    <2>2. /\ Frame' /\ pc'[c] = "ttl" /\ job'[c] = job[c]
          /\ \A d \in Callers : d # c => pc'[d] = pc[d] /\ job'[d] = job[d]
      <3>1. "ttl" \in Commands /\ calls' \in Nat /\ pc' = [pc EXCEPT ![c] = "ttl"]
        BY <1>6 DEF Commands, Step, Inv, Frame
      <3> QED
        BY <1>2, <2>1, <3>1, StepFacts
    <2>3. JobOK(c)' /\ Current(c)'
      BY <1>2, <2>2 DEF JobOK, Current
    <2> QED
      BY <1>2, <1>4, <2>2, <2>3, UpdateStep
  <1> QED
    BY <1>5, <1>6 DEF ExecSet

LEMMA TtlStep ==
  ASSUME Inv, NEW c \in Callers, ExecTtl(c)
  PROVE  Inv'
  <1> DEFINE k == job[c].key
             left == TtlOf(k)
  <1>1. pc[c] = "ttl" /\ Step(c, "ttl", "expire") /\ UNCHANGED redis
    BY DEF ExecTtl, Step
  <1>2. job[c] \in Job /\ k \in Keys /\ c \in Writers[k] /\ left \in Int /\ due[c] \in Nat
    BY <1>1, JobFacts
  <1>3. /\ job' = [job EXCEPT ![c] = [job[c] EXCEPT !.ttl = left]]
        /\ due' = [due EXCEPT ![c] = due[c]]
    BY DEF ExecTtl, Inv, Frame
  <1> HIDE DEF left
  <1>4. /\ Frame' /\ pc'[c] = "expire" /\ job'[c] = [job[c] EXCEPT !.ttl = left]
        /\ \A d \in Callers : d # c => pc'[d] = pc[d] /\ job'[d] = job[d]
    <2>1. "expire" \in Commands /\ calls' \in Nat /\ pc' = [pc EXCEPT ![c] = "expire"]
      BY <1>1 DEF Commands, Step, Inv, Frame
    <2> QED
      BY <1>2, <1>3, <2>1, StepFacts
  <1>5. job'[c] \in Job /\ job'[c].key = k
    BY <1>2, <1>4 DEF Job
  <1>6. JobOK(c)' /\ Current(c)'
    BY <1>2, <1>4, <1>5 DEF JobOK, Current
  <1> QED
    BY <1>1, <1>2, <1>4, <1>6, SameRedis, UpdateStep

LEMMA TickStep ==
  ASSUME Inv, Tick
  PROVE  Inv'
  <1>1. RedisOK'
    BY DEF Inv, RedisOK, Tick, Forever
  <1>2. Frame'
    BY DEF Inv, Frame, Tick
  <1>3. ASSUME NEW c \in Callers PROVE JobOK(c)' /\ Current(c)'
    <2>1. JobOK(c) /\ Current(c) /\ pc' = pc /\ job' = job
      BY DEF Inv, Tick
    <2>2. pc[c] = "set" => job[c].key \in Keys
      BY <2>1 DEF JobOK, Job
    <2>3. \A k \in Keys : data'[k] \in Objects => data'[k] = data[k]
      BY ConfigAssumption DEF Tick, Stored
    <2> QED
      BY <2>1, <2>2, <2>3 DEF JobOK, Current, Alone
  <1> QED
    BY <1>1, <1>2, <1>3 DEF Inv

LEMMA InvStep == Inv /\ [Next]_vars => Inv'
  <1> SUFFICES ASSUME Inv, [Next]_vars PROVE Inv'
    OBVIOUS
  <1>1. ASSUME NEW c \in Callers, NEW k \in Keys, ManyCommands(c, k) PROVE Inv'
    BY <1>1, BeginStep, ConfigAssumption DEF ManyCommands, UpdateSomeData, DelayUpdateData
  <1>2. ASSUME NEW c \in Callers, ExecGetNull(c) PROVE Inv'
    BY <1>2, JobFacts, FinishFacts, SameRedis, UpdateStep DEF ExecGetNull
  <1>3. ASSUME NEW c \in Callers, ExecExpire(c) PROVE Inv'
    <2>1. pc[c] = "expire" /\ Finish(c, "expire")
      BY <1>3 DEF ExecExpire, Finish, Step
    <2>2. RedisOK' /\ \A other \in Keys : other # job[c].key => data'[other] = data[other]
      BY <1>3, <2>1, JobFacts, ExpireFacts DEF ExecExpire, Inv
    <2> QED
      BY <2>1, <2>2, JobFacts, FinishFacts, UpdateStep
  <1>4. ASSUME NEW c \in Callers, Crash(c) PROVE Inv'
    BY <1>4, JobFacts, FinishFacts, SameRedis, UpdateStep DEF Crash
  <1>5. CASE UNCHANGED vars
    BY <1>5 DEF Inv, RedisOK, Frame, JobOK, Current, Alone, vars, redis
  <1> QED
    BY <1>1, <1>2, <1>3, <1>4, <1>5, OneCommandStep, GetStep, SetStep, TtlStep, TickStep
    DEF Next, Sleep

LEMMA InvInit == Init => Inv
  <1> SUFFICES ASSUME Init PROVE Inv
    OBVIOUS
  <1>1. RedisOK
    BY DEF Init, RedisOK, Forever
  <1>2. Frame
    BY DEF Init, Frame, Commands
  <1>3. ASSUME NEW c \in Callers PROVE JobOK(c) /\ Current(c)
    BY DEF Init, JobOK, Current
  <1> QED
    BY <1>1, <1>2, <1>3 DEF Inv

(* Every reachable state is typed: an update writes a value, whatever it    *)
(* found under its key.                                                     *)
THEOREM TypeCorrect == Spec => []TypeOK
  BY InvInit, InvStep, InvGives, PTL DEF Spec

(* A caller leaves the command SET only by SET or by a crash, and a crash   *)
(* writes nothing.                                                          *)
LEMMA OnlySetWrites ==
  ASSUME Inv, [Next]_vars, NEW c \in Callers, pc[c] = "set", pc'[c] # "set",
         data' # data
  PROVE  ExecSet(c)
  <1>1. ASSUME NEW d \in Callers, NEW k \in Keys PROVE ~ OneCommand(d, k)
    BY DEF OneCommand, SetValue, SetValueEx, SetData, SetExpires, DeleteKey, Single
  <1>2. ASSUME NEW d \in Callers, NEW k \in Keys PROVE ~ ManyCommands(d, k)
    BY DEF ManyCommands, UpdateSomeData, DelayUpdateData, Update, redis
  <1>3. ASSUME NEW d \in Callers PROVE ~ ExecGetNull(d) /\ ~ ExecGet(d) /\ ~ ExecTtl(d) /\ ~ Crash(d)
    BY DEF ExecGetNull, ExecGet, ExecTtl, Crash, redis
  <1>4. ASSUME NEW d \in Callers, ExecSet(d) PROVE d = c
    <2>1. pc' = [pc EXCEPT ![d] = "idle"] \/ pc' = [pc EXCEPT ![d] = "ttl"]
      BY <1>4 DEF ExecSet, Finish, Step
    <2> QED
      BY <2>1 DEF Inv, Frame
  <1>5. ASSUME NEW d \in Callers PROVE ~ ExecExpire(d)
    <2> SUFFICES ASSUME ExecExpire(d) PROVE FALSE
      OBVIOUS
    <2>1. pc[d] = "expire" /\ pc' = [pc EXCEPT ![d] = "idle"]
      BY DEF ExecExpire, Finish, Step
    <2> QED
      BY <2>1 DEF Inv, Frame
  <1>6. ~ Tick /\ ~ Sleep /\ ~ UNCHANGED vars
    BY DEF Tick, Sleep, vars, redis
  <1> QED
    BY <1>1, <1>2, <1>3, <1>4, <1>5, <1>6 DEF Next

(* While an object has a single user, its updates never lose a field, for   *)
(* any other callers, keys, expiries and crashes.                           *)
THEOREM UpdateKeepsOthersHolds == Spec => UpdateKeepsOthers
  <1> DEFINE Keeps(c) ==
        LET k == job[c].key IN
        /\ pc[c] = "set" /\ pc'[c] # "set" /\ data'[k] # data[k]
        /\ Alone(k) /\ data[k] \in Objects
        => /\ DOMAIN data'[k] = DOMAIN data[k] \cup DOMAIN job[c].some
           /\ \A f \in DOMAIN data'[k] :
                data'[k][f] = IF f \in DOMAIN job[c].some THEN job[c].some[f]
                              ELSE data[k][f]
  <1>1. ASSUME Inv, [Next]_vars, NEW c \in Callers PROVE Keeps(c)
    <2> DEFINE k == job[c].key
               some == job[c].some
    <2> SUFFICES ASSUME pc[c] = "set", pc'[c] # "set", data'[k] # data[k],
                        Alone(k), data[k] \in Objects
                 PROVE  /\ DOMAIN data'[k] = DOMAIN data[k] \cup DOMAIN some
                        /\ \A f \in DOMAIN data'[k] :
                             data'[k][f] = IF f \in DOMAIN some THEN some[f] ELSE data[k][f]
      OBVIOUS
    <2>1. k \in Keys
      BY <1>1, JobFacts
    <2>2. job[c].value = Assign(data[k], some)
      <3>1. job[c].value = Merge(data[k], some)
        BY <1>1 DEF Inv, Current
      <3> QED
        BY <3>1, ScalarIsNoObject DEF Merge
    <2>3. ExecSet(c)
      BY <1>1, OnlySetWrites
    <2>4. data' = [data EXCEPT ![k] = job[c].value]
      BY <2>3 DEF ExecSet, Put
    <2>5. data'[k] = Assign(data[k], some)
      BY <1>1, <2>1, <2>2, <2>4 DEF Inv, RedisOK
    <2> QED
      BY <2>5 DEF Assign
  <1>2. Inv /\ [Next]_vars => [\A c \in Callers : Keeps(c)]_vars
    BY <1>1
  <1>3. Spec => [][\A c \in Callers : Keeps(c)]_vars
    <2> HIDE DEF Keeps
    <2> QED
      BY <1>2, InvInit, InvStep, PTL DEF Spec
  <1> QED
    BY <1>3 DEF UpdateKeepsOthers

=============================================================================
