----------------------------- MODULE RedisCache -----------------------------
(***************************************************************************)
(* lib/services/redis.service.ts: objects kept as JSON text under Redis    *)
(* keys with an expiry.  Most operations are one command; updateSomeData   *)
(* and delayUpdateData read, merge in the application and write back, so   *)
(* commands of other callers, and expiry, fall between.                    *)
(*                                                                         *)
(* An object is a function on a set of fields; the other texts a key can   *)
(* hold are told apart by what JSON.parse and Object.assign make of them.  *)
(* Commands that only read are not modelled.                               *)
(***************************************************************************)
EXTENDS Integers

CONSTANTS
  Callers,    \* flows of calls, each in a process of its own
  Keys,
  Writers,    \* the callers that use each key
  Fields,
  Values,
  Texts,      \* values whose text is not JSON
  Scalars,    \* values whose text is a JSON number, string or boolean
  Null,       \* the text null
  Absent,     \* the key does not exist
  None,       \* no update under way
  Lifetimes,  \* what callers pass for ex
  MaxCalls    \* bound on the number of calls

Objects == UNION {[F -> Values] : F \in SUBSET Fields}
Stored  == Objects \cup Texts \cup Scalars \cup {Null}

ASSUME ConfigAssumption ==
  /\ Writers \in [Keys -> SUBSET Callers]
  /\ Lifetimes \subseteq Int
  /\ MaxCalls \in Nat
  /\ Absent \notin Stored

ASSUME TextAssumption ==
  /\ Texts \cap Objects = {} /\ Scalars \cap Objects = {}
  /\ Texts \cap Scalars = {}
  /\ Null \notin Objects \cup Texts \cup Scalars

VARIABLES
  data,    \* what each key holds
  expiry,  \* ticks each key has to live, or Forever
  pc,      \* the command each update awaits
  job,     \* its arguments and locals
  due,     \* history: the lifetime delayUpdateData owes its key, 0 if none
  calls    \* calls made so far

redis == <<data, expiry>>
vars  == <<redis, pc, job, due, calls>>

Forever == -1

Job == [key : Keys, some : Objects, ex : Int, value : Stored \cup {None}, ttl : Int]

Init ==
  /\ data = [k \in Keys |-> Absent]
  /\ expiry = [k \in Keys |-> Forever]
  /\ pc = [c \in Callers |-> "idle"]
  /\ job = [c \in Callers |-> None]
  /\ due = [c \in Callers |-> 0]
  /\ calls = 0

-----------------------------------------------------------------------------
(* Redis: SET clears the expiry, EXPIRE with no time left deletes.          *)

Put(k, v, life) ==
  /\ data' = [data EXCEPT ![k] = v]
  /\ expiry' = [expiry EXCEPT ![k] = life]

Delete(k) == Put(k, Absent, Forever)

TtlOf(k) == IF data[k] = Absent THEN -2 ELSE expiry[k]

Expire(k, life) ==
  \/ data[k] = Absent /\ UNCHANGED redis
  \/ data[k] # Absent /\ life > 0 /\ Put(k, data[k], life)
  \/ data[k] # Absent /\ life <= 0 /\ Delete(k)

Tick ==
  /\ \E k \in Keys : expiry[k] > 0
  /\ data' = [k \in Keys |-> IF expiry[k] = 1 THEN Absent ELSE data[k]]
  /\ expiry' = [k \in Keys |-> IF expiry[k] > 1 THEN expiry[k] - 1 ELSE Forever]
  /\ due' = [c \in Callers |-> IF due[c] > 0 THEN due[c] - 1 ELSE 0]
  /\ UNCHANGED <<pc, job, calls>>

-----------------------------------------------------------------------------
(* Operations of one command.                                               *)

Called(c, k) ==
  /\ pc[c] = "idle"
  /\ c \in Writers[k]
  /\ calls < MaxCalls
  /\ calls' = calls + 1

Single(c, k) == Called(c, k) /\ UNCHANGED <<pc, job, due>>

SetValue(c, k, v) == Single(c, k) /\ Put(k, v, Forever)

(* SETEX refuses an expiry that is not positive, also the default -1.       *)
SetValueEx(c, k, v, ex) == Single(c, k) /\ ex > 0 /\ Put(k, v, ex)

(* setData throws for an object without fields.                             *)
SetData(c, k, obj, ex) ==
  /\ Single(c, k)
  /\ DOMAIN obj # {}
  /\ Put(k, obj, IF ex > 0 THEN ex ELSE Forever)

(* deleteKey swallows the error of a DEL that fails.                        *)
DeleteKey(c, k) == Single(c, k) /\ (Delete(k) \/ UNCHANGED redis)

SetExpires(c, k, ex) == Single(c, k) /\ Expire(k, ex)

-----------------------------------------------------------------------------
(* updateSomeData and delayUpdateData, one command a step.                  *)

Update(c, k, some, ex) ==
  /\ Called(c, k)
  /\ pc' = [pc EXCEPT ![c] = "get"]
  /\ job' = [job EXCEPT ![c] = [key |-> k, some |-> some, ex |-> ex, value |-> None, ttl |-> 0]]
  /\ UNCHANGED <<redis, due>>

(* The SET is the last command of updateSomeData, and of delayUpdateData    *)
(* with ex = -1.                                                            *)
UpdateSomeData(c, k, some) == Update(c, k, some, -1)

DelayUpdateData(c, k, some, ex) == ex >= -1 /\ Update(c, k, some, ex)

Step(c, command, next) ==
  /\ pc[c] = command
  /\ pc' = [pc EXCEPT ![c] = next]
  /\ UNCHANGED calls

Finish(c, command) ==
  /\ Step(c, command, "idle")
  /\ job' = [job EXCEPT ![c] = None]
  /\ due' = [due EXCEPT ![c] = 0]

(* JSON.parse and Object.assign: text that is no JSON counts as no object,  *)
(* a scalar stays what it is, because JSON.stringify drops the fields that  *)
(* Object.assign gives its wrapper.                                         *)
Assign(old, some) ==
  [f \in DOMAIN old \cup DOMAIN some |-> IF f \in DOMAIN some THEN some[f] ELSE old[f]]

SomeOnly(old, some) == some
MergeFound(old, some) == IF old \in Objects THEN Assign(old, some) ELSE old
Merge(old, some) ==
  IF old \in Scalars THEN old
  ELSE IF old \in Objects THEN Assign(old, some)
  ELSE some

(* Object.assign throws when the text was null.                             *)
ExecGetNull(c) ==
  /\ pc[c] = "get"
  /\ data[job[c].key] = Null
  /\ Finish(c, "get")
  /\ UNCHANGED redis

ExecGet(c) ==
  /\ Step(c, "get", "set")
  /\ data[job[c].key] # Null
  /\ job' = [job EXCEPT ![c].value = Merge(data[job[c].key], job[c].some)]
  /\ due' = [due EXCEPT ![c] =
               IF TtlOf(job[c].key) > 0 /\ job[c].ex >= 0
               THEN TtlOf(job[c].key) + job[c].ex ELSE 0]
  /\ UNCHANGED redis

ExecSet(c) ==
  /\ pc[c] = "set"
  /\ Put(job[c].key, job[c].value, Forever)
  /\ \/ job[c].ex = -1 /\ Finish(c, "set")
     \/ job[c].ex # -1 /\ Step(c, "set", "ttl") /\ UNCHANGED <<job, due>>

ExecTtl(c) ==
  /\ Step(c, "ttl", "expire")
  /\ job' = [job EXCEPT ![c].ttl = TtlOf(job[c].key)]
  /\ UNCHANGED <<redis, due>>

ExecExpire(c) ==
  /\ Finish(c, "expire")
  /\ Expire(job[c].key, job[c].ttl + job[c].ex)

(* The process dies and another takes its place: the update stops halfway.  *)
Crash(c) == pc[c] # "idle" /\ Finish(c, pc[c]) /\ UNCHANGED redis

Sleep ==
  /\ \A c \in Callers : pc[c] = "idle"
  /\ \A k \in Keys : expiry[k] = Forever
  /\ UNCHANGED vars

-----------------------------------------------------------------------------
OneCommand(c, k) ==
  \/ \E v \in Stored \ Objects :
       SetValue(c, k, v) \/ \E ex \in Lifetimes : SetValueEx(c, k, v, ex)
  \/ \E obj \in Objects, ex \in Lifetimes : SetData(c, k, obj, ex)
  \/ \E ex \in Lifetimes : SetExpires(c, k, ex)
  \/ DeleteKey(c, k)

ManyCommands(c, k) ==
  \E some \in Objects :
    UpdateSomeData(c, k, some) \/ \E ex \in Lifetimes : DelayUpdateData(c, k, some, ex)

Next ==
  \/ \E c \in Callers, k \in Keys : OneCommand(c, k) \/ ManyCommands(c, k)
  \/ \E c \in Callers : \/ ExecGetNull(c) \/ ExecGet(c) \/ ExecSet(c)
                        \/ ExecTtl(c) \/ ExecExpire(c) \/ Crash(c)
  \/ Tick
  \/ Sleep

Spec == Init /\ [][Next]_vars

-----------------------------------------------------------------------------
(* Properties. *)

(* Every variable has its type; what an update is about to write is a value *)
(* whatever the key held, also for a key that did not exist.                *)
TypeOK ==
  /\ data \in [Keys -> Stored \cup {Absent}]
  /\ expiry \in [Keys -> Int]
  /\ pc \in [Callers -> {"idle", "get", "set", "ttl", "expire"}]
  /\ \A c \in Callers : IF pc[c] = "idle" THEN job[c] = None ELSE job[c] \in Job
  /\ \A c \in Callers : pc[c] = "set" => job[c].value \in Stored
  /\ due \in [Callers -> Nat]
  /\ calls \in Nat

Alone(k) == \A c, d \in Writers[k] : c = d

(* While a caller is about to write, what it read is still there, unless it *)
(* has expired: part of the inductive invariant.                            *)
ReadIsCurrent ==
  \A c \in Callers :
    pc[c] # "idle" =>
      /\ c \in Writers[job[c].key]
      /\ pc[c] = "set" /\ Alone(job[c].key) /\ data[job[c].key] \in Objects =>
           job[c].value = Merge(data[job[c].key], job[c].some)

(* An update of an object that one caller uses loses no field: the fields   *)
(* it names get their new values and the others keep theirs, whatever other *)
(* callers do to other keys meanwhile.                                      *)
UpdateKeepsOthers ==
  [][\A c \in Callers :
       LET k == job[c].key IN
       /\ pc[c] = "set" /\ pc'[c] # "set" /\ data'[k] # data[k]
       /\ Alone(k) /\ data[k] \in Objects
       => /\ DOMAIN data'[k] = DOMAIN data[k] \cup DOMAIN job[c].some
          /\ \A f \in DOMAIN data'[k] :
               data'[k][f] = IF f \in DOMAIN job[c].some THEN job[c].some[f]
                             ELSE data[k][f]]_vars

(* Comment at redis.service.ts:117: delayUpdateData adds ex to the lifetime *)
(* the key had.                                                             *)
DelayExtends ==
  [][\A c \in Callers :
       pc[c] = "expire" /\ due[c] > 0 /\ redis' # redis
       => expiry'[job[c].key] = due[c]]_vars

=============================================================================
