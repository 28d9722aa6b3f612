---------------------------- MODULE ModuleOptions -----------------------------
(***************************************************************************)
(* lib/ioredis.core.module.ts with the helpers it registers: from forRoot  *)
(* or forRootAsync to an application that is up.  Nest makes each provider *)
(* when those it injects are made, several at a time, and goes on making   *)
(* others for a while after one has thrown.                                *)
(*                                                                         *)
(* Options are a function on the fields the application gives; a field     *)
(* given as undefined or null is Unset.  redisOptions, producer and        *)
(* consumer map the fields given in them to the server these name; a       *)
(* cluster is a server here.  channels is the set of names.                *)
(***************************************************************************)
CONSTANTS
  Options,      \* what applications pass as options
  Servers,      \* the servers they name
  WellFormed,   \* the channel names that match the pattern
  Imports,      \* classes that options.imports exports: "useClass", "useExisting"
  Patient,      \* the options whose client keeps a command while no server answers
  Unset         \* undefined

Single      == {"url", "path", "host"}
Configs     == UNION {[fields -> Servers] : fields \in SUBSET (Single \cup {"nodes", "port"})}
Clients     == [kind : {"single", "cluster"}, server : Servers]
OptionNames == {"type", "channels", "redisOptions", "producer", "consumer", "onClientCreated"}

ASSUME OptionsAssumption ==
  /\ \A o \in Options :
       /\ o = [f \in DOMAIN o |-> o[f]]
       /\ DOMAIN o \subseteq OptionNames
       /\ \A f \in DOMAIN o \cap {"redisOptions", "producer", "consumer"} :
            o[f] \in Configs \cup {Unset}
  /\ Unset \notin Servers \cup Configs \cup Clients \cup {"single", "cluster", "common"}
  /\ "common" \in WellFormed

Entries  == {{"useValue"}} \cup SUBSET {"useFactory", "useClass", "useExisting"}
Services == {"redis", "mq", "RedisService", "RedisMQService", "NextnoCacheService",
             "RedisProducer", "RedisConsumer"}
Providers == Services \cup {"options", "merged", "useClass"}

VARIABLES
  entry,      \* {"useValue"} is forRoot, otherwise what forRootAsync is given
  options,    \* the options, given at once or by the factory
  reachable,  \* the servers that answer
  phase,      \* "import", "inject", "init", "up" or "failed"
  provided,   \* the providers of the dynamic module
  state,      \* of each provider: "waiting", "made" or "threw"
  clients     \* the connection each provider, or the subscriber, has opened

vars == <<entry, options, reachable, phase, provided, state, clients>>
given == <<entry, options, reachable>>

Init ==
  /\ entry \in Entries
  /\ options \in Options
  /\ reachable \in SUBSET Servers
  /\ phase = "import"
  /\ provided = {}
  /\ state = [p \in Providers |-> "waiting"]
  /\ clients = [p \in Providers \cup {"subscriber"} |-> Unset]

-----------------------------------------------------------------------------
(* Options. *)

Get(o, f) == IF f \in DOMAIN o THEN o[f] ELSE Unset

ClusterByDefault == [type |-> "cluster"]
DefaultOptions == [type |-> "single"]

Merged ==
  [f \in DOMAIN options \cup DOMAIN DefaultOptions |->
     IF f \in DOMAIN options THEN options[f] ELSE DefaultOptions[f]]

TypeOf(o) == IF Get(o, "type") = Unset THEN "single" ELSE Get(o, "type")

AnyType(type) == TRUE
ValidateOptionsType(type) == type \in {Unset, "single", "cluster"}

AnyChannels(channels) == TRUE
ValidMQChannelNames(channels) == channels # {} /\ channels \subseteq WellFormed

SupportChannels ==
  IF Get(Merged, "channels") = Unset THEN {"common"} ELSE Get(Merged, "channels")

-----------------------------------------------------------------------------
(* The clients a factory may open: none when it throws. *)

Given(config) == IF config = Unset THEN {} ELSE DOMAIN config

Preferred(fields) ==
  CASE "url" \in fields -> {"url"}
    [] "url" \notin fields /\ "path" \in fields -> {"path"}
    [] OTHER -> fields \cap {"host"}

(* new Redis() without an address goes to the local host.                   *)
OpenAnyway(config) ==
  {[kind |-> "single", server |-> IF "host" \in Given(config) THEN config["host"] ELSE "local"]}
Open(config) ==
  {[kind |-> "single", server |-> config[a]] : a \in Preferred(Given(config))}
OpenCluster(config) ==
  {[kind |-> "cluster", server |-> config[a]] : a \in Given(config) \cap {"nodes"}}

Either(config, other) == IF config = Unset THEN other ELSE config

CreateSingleRedis(o) == Open(Get(o, "redisOptions"))
CreateProducerSingleRedis(o) == Open(Either(Get(o, "producer"), Get(o, "consumer")))
ConsumerOrMain(o) == Open(Either(Get(o, "consumer"), Get(o, "redisOptions")))
CreateConsumerSingleRedis(o) == Open(Either(Get(o, "consumer"), Get(o, "producer")))

CreateRedisCluster(o) == OpenCluster(Get(o, "redisOptions"))
CreateProducerRedisCluster(o) == OpenCluster(Either(Get(o, "producer"), Get(o, "consumer")))
CreateConsumerRedisCluster(o) == OpenCluster(Either(Get(o, "consumer"), Get(o, "producer")))

CreateRedisClient ==
  IF TypeOf(Merged) = "cluster" THEN CreateRedisCluster(Merged) ELSE CreateSingleRedis(Merged)

CreateRedisMQClient ==
  IF TypeOf(Merged) = "cluster" THEN CreateRedisCluster(Merged) ELSE CreateSingleRedis(Merged)

(* Producer and consumer read the options as they were given.               *)
QueueConfigured == Get(options, "producer") # Unset \/ Get(options, "consumer") # Unset

RedisProducer ==
  IF ~ QueueConfigured THEN {}
  ELSE IF TypeOf(options) = "cluster" THEN CreateProducerRedisCluster(options)
  ELSE CreateProducerSingleRedis(options)

RedisConsumer ==
  IF ~ QueueConfigured THEN {}
  ELSE IF TypeOf(options) = "cluster" THEN CreateConsumerRedisCluster(options)
  ELSE CreateConsumerSingleRedis(options)

Created(p) ==
  CASE p = "redis" -> CreateRedisClient
    [] p = "mq" -> CreateRedisMQClient
    [] p = "RedisProducer" -> RedisProducer
    [] p = "RedisConsumer" -> RedisConsumer
    [] OTHER -> {}

-----------------------------------------------------------------------------
(* The dynamic module. *)

Validated ==
  /\ ValidateOptionsType(Get(options, "type"))
  /\ Get(options, "channels") # Unset => ValidMQChannelNames(Get(options, "channels"))

ForRoot ==
  /\ phase = "import"
  /\ entry = {"useValue"}
  /\ \/ /\ Validated
        /\ phase' = "inject"
        /\ provided' = Services \cup {"options", "merged"}
     \/ /\ ~ Validated
        /\ phase' = "failed"
        /\ UNCHANGED provided
  /\ UNCHANGED <<given, state, clients>>

CreateAsyncProviders ==
  {"options", "merged"} \cup
  IF entry \cap {"useExisting", "useFactory"} # {} THEN {} ELSE {"useClass"}

ForRootAsync ==
  /\ phase = "import"
  /\ entry # {"useValue"}
  /\ \/ /\ entry # {}
        /\ phase' = "inject"
        /\ provided' = Services \cup CreateAsyncProviders
     \/ /\ entry = {}
        /\ phase' = "failed"
        /\ UNCHANGED provided
  /\ UNCHANGED <<given, state, clients>>

CreateAsyncOptionsProvider ==
  CASE "useFactory" \in entry -> {}
    [] "useFactory" \notin entry /\ "useClass" \in entry -> {"useClass"}
    [] OTHER -> entry \cap {"useExisting"}

Dependencies(p) ==
  CASE p = "options" -> CreateAsyncOptionsProvider
    [] p = "merged" -> {"options"}
    [] p \in {"redis", "mq"} -> {"merged"}
    [] p = "RedisService" -> {"redis"}
    [] p = "RedisMQService" -> {"merged", "mq"}
    [] p = "NextnoCacheService" -> {"mq"}
    [] p \in {"RedisProducer", "RedisConsumer"} -> {"options"}
    [] OTHER -> {}

-----------------------------------------------------------------------------
(* Nest makes the providers. *)

Ready(p) ==
  /\ p \in provided
  /\ state[p] = "waiting"
  /\ \A d \in Dependencies(p) \cap provided : state[d] = "made"

Connects(p) ==
  \/ p \in {"redis", "mq"}
  \/ p \in {"RedisProducer", "RedisConsumer"} /\ QueueConfigured

Throws(p) ==
  \/ ~ Dependencies(p) \subseteq provided \cup Imports
  \/ Connects(p) /\ (Created(p) = {} \/ Get(options, "onClientCreated") = "throws")
  \/ p = "RedisMQService" /\ ~ ValidMQChannelNames(SupportChannels)

Make(p) ==
  /\ Ready(p)
  /\ \/ Created(p) = {} /\ UNCHANGED clients
     \/ \E client \in Created(p) : clients' = [clients EXCEPT ![p] = client]
  /\ \/ Throws(p) /\ state' = [state EXCEPT ![p] = "threw"] /\ phase' = "failed"
     \/ ~ Throws(p) /\ state' = [state EXCEPT ![p] = "made"] /\ UNCHANGED phase
  /\ UNCHANGED <<given, provided>>

Instantiate(p) == phase = "inject" /\ Make(p)

(* Another provider has thrown; the process has not ended yet.              *)
Straggle(p) == phase = "failed" /\ Make(p)

OnModuleInit ==
  /\ phase = "inject"
  /\ \A p \in provided : state[p] = "made"
  /\ phase' = "init"
  /\ clients' = [clients EXCEPT !["subscriber"] = clients["mq"]]
  /\ UNCHANGED <<given, provided, state>>

(* The ping of the number cache, before anything else runs.                 *)
Reached == phase = "init" /\ clients["mq"].server \in reachable
Answered ==
  /\ Reached
  /\ phase' = "up"
  /\ UNCHANGED <<given, provided, state, clients>>

(* ioredis: a cluster with the default clusterRetryStrategy, and a client   *)
(* with maxRetriesPerRequest null, keep a command for as long as no server  *)
(* answers; other clients give it up after some attempts.                   *)
GivesUp == phase = "init" /\ ~ Reached /\ options \notin Patient

AskAgain == GivesUp /\ UNCHANGED vars
Unanswered ==
  /\ GivesUp
  /\ phase' = "failed"
  /\ UNCHANGED <<given, provided, state, clients>>

OnApplicationBootstrap == Answered \/ Unanswered

KeepsAsking == phase = "init" /\ ~ Reached /\ options \in Patient

Unheard == KeepsAsking /\ UNCHANGED vars

Ended == phase \in {"up", "failed"} /\ UNCHANGED vars

-----------------------------------------------------------------------------
Next ==
  \/ ForRoot \/ ForRootAsync
  \/ \E p \in Providers : Instantiate(p) \/ Straggle(p)
  \/ OnModuleInit \/ OnApplicationBootstrap
  \/ Unheard \/ Ended

Spec == Init /\ [][Next]_vars

(* Nest goes on until everything is made or something has thrown.           *)
Fairness ==
  /\ WF_vars(ForRoot \/ ForRootAsync)
  /\ WF_vars(\E p \in Providers : Instantiate(p))
  /\ WF_vars(OnModuleInit \/ OnApplicationBootstrap)

FairSpec == Spec /\ Fairness

-----------------------------------------------------------------------------
(* Properties. *)

(* Every variable has its type: whatever is missing in the options, a       *)
(* connection goes to a server that the options name.                       *)
TypeOK ==
  /\ entry \in Entries /\ options \in Options /\ reachable \subseteq Servers
  /\ phase \in {"import", "inject", "init", "up", "failed"}
  /\ provided \subseteq Providers
  /\ state \in [Providers -> {"waiting", "made", "threw"}]
  /\ clients \in [Providers \cup {"subscriber"} -> Clients \cup {Unset}]

(* The services read the type from the merged options, producer and         *)
(* consumer from the options as given: no application mixes clients of a    *)
(* cluster with clients of a single server.                                 *)
KindsAgree ==
  \A p, q \in DOMAIN clients :
    clients[p] # Unset /\ clients[q] # Unset => clients[p].kind = clients[q].kind

(* An application that is up has both ends of the queue or neither, and     *)
(* when only one side is configured the other one uses the same server.     *)
QueueEndsMeet ==
  phase = "up" =>
    /\ clients["RedisProducer"] = Unset <=> clients["RedisConsumer"] = Unset
    /\ Unset \in {Get(options, "producer"), Get(options, "consumer")}
         => clients["RedisProducer"] = clients["RedisConsumer"]

HasAddress(config) ==
  Given(config) \cap (IF TypeOf(options) = "cluster" THEN {"nodes"} ELSE Single) # {}

(* What the options must be, said without the way the code goes: forRoot    *)
(* alone insists on the type, and a class given together with an existing   *)
(* provider must come from an import.                                       *)
Acceptable ==
  /\ entry # {}
  /\ \A source \in {"useClass", "useExisting"} :
       entry = {"useExisting", source} => source \in Imports
  /\ entry = {"useValue"} => TypeOf(options) \in {"single", "cluster"}
  /\ Get(options, "channels") # Unset =>
       Get(options, "channels") # {} /\ Get(options, "channels") \subseteq WellFormed
  /\ HasAddress(Get(options, "redisOptions"))
  /\ \A side \in {"producer", "consumer"} :
       Get(options, side) # Unset => HasAddress(Get(options, side))
  /\ Get(options, "onClientCreated") # "throws"

(* An application comes up only with acceptable options, and only           *)
(* unacceptable ones or a server that does not answer keep it from coming   *)
(* up, in whatever order Nest makes the providers.                          *)
Verdict ==
  /\ phase = "up" => Acceptable /\ clients["mq"].server \in reachable
  /\ phase = "failed" =>
       \/ ~ Acceptable
       \/ clients["mq"] # Unset /\ clients["mq"].server \notin reachable

(* A type or a list of channels that forRoot refuses costs no connection.   *)
RefusedBeforeConnecting ==
  entry = {"useValue"} /\ (\E p \in DOMAIN clients : clients[p] # Unset) =>
    /\ TypeOf(options) \in {"single", "cluster"}
    /\ SupportChannels # {} /\ SupportChannels \subseteq WellFormed

(* The bootstrap ends: no provider is left waiting for one that never       *)
(* comes, and a ping that fails ends the application.  Only a ping that     *)
(* neither fails nor is answered, because the application has asked for a   *)
(* client that never gives up, leaves it waiting.                           *)
BootstrapEnds == <>(phase \in {"up", "failed"} \/ KeepsAsking)

=============================================================================
