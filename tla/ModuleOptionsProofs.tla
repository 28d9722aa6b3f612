------------------------- MODULE ModuleOptionsProofs --------------------------
(* Theorems about ModuleOptions, for every value of its constants. *)
EXTENDS ModuleOptions, TLAPS

-----------------------------------------------------------------------------
(* What the options say. *)

LEMMA GetFacts ==
  ASSUME options \in Options, NEW side \in {"redisOptions", "producer", "consumer"}
  PROVE  Get(options, side) \in Configs \cup {Unset}
  BY OptionsAssumption DEF Get

LEMMA MergedFacts ==
  /\ \A f : f # "type" => Get(Merged, f) = Get(options, f)
  /\ TypeOf(Merged) = TypeOf(options)
  <1>1. /\ DOMAIN Merged = DOMAIN options \cup {"type"}
        /\ \A f \in DOMAIN options : Merged[f] = options[f]
        /\ "type" \notin DOMAIN options => Merged["type"] = "single"
    BY DEF Merged, DefaultOptions
  <1>2. \A f : f # "type" => Get(Merged, f) = Get(options, f)
    BY <1>1 DEF Get
  <1>3. CASE "type" \in DOMAIN options
    BY <1>1, <1>3 DEF TypeOf, Get
  <1>4. CASE "type" \notin DOMAIN options
    BY <1>1, <1>4 DEF TypeOf, Get
  <1> QED
    BY <1>2, <1>3, <1>4

LEMMA OpenFacts ==
  ASSUME NEW config \in Configs \cup {Unset}
  PROVE  /\ Open(config) \subseteq [kind : {"single"}, server : Servers]
         /\ Open(config) # {} <=> Given(config) \cap Single # {}
         /\ \A c, d \in Open(config) : c = d
  <1>1. ASSUME config # Unset
        PROVE  config \in [DOMAIN config -> Servers]
    BY <1>1 DEF Configs
  <1>2. /\ Preferred(Given(config)) \subseteq Given(config)
        /\ Preferred(Given(config)) # {} <=> Given(config) \cap Single # {}
        /\ \A a, b \in Preferred(Given(config)) : a = b
    BY DEF Preferred, Single
  <1>3. \A a \in Given(config) : config[a] \in Servers
    BY <1>1 DEF Given
  <1>4. \A a \in Preferred(Given(config)) :
          [kind |-> "single", server |-> config[a]] \in [kind : {"single"}, server : Servers]
    BY <1>2, <1>3
  <1>5. Open(config) \subseteq [kind : {"single"}, server : Servers]
    BY <1>4 DEF Open
  <1>6. Open(config) # {} <=> Preferred(Given(config)) # {}
    BY DEF Open
  <1>7. \A c, d \in Open(config) : c = d
    BY <1>2 DEF Open
  <1> QED
    BY <1>2, <1>5, <1>6, <1>7

LEMMA OpenClusterFacts ==
  ASSUME NEW config \in Configs \cup {Unset}
  PROVE  /\ OpenCluster(config) \subseteq [kind : {"cluster"}, server : Servers]
         /\ OpenCluster(config) # {} <=> Given(config) \cap {"nodes"} # {}
         /\ \A c, d \in OpenCluster(config) : c = d
  <1>1. ASSUME config # Unset
        PROVE  config \in [DOMAIN config -> Servers]
    BY <1>1 DEF Configs
  <1>2. \A a \in Given(config) : config[a] \in Servers
    BY <1>1 DEF Given
  <1>3. \A a \in Given(config) \cap {"nodes"} :
          [kind |-> "cluster", server |-> config[a]] \in [kind : {"cluster"}, server : Servers]
    BY <1>2
  <1>4. OpenCluster(config) \subseteq [kind : {"cluster"}, server : Servers]
    BY <1>3 DEF OpenCluster
  <1>5. OpenCluster(config) # {} <=> Given(config) \cap {"nodes"} # {}
    BY DEF OpenCluster
  <1>6. \A c, d \in OpenCluster(config) : c = d
    BY DEF OpenCluster
  <1> QED
    BY <1>4, <1>5, <1>6

(* What a provider connects to, in one formula.                             *)
KindOf == IF TypeOf(options) = "cluster" THEN "cluster" ELSE "single"

OpenAs(config) == IF TypeOf(options) = "cluster" THEN OpenCluster(config) ELSE Open(config)

ConfigOf(p) ==
  CASE p \in {"redis", "mq"} -> Get(options, "redisOptions")
    [] p = "RedisProducer" -> Either(Get(options, "producer"), Get(options, "consumer"))
    [] p = "RedisConsumer" -> Either(Get(options, "consumer"), Get(options, "producer"))
    [] OTHER -> Unset

LEMMA OpenAsFacts ==
  ASSUME NEW config \in Configs \cup {Unset}
  PROVE  /\ OpenAs(config) \subseteq [kind : {KindOf}, server : Servers]
         /\ OpenAs(config) # {} <=> HasAddress(config)
         /\ \A c, d \in OpenAs(config) : c = d
  BY OpenFacts, OpenClusterFacts DEF OpenAs, KindOf, HasAddress

LEMMA ConfigFacts ==
  ASSUME options \in Options, NEW p
  PROVE  ConfigOf(p) \in Configs \cup {Unset}
  BY GetFacts DEF ConfigOf, Either

LEMMA CreatedFacts ==
  ASSUME options \in Options, NEW p
  PROVE  /\ Connects(p) => Created(p) = OpenAs(ConfigOf(p))
         /\ ~ Connects(p) => Created(p) = {}
         /\ Created(p) \subseteq Clients
         /\ \A c \in Created(p) : c.kind = KindOf
         /\ \A c, d \in Created(p) : c = d
  <1>1. CASE p \in {"redis", "mq"}
    <2>1. Created(p) = OpenAs(ConfigOf(p)) /\ Connects(p)
      BY <1>1, MergedFacts DEF Created, CreateRedisClient, CreateRedisMQClient, CreateSingleRedis,
         CreateRedisCluster, OpenAs, ConfigOf, Connects
    <2> QED
      BY <2>1, ConfigFacts, OpenAsFacts DEF Clients, KindOf
  <1>2. CASE p = "RedisProducer"
    <2>1. Connects(p) => Created(p) = OpenAs(ConfigOf(p))
      BY <1>2 DEF Created, RedisProducer, CreateProducerSingleRedis,
         CreateProducerRedisCluster, OpenAs, ConfigOf, Connects
    <2>2. ~ Connects(p) => Created(p) = {}
      BY <1>2 DEF Created, RedisProducer, Connects
    <2> QED
      BY <2>1, <2>2, ConfigFacts, OpenAsFacts DEF Clients, KindOf
  <1>3. CASE p = "RedisConsumer"
    <2>1. Connects(p) => Created(p) = OpenAs(ConfigOf(p))
      BY <1>3 DEF Created, RedisConsumer, CreateConsumerSingleRedis,
         CreateConsumerRedisCluster, OpenAs, ConfigOf, Connects
    <2>2. ~ Connects(p) => Created(p) = {}
      BY <1>3 DEF Created, RedisConsumer, Connects
    <2> QED
      BY <2>1, <2>2, ConfigFacts, OpenAsFacts DEF Clients, KindOf
  <1>4. CASE p \notin {"redis", "mq", "RedisProducer", "RedisConsumer"}
    BY <1>4 DEF Created, Connects
  <1> QED
    BY <1>1, <1>2, <1>3, <1>4

-----------------------------------------------------------------------------
(* When a provider throws. *)

Listed ==
  Services \cup {"options", "merged"} \cup
  IF entry = {"useValue"} \/ entry \cap {"useExisting", "useFactory"} # {}
  THEN {} ELSE {"useClass"}

Begun == provided = Listed /\ entry # {} /\ (entry = {"useValue"} => Validated)

LEMMA ListedFacts == Listed \subseteq Providers /\ Services \subseteq Listed /\ "options" \in Listed
  BY DEF Listed, Providers

Resolved(p) == Dependencies(p) \subseteq provided \cup Imports

LEMMA ResolvedFacts ==
  ASSUME entry \in Entries, Begun, NEW p
  PROVE  /\ p # "options" => Resolved(p)
         /\ Resolved("options") <=>
              \A source \in {"useClass", "useExisting"} :
                entry = {"useExisting", source} => source \in Imports
  <1> {"redis", "mq", "merged", "options"} \subseteq Listed
    BY DEF Listed, Services
  <1>1. p # "options" => Resolved(p)
    BY DEF Resolved, Dependencies, Begun
  <1> DEFINE Demand == \A source \in {"useClass", "useExisting"} :
                         entry = {"useExisting", source} => source \in Imports
  <1>2. CASE "useFactory" \in entry \/ entry = {"useValue"}
    <2>1. Dependencies("options") = {}
      BY <1>2 DEF Dependencies, CreateAsyncOptionsProvider
    <2>2. \A source \in {"useClass", "useExisting"} : entry # {"useExisting", source}
      BY <1>2
    <2> QED
      BY <1>1, <2>1, <2>2 DEF Resolved
  <1>3. CASE "useFactory" \notin entry /\ entry = {"useClass"}
    <2>1. "useClass" \in Listed
      BY <1>3 DEF Listed
    <2>2. Dependencies("options") = {"useClass"}
      BY <1>3 DEF Dependencies, CreateAsyncOptionsProvider
    <2>3. Demand
      BY <1>3
    <2> QED
      BY <1>1, <2>1, <2>2, <2>3 DEF Resolved, Begun
  <1>4. CASE "useFactory" \notin entry /\ entry = {"useClass", "useExisting"}
    <2>1. "useClass" \notin Listed
      BY <1>4 DEF Listed, Services
    <2>2. Dependencies("options") = {"useClass"}
      BY <1>4 DEF Dependencies, CreateAsyncOptionsProvider
    <2>3. Demand <=> "useClass" \in Imports
      <3>1. {"useExisting", "useClass"} = entry /\ {"useExisting", "useExisting"} # entry
        BY <1>4
      <3> QED
        BY <3>1
    <2> QED
      BY <1>1, <2>1, <2>2, <2>3 DEF Resolved, Begun
  <1>5. CASE "useFactory" \notin entry /\ entry = {"useExisting"}
    <2>1. "useExisting" \notin Listed
      BY <1>5 DEF Listed, Services
    <2>2. Dependencies("options") = {"useExisting"}
      BY <1>5 DEF Dependencies, CreateAsyncOptionsProvider
    <2>3. Demand <=> "useExisting" \in Imports
      <3>1. {"useExisting", "useClass"} # entry /\ {"useExisting", "useExisting"} = entry
        BY <1>5
      <3> QED
        BY <3>1
    <2> QED
      BY <1>1, <2>1, <2>2, <2>3 DEF Resolved, Begun
  <1>6. \/ "useFactory" \in entry \/ entry = {"useValue"} \/ entry = {"useClass"}
        \/ entry = {"useClass", "useExisting"} \/ entry = {"useExisting"}
    BY DEF Entries, Begun
  <1> QED
    BY <1>1, <1>2, <1>3, <1>4, <1>5, <1>6

(* Each side of the queue has an address when each configured one has.      *)
LEMMA AddressFacts ==
  ASSUME options \in Options
  PROVE  (\A p \in {"redis", "mq", "RedisProducer", "RedisConsumer"} :
            Connects(p) => Created(p) # {})
         <=> /\ HasAddress(Get(options, "redisOptions"))
             /\ \A side \in {"producer", "consumer"} :
                  Get(options, side) # Unset => HasAddress(Get(options, side))
  <1>1. \A p \in {"redis", "mq", "RedisProducer", "RedisConsumer"} :
          Connects(p) => (Created(p) # {} <=> HasAddress(ConfigOf(p)))
    BY CreatedFacts, ConfigFacts, OpenAsFacts
  <1>2. Connects("redis") /\ Connects("mq")
    BY DEF Connects
  <1>3. /\ ConfigOf("redis") = Get(options, "redisOptions")
        /\ ConfigOf("mq") = Get(options, "redisOptions")
        /\ ConfigOf("RedisProducer") = Either(Get(options, "producer"), Get(options, "consumer"))
        /\ ConfigOf("RedisConsumer") = Either(Get(options, "consumer"), Get(options, "producer"))
    BY DEF ConfigOf
  <1>4. /\ Connects("RedisProducer") <=> QueueConfigured
        /\ Connects("RedisConsumer") <=> QueueConfigured
    BY DEF Connects
  <1>5. (QueueConfigured => /\ HasAddress(Either(Get(options, "producer"), Get(options, "consumer")))
                            /\ HasAddress(Either(Get(options, "consumer"), Get(options, "producer"))))
        <=> \A side \in {"producer", "consumer"} :
              Get(options, side) # Unset => HasAddress(Get(options, side))
    BY DEF QueueConfigured, Either
  <1> QED
    BY <1>1, <1>2, <1>3, <1>4, <1>5

LEMMA ChannelFacts ==
  ValidMQChannelNames(SupportChannels)
    <=> (Get(options, "channels") # Unset =>
           Get(options, "channels") # {} /\ Get(options, "channels") \subseteq WellFormed)
  <1>1. SupportChannels = IF Get(options, "channels") = Unset THEN {"common"}
                          ELSE Get(options, "channels")
    BY MergedFacts DEF SupportChannels
  <1> QED
    BY <1>1, OptionsAssumption DEF ValidMQChannelNames

LEMMA TypeFacts ==
  ValidateOptionsType(Get(options, "type")) <=> TypeOf(options) \in {"single", "cluster"}
  BY OptionsAssumption DEF ValidateOptionsType, TypeOf

(* All providers can be made exactly when the options are acceptable.       *)
LEMMA ThrowsFacts ==
  ASSUME options \in Options, entry \in Entries, Begun
  PROVE  Acceptable <=> \A p \in Listed : ~ Throws(p)
  <1>1. {"options", "redis", "mq", "RedisProducer", "RedisConsumer", "RedisMQService"}
          \subseteq Listed
    BY DEF Listed, Services
  <1>2. (\A p \in Listed : Resolved(p)) <=>
          \A source \in {"useClass", "useExisting"} :
            entry = {"useExisting", source} => source \in Imports
    BY <1>1, ResolvedFacts
  <1>3. \A p : Connects(p) => p \in {"redis", "mq", "RedisProducer", "RedisConsumer"}
    BY DEF Connects
  <1>4. Connects("redis")
    BY DEF Connects
  <1>5. (\A p \in Listed : ~ Throws(p)) <=>
          /\ \A p \in Listed : Resolved(p)
          /\ \A p \in {"redis", "mq", "RedisProducer", "RedisConsumer"} :
               Connects(p) => Created(p) # {}
          /\ Get(options, "onClientCreated") # "throws"
          /\ ValidMQChannelNames(SupportChannels)
    BY <1>1, <1>3, <1>4 DEF Throws, Resolved
  <1>6. entry # {} /\ (entry = {"useValue"} => TypeOf(options) \in {"single", "cluster"})
    BY TypeFacts DEF Begun, Validated
  <1> QED
    BY <1>2, <1>5, <1>6, AddressFacts, ChannelFacts DEF Acceptable

(* forRoot refuses only what is not acceptable.                             *)
LEMMA RefusedFacts == entry = {"useValue"} /\ ~ Validated => ~ Acceptable
  BY TypeFacts DEF Validated, ValidMQChannelNames, Acceptable

-----------------------------------------------------------------------------
(* The inductive invariant. *)

(* A connection is one its provider may open.                               *)
Openings ==
  /\ \A p \in Providers :
       clients[p] # Unset => clients[p] \in Created(p) /\ state[p] # "waiting"
  /\ clients["subscriber"] # Unset =>
       clients["subscriber"] = clients["mq"] /\ state["mq"] # "waiting"

(* A provider is made, with its connection, or throws as Throws says.       *)
Outcomes ==
  \A p \in Providers :
    /\ state[p] # "waiting" => p \in provided
    /\ state[p] = "made" => ~ Throws(p) /\ (Created(p) # {} => clients[p] # Unset)
    /\ state[p] = "threw" => Throws(p)

Unreachable == clients["mq"] # Unset /\ clients["mq"].server \notin reachable

Refused == provided = {} /\ entry \in {{}, {"useValue"}} /\ (entry = {} \/ ~ Validated)

Phases ==
  /\ provided = {} \/ Begun
  /\ phase = "import" => provided = {}
  /\ phase \in {"inject", "init", "up"} => Begun /\ \A p \in Providers : state[p] # "threw"
  /\ phase \in {"init", "up"} => \A p \in provided : state[p] = "made"
  /\ phase = "up" => clients["mq"].server \in reachable
  /\ phase = "failed" => Refused \/ Unreachable \/ \E p \in Providers : state[p] = "threw"

Inv == TypeOK /\ Openings /\ Outcomes /\ Phases

LEMMA UnsetFacts == Unset \notin Clients
  BY OptionsAssumption DEF Clients

LEMMA StableFacts ==
  ASSUME UNCHANGED given
  PROVE  /\ \A p : Created(p)' = Created(p)
         /\ Listed' = Listed
         /\ Validated' = Validated
         /\ UNCHANGED provided => \A p : Throws(p)' = Throws(p)
  <1>1. entry' = entry /\ options' = options /\ reachable' = reachable
    BY DEF given
  <1>2. Merged' = Merged
    BY <1>1 DEF Merged
  <1>3. \A p : Created(p)' = Created(p)
    BY <1>1, <1>2 DEF Created, CreateRedisClient, CreateRedisMQClient, RedisProducer, RedisConsumer,
       CreateSingleRedis, CreateRedisCluster, CreateProducerSingleRedis, CreateProducerRedisCluster,
       CreateConsumerSingleRedis, CreateConsumerRedisCluster, QueueConfigured
  <1>4. Listed' = Listed
    BY <1>1 DEF Listed
  <1>5. Validated' = Validated
    BY <1>1 DEF Validated
  <1>6. SupportChannels' = SupportChannels
    BY <1>2 DEF SupportChannels
  <1>7. \A p : Connects(p)' = Connects(p)
    BY <1>1 DEF Connects, QueueConfigured
  <1>8. \A p : Dependencies(p)' = Dependencies(p)
    BY <1>1 DEF Dependencies, CreateAsyncOptionsProvider
  <1>9. UNCHANGED provided => \A p : Throws(p)' = Throws(p)
    BY <1>1, <1>3, <1>6, <1>7, <1>8 DEF Throws
  <1> QED
    BY <1>3, <1>4, <1>5, <1>9

LEMMA InitHolds == Init => Inv
  <1> SUFFICES ASSUME Init PROVE Inv
    OBVIOUS
  <1>1. /\ \A p \in Providers : state[p] = "waiting"
        /\ \A p \in Providers \cup {"subscriber"} : clients[p] = Unset
    BY DEF Init
  <1>2. TypeOK
    BY DEF Init, TypeOK
  <1>3. Openings
    BY <1>1 DEF Openings
  <1>4. Outcomes
    BY <1>1 DEF Outcomes
  <1>5. Phases
    BY DEF Init, Phases
  <1> QED
    BY <1>2, <1>3, <1>4, <1>5 DEF Inv

LEMMA ImportHolds == Inv /\ (ForRoot \/ ForRootAsync) => Inv'
  <1> SUFFICES ASSUME Inv, ForRoot \/ ForRootAsync PROVE Inv'
    OBVIOUS
  <1> USE DEF Inv
  <1>1. UNCHANGED <<given, state, clients>> /\ phase = "import" /\ provided = {}
    BY DEF ForRoot, ForRootAsync, Phases
  <1>2. \A p \in Providers : state[p] = "waiting" /\ clients[p] = Unset
    <2> SUFFICES ASSUME NEW p \in Providers PROVE state[p] = "waiting" /\ clients[p] = Unset
      OBVIOUS
    <2>1. state[p] = "waiting"
      BY <1>1 DEF Outcomes, TypeOK
    <2> QED
      BY <2>1 DEF Openings
  <1>3. \/ /\ phase' = "inject" /\ provided' = Listed
           /\ entry # {} /\ (entry = {"useValue"} => Validated)
        \/ phase' = "failed" /\ provided' = {} /\ Refused
    <2>1. CASE ForRoot
      BY <1>1, <2>1 DEF ForRoot, Listed, Refused
    <2>2. CASE ForRootAsync
      <3>1. CASE entry # {}
        <4>1. Services \cup CreateAsyncProviders = Listed
          BY <2>2 DEF ForRootAsync, CreateAsyncProviders, Listed
        <4> QED
          BY <2>2, <3>1, <4>1 DEF ForRootAsync
      <3>2. CASE entry = {}
        BY <1>1, <2>2, <3>2 DEF ForRootAsync, Refused
      <3> QED
        BY <3>1, <3>2
    <2> QED
      BY <2>1, <2>2
  <1>4. Listed' = Listed /\ Validated' = Validated
    BY <1>1, StableFacts
  <1>5. TypeOK'
    <2>1. provided' \subseteq Providers
      BY <1>3, ListedFacts
    <2> QED
      BY <1>1, <1>3, <2>1 DEF TypeOK, given
  <1>6. Openings'
    BY <1>1, <1>2 DEF Openings
  <1>7. Outcomes'
    BY <1>1, <1>2 DEF Outcomes
  <1>8. Phases'
    BY <1>1, <1>2, <1>3, <1>4 DEF Phases, Begun, Refused, given
  <1> QED
    BY <1>5, <1>6, <1>7, <1>8

LEMMA MakeHolds ==
  ASSUME Inv, NEW p \in Providers, Instantiate(p) \/ Straggle(p)
  PROVE  Inv'
  <1> USE DEF Inv
  <1>1. /\ Make(p) /\ Ready(p) /\ phase \in {"inject", "failed"}
        /\ p \in provided /\ state[p] = "waiting" /\ clients[p] = Unset
    BY DEF Instantiate, Straggle, Make, Ready, Openings
  <1>2. UNCHANGED <<given, provided>> /\ entry' = entry /\ options' = options
          /\ reachable' = reachable
    BY <1>1 DEF Make, given
  <1>3. /\ \A q : Created(q)' = Created(q) /\ Throws(q)' = Throws(q)
        /\ Listed' = Listed /\ Validated' = Validated
    BY <1>2, StableFacts
  <1>4. PICK outcome \in {"made", "threw"} :
          /\ state' = [state EXCEPT ![p] = outcome]
          /\ outcome = "threw" => Throws(p) /\ phase' = "failed"
          /\ outcome = "made" => ~ Throws(p) /\ phase' = phase
    BY <1>1 DEF Make
  <1>5. PICK client \in Created(p) \cup {Unset} :
          /\ clients' = [clients EXCEPT ![p] = client]
          /\ Created(p) # {} => client # Unset
    <2>1. CASE Created(p) = {} /\ UNCHANGED clients
      <3>1. clients' = [clients EXCEPT ![p] = Unset]
        BY <1>1, <2>1 DEF TypeOK
      <3> QED
        BY <2>1, <3>1
    <2>2. CASE \E c \in Created(p) : clients' = [clients EXCEPT ![p] = c]
      <3>1. PICK c \in Created(p) : clients' = [clients EXCEPT ![p] = c]
        BY <2>2
      <3>2. c # Unset
        BY CreatedFacts, UnsetFacts DEF TypeOK
      <3> QED
        BY <3>1, <3>2
    <2> QED
      BY <1>1, <2>1, <2>2 DEF Make
  <1>6. /\ state'[p] = outcome /\ clients'[p] = client
        /\ \A q \in Providers : q # p => state'[q] = state[q]
        /\ \A q \in Providers \cup {"subscriber"} : q # p => clients'[q] = clients[q]
    BY <1>4, <1>5 DEF TypeOK
  <1>7. phase \in {"init", "up"} => FALSE
    BY <1>1
  <1>8. TypeOK'
    <2>1. client \in Clients \cup {Unset}
      BY CreatedFacts DEF TypeOK
    <2>2. state' \in [Providers -> {"waiting", "made", "threw"}]
      BY <1>4 DEF TypeOK
    <2>3. clients' \in [Providers \cup {"subscriber"} -> Clients \cup {Unset}]
      BY <1>5, <2>1 DEF TypeOK
    <2> QED
      BY <1>1, <1>2, <1>4, <2>2, <2>3 DEF TypeOK
  <1>9. Openings'
    <2>1. p # "subscriber" /\ "mq" \in Providers
      BY DEF Providers, Services
    <2>2. clients'["subscriber"] # Unset =>
            clients'["subscriber"] = clients'["mq"] /\ state'["mq"] # "waiting"
      BY <1>1, <1>6, <2>1 DEF Openings
    <2>3. \A q \in Providers :
            clients'[q] # Unset => clients'[q] \in Created(q) /\ state'[q] # "waiting"
      BY <1>5, <1>6 DEF Openings
    <2> QED
      BY <1>3, <1>6, <2>1, <2>2, <2>3 DEF Openings
  <1>10. Outcomes'
    BY <1>1, <1>2, <1>3, <1>4, <1>5, <1>6 DEF Outcomes
  <1>11. Phases'
    <2>1. provided # {} /\ Begun /\ Begun'
      BY <1>1, <1>2, <1>3 DEF Phases, Begun
    <2>2. CASE outcome = "threw"
      BY <1>2, <1>4, <1>6, <2>1, <2>2 DEF Phases
    <2>3. CASE outcome = "made" /\ phase = "inject"
      BY <1>2, <1>4, <1>6, <2>1, <2>3 DEF Phases
    <2>4. CASE outcome = "made" /\ phase = "failed"
      <3>1. Unreachable \/ \E q \in Providers : state[q] = "threw"
        BY <2>1, <2>4 DEF Phases, Refused
      <3>2. Unreachable => Unreachable'
        BY <1>1, <1>2, <1>6 DEF Unreachable, Providers, Services
      <3>3. (\E q \in Providers : state[q] = "threw") => \E q \in Providers : state'[q] = "threw"
        BY <1>1, <1>6
      <3> QED
        BY <1>2, <1>4, <2>1, <2>4, <3>1, <3>2, <3>3 DEF Phases
    <2> QED
      BY <1>1, <2>2, <2>3, <2>4
  <1> QED
    BY <1>8, <1>9, <1>10, <1>11

LEMMA OnModuleInitHolds == Inv /\ OnModuleInit => Inv'
  <1> SUFFICES ASSUME Inv, OnModuleInit PROVE Inv'
    OBVIOUS
  <1> USE DEF Inv
  <1>1. /\ phase = "inject" /\ phase' = "init"
        /\ UNCHANGED <<given, provided, state>> /\ entry' = entry /\ options' = options
        /\ reachable' = reachable
        /\ \A p \in provided : state[p] = "made"
        /\ clients' = [clients EXCEPT !["subscriber"] = clients["mq"]]
    BY DEF OnModuleInit, given
  <1>2. /\ \A q : Created(q)' = Created(q) /\ Throws(q)' = Throws(q)
        /\ Listed' = Listed /\ Validated' = Validated
    BY <1>1, StableFacts
  <1>3. "mq" \in Providers /\ "mq" \in Listed /\ "subscriber" \notin Providers
    BY DEF Providers, Services, Listed
  <1>4. /\ \A p \in Providers : clients'[p] = clients[p]
        /\ clients'["subscriber"] = clients["mq"]
    BY <1>1, <1>3 DEF TypeOK
  <1>5. Begun /\ Begun'
    BY <1>1, <1>2 DEF Phases, Begun
  <1>6. TypeOK'
    BY <1>1, <1>3 DEF TypeOK
  <1>7. Openings'
    BY <1>1, <1>2, <1>3, <1>4, <1>5 DEF Openings, Begun
  <1>8. Outcomes'
    BY <1>1, <1>2, <1>4 DEF Outcomes
  <1>9. Phases'
    BY <1>1, <1>5 DEF Phases
  <1> QED
    BY <1>6, <1>7, <1>8, <1>9

LEMMA BootstrapHolds == Inv /\ OnApplicationBootstrap => Inv'
  <1> SUFFICES ASSUME Inv, OnApplicationBootstrap PROVE Inv'
    OBVIOUS
  <1> USE DEF Inv
  <1>1. /\ phase = "init" /\ UNCHANGED <<given, provided, state, clients>>
        /\ entry' = entry /\ options' = options /\ reachable' = reachable
        /\ \/ phase' = "up" /\ clients["mq"].server \in reachable
           \/ phase' = "failed" /\ clients["mq"].server \notin reachable
    BY DEF OnApplicationBootstrap, Answered, Unanswered, GivesUp, Reached, given
  <1>2. /\ \A q : Created(q)' = Created(q) /\ Throws(q)' = Throws(q)
        /\ Listed' = Listed /\ Validated' = Validated
    BY <1>1, StableFacts
  <1>3. Begun /\ Begun'
    BY <1>1, <1>2 DEF Phases, Begun
  <1>4. clients["mq"] # Unset
    <2>1. "mq" \in Providers /\ "mq" \in provided
      BY <1>3 DEF Providers, Services, Listed, Begun
    <2>2. state["mq"] = "made"
      BY <1>1, <2>1 DEF Phases
    <2>3. ~ Throws("mq") /\ (Created("mq") # {} => clients["mq"] # Unset)
      BY <2>1, <2>2 DEF Outcomes
    <2> QED
      BY <2>3 DEF Throws, Connects
  <1>5. TypeOK'
    BY <1>1 DEF TypeOK
  <1>6. Openings'
    BY <1>1, <1>2 DEF Openings
  <1>7. Outcomes'
    BY <1>1, <1>2 DEF Outcomes
  <1>8. Phases'
    BY <1>1, <1>3, <1>4 DEF Phases, Unreachable
  <1> QED
    BY <1>5, <1>6, <1>7, <1>8

LEMMA StutterHolds == Inv /\ UNCHANGED vars => Inv'
  <1> SUFFICES ASSUME Inv, UNCHANGED vars PROVE Inv'
    OBVIOUS
  <1>1. /\ UNCHANGED <<given, entry, options, reachable>>
        /\ UNCHANGED <<phase, provided, state, clients>>
    BY DEF vars, given
  <1>2. /\ \A q : Created(q)' = Created(q) /\ Throws(q)' = Throws(q)
        /\ Listed' = Listed /\ Validated' = Validated
    BY <1>1, StableFacts
  <1>3. TypeOK'
    BY <1>1 DEF Inv, TypeOK
  <1>4. Openings' /\ Outcomes'
    BY <1>1, <1>2 DEF Inv, Openings, Outcomes
  <1>5. Phases'
    BY <1>1, <1>2 DEF Inv, Phases, Begun, Refused, Unreachable
  <1> QED
    BY <1>3, <1>4, <1>5 DEF Inv

LEMMA NextHolds == Inv /\ [Next]_vars => Inv'
  <1> SUFFICES ASSUME Inv, [Next]_vars PROVE Inv'
    OBVIOUS
  <1>1. CASE ForRoot \/ ForRootAsync
    BY <1>1, ImportHolds
  <1>2. ASSUME NEW p \in Providers, Instantiate(p) \/ Straggle(p) PROVE Inv'
    BY <1>2, MakeHolds
  <1>3. CASE OnModuleInit
    BY <1>3, OnModuleInitHolds
  <1>4. CASE OnApplicationBootstrap
    BY <1>4, BootstrapHolds
  <1>5. CASE Unheard \/ Ended \/ UNCHANGED vars
    BY <1>5, StutterHolds DEF Unheard, Ended
  <1> QED
    BY <1>1, <1>2, <1>3, <1>4, <1>5 DEF Next

LEMMA Invariance == Spec => []Inv
  BY InitHolds, NextHolds, PTL DEF Spec

-----------------------------------------------------------------------------
(* What the invariant says of an application. *)

(* Every variable keeps its type: each client the factories of the module   *)
(* open goes to a server that the options name.                             *)
THEOREM TypeCorrect == Spec => []TypeOK
  BY Invariance, PTL DEF Inv

LEMMA KindFacts == Inv => KindsAgree
  <1> SUFFICES ASSUME Inv PROVE KindsAgree
    OBVIOUS
  <1>1. \A p \in Providers : clients[p] # Unset => clients[p].kind = KindOf
    BY CreatedFacts DEF Inv, Openings, TypeOK
  <1>2. clients["subscriber"] # Unset => clients["subscriber"].kind = KindOf
    BY <1>1 DEF Inv, Openings, Providers, Services
  <1>3. DOMAIN clients = Providers \cup {"subscriber"}
    BY DEF Inv, TypeOK
  <1> QED
    BY <1>1, <1>2, <1>3 DEF KindsAgree

(* The merged and the given options never make clients of two kinds.        *)
THEOREM KindsAgreeHolds == Spec => []KindsAgree
  BY Invariance, KindFacts, PTL

LEMMA UpFacts ==
  ASSUME Inv, phase \in {"init", "up"}, NEW p \in Services
  PROVE  ~ Throws(p) /\ (Created(p) # {} => clients[p] # Unset)
  <1>1. p \in Providers /\ p \in provided
    BY DEF Inv, Phases, Begun, Listed, Providers
  <1>2. state[p] = "made"
    BY <1>1 DEF Inv, Phases
  <1> QED
    BY <1>1, <1>2 DEF Inv, Outcomes

LEMMA EndsFacts == Inv => QueueEndsMeet
  <1> SUFFICES ASSUME Inv, phase = "up"
               PROVE  /\ clients["RedisProducer"] = Unset <=> clients["RedisConsumer"] = Unset
                      /\ Unset \in {Get(options, "producer"), Get(options, "consumer")}
                           => clients["RedisProducer"] = clients["RedisConsumer"]
    BY DEF QueueEndsMeet
  <1> DEFINE Ends == {"RedisProducer", "RedisConsumer"}
  <1>1. Ends \subseteq Services /\ Ends \subseteq Providers
    BY DEF Services, Providers
  <1>2. \A p \in Ends : clients[p] # Unset <=> QueueConfigured
    <2> SUFFICES ASSUME NEW p \in Ends PROVE clients[p] # Unset <=> QueueConfigured
      OBVIOUS
    <2>1. Connects(p) <=> QueueConfigured
      BY DEF Connects
    <2>2. Created(p) # {} <=> QueueConfigured
      BY <1>1, <2>1, UpFacts, CreatedFacts DEF Throws, Inv, TypeOK
    <2> QED
      BY <1>1, <2>2, UpFacts DEF Inv, Openings
  <1>3. ASSUME Unset \in {Get(options, "producer"), Get(options, "consumer")}, QueueConfigured
        PROVE  clients["RedisProducer"] = clients["RedisConsumer"]
    <2>1. ConfigOf("RedisProducer") = ConfigOf("RedisConsumer")
      BY <1>3 DEF ConfigOf, Either
    <2>2. Connects("RedisProducer") /\ Connects("RedisConsumer")
      BY <1>3 DEF Connects
    <2>3. Created("RedisProducer") = Created("RedisConsumer")
      BY <2>1, <2>2, CreatedFacts DEF Inv, TypeOK
    <2>4. \A p \in Ends : clients[p] \in Created(p)
      BY <1>1, <1>2, <1>3 DEF Inv, Openings
    <2> QED
      BY <2>3, <2>4, CreatedFacts DEF Inv, TypeOK
  <1> QED
    BY <1>2, <1>3

(* Either option alone is enough for the queue, and gives both ends the     *)
(* same server.                                                             *)
THEOREM QueueEndsMeetHolds == Spec => []QueueEndsMeet
  BY Invariance, EndsFacts, PTL

LEMMA VerdictFacts == Inv => Verdict
  <1> SUFFICES ASSUME Inv PROVE Verdict
    OBVIOUS
  <1>1. options \in Options /\ entry \in Entries
    BY DEF Inv, TypeOK
  <1>2. Begun => (Acceptable <=> \A p \in Listed : ~ Throws(p))
    BY <1>1, ThrowsFacts
  <1>3. ASSUME phase = "up" PROVE Acceptable /\ clients["mq"].server \in reachable
    <2>1. Begun /\ clients["mq"].server \in reachable
      BY <1>3 DEF Inv, Phases
    <2>2. \A p \in Listed : state[p] = "made"
      BY <1>3, <2>1 DEF Inv, Phases, Begun
    <2>3. \A p \in Listed : ~ Throws(p)
      BY <2>2, ListedFacts DEF Inv, Outcomes
    <2> QED
      BY <1>2, <2>1, <2>3
  <1>4. ASSUME Refused PROVE ~ Acceptable
    <2>1. CASE entry = {}
      BY <2>1 DEF Acceptable
    <2>2. CASE entry = {"useValue"} /\ ~ Validated
      BY <2>2, RefusedFacts
    <2> QED
      BY <1>4, <2>1, <2>2 DEF Refused
  <1>5. ASSUME NEW p \in Providers, state[p] = "threw" PROVE ~ Acceptable
    <2>1. p \in provided /\ Throws(p)
      BY <1>5 DEF Inv, Outcomes
    <2>2. Begun /\ p \in Listed
      BY <2>1 DEF Inv, Phases, Begun
    <2> QED
      BY <1>2, <2>1, <2>2
  <1>6. phase = "failed" => ~ Acceptable \/ Unreachable
    BY <1>4, <1>5 DEF Inv, Phases
  <1> QED
    BY <1>3, <1>6 DEF Verdict, Unreachable

(* Whatever the order in which Nest makes the providers, the application    *)
(* comes up only when its options are acceptable and its server answers,    *)
(* and fails only when one of these does not hold.                          *)
THEOREM VerdictHolds == Spec => []Verdict
  BY Invariance, VerdictFacts, PTL

LEMMA RefusalFacts == Inv => RefusedBeforeConnecting
  <1> SUFFICES ASSUME Inv, entry = {"useValue"}, NEW p \in DOMAIN clients, clients[p] # Unset
               PROVE  /\ TypeOf(options) \in {"single", "cluster"}
                      /\ SupportChannels # {} /\ SupportChannels \subseteq WellFormed
    BY DEF RefusedBeforeConnecting
  <1>1. PICK q \in Providers : state[q] # "waiting"
    <2>1. p \in Providers \cup {"subscriber"} /\ "mq" \in Providers
      BY DEF Inv, TypeOK, Providers, Services
    <2> QED
      BY <2>1 DEF Inv, Openings
  <1>2. Validated
    BY <1>1 DEF Inv, Outcomes, Phases, Begun
  <1>3. ValidMQChannelNames(SupportChannels)
    BY <1>2, ChannelFacts DEF Validated, ValidMQChannelNames
  <1> QED
    BY <1>2, <1>3, TypeFacts DEF Validated, ValidMQChannelNames

(* forRoot validates before the first factory runs.                         *)
THEOREM RefusedBeforeConnectingHolds == Spec => []RefusedBeforeConnecting
  BY Invariance, RefusalFacts, PTL

=============================================================================
