# Verification of @tsailab/ioredis-mq

TLA+ modules for the library under `lib/`, TLC configurations that check them on small instances, and theorems that TLAPS proves for every instance.

## Inventory

A NestJS module on top of ioredis. All state that outlives a call is in Redis or in the objects below.

| Part | Source | State | Operations |
|---|---|---|---|
| MQ service | `lib/services/redis.mq.service.ts` | `channelMap` (handlers per channel), options, a subscriber connection and a command connection; in Redis one lock key per message and the key `1` | `onModuleInit`, `publishMessage`, `registHandler`, `removeHandlers`, `handleMessage` |
| Number cache | `lib/services/nextno.service.ts` | `isRedisReady`; in Redis a list of numbers and a hash per business type | `getNextno`, `precheck`, `increaseUnos`, `setHash`, `getHash` |
| Cache service | `lib/services/redis.service.ts` | keys with values and expiry | get, set, delete, expire, `delayUpdateData`, `updateSomeData` |
| Log queue | `redis.producer.ts`, `redis.consumer.ts`, `cache.data.serialize.ts` | a Redis list, one connection each | push, blocking pop, `llen`, `lrange`, `trim` |
| Bootstrap | `ioredis.core.module.ts`, `helper/*`, `options.validator.ts` | options as given and merged, the client each factory opens, the providers Nest has made | `forRoot`, `forRootAsync`, the factories, `onModuleInit`, `onApplicationBootstrap` |

The parts meet in the clients: the MQ service and the number cache use the MQ client, the cache service the default client, producer and consumer each make their own. Bootstrap hands the merged options to the MQ service, the raw ones to producer and consumer.

What is hard:

* MQ service: every instance receives every message and races for its lock; handlers await; the lock expires by time and is deleted without naming its owner; processes die, connections break and ioredis sends commands again; handler lists change while they are walked. Correct means: one activation at a time runs handlers of a message, a message is skipped only because somebody else took it, all handlers of a list are called, locks end, no message that was taken up is forgotten.
* Number cache: check-then-act over several commands, a refill that can be interrupted. Correct means: one caller gets consecutive numbers, none is skipped, refills stay bounded.
* Cache service: read-modify-write, expiry lost by a SET. Correct means: no update lost, expiry extended as documented.
* Log queue: blocking pops share a connection, popped elements are lost by a crash, key prefixes. Correct means: what is pushed is popped once, and in order when it is popped on the other side.
* Bootstrap: two entry points with different validation, some factories that read the merged options and some the given ones, fallback of one configuration to the other, providers made in any order. Correct means: an application comes up only when its options are acceptable and its server answers, and fails only otherwise, both ends of the queue use one server, no kinds of client are mixed, and what is refused by `forRoot` costs no connection.

`PROJECT.json` lists each hazard at its line, with the properties that watch it.

## Plan

1. **RedisMQService** with its abstract specification **MessageLock**: done; proved are type correctness, mutual exclusion, that the service implements `MessageLock`, and every other property of its runs that is not liveness.
2. **NextnoCache**, callers stepping through `precheck` and `increaseUnos` command by command: done, all its properties proved.
3. **RedisCache**, objects as functions on fields, expiry in ticks: done, all its properties proved.
4. **LogQueue** with its abstract specification **DeliveryQueue**, producers and consumers on their connections: done; proved are all its invariants and that it implements `DeliveryQueue`.
5. **ModuleOptions**, from the options to an application that is up: done, all its safety properties proved.

What is left to TLC alone is liveness, and the four runs that find a violation.

## RedisMQService

One `Instance` is one service object in one process. The variables are `handlers` (the `channelMap`), `stage`/`index` (the program counter and loop index of each activation of `handleMessage`), `cmds` (the commands sent and not yet answered, in the order sent), `inbox` (the set of messages on their way to the subscriber), and Redis itself: `log` (PUBLISH commands in execution order), `holder` and `ttl` per lock key, `probe` (the key `1`). `holder` records whose SET created a key; the code stores the constant `locked`, so nothing in the actions reads it beyond "exists". `invoked` is history.

The MQ client may be a Cluster (`core.provider.helper.ts:82`). `Node` says which node stores a lock key: commands for one node are executed and answered in the order they were sent (`Before`), those for different nodes in any order, and a reconnect concerns one node. A constant `Node` is a single server. Since messages published through several nodes reach a subscriber in any order, `inbox` has none. The code promises no order between the messages of a channel, and no property states one.

| Action | Code |
|---|---|
| `Subscribe` | `onModuleInit` does not await `subscribeToChannel`: takes effect at any later time |
| `RegistHandler`, `RemoveHandler`, `RemoveAllHandlers` | the synchronous list operations; calls that throw or find nothing to do change nothing and are no steps |
| `PublishMessage`, `PublishAgain` | PUBLISH of a fresh id; the same text again |
| `Ignore`, `Receive` | `handleMessage` up to its first await |
| `LockGranted`, `LockDenied` | the continuation after `acquireLock`; `RunFrom` is the loop of `processByRegistered` until its next await, or the `finally` |
| `HandlerSettles`, `LockReleased` | the continuations after a handler and after DEL |
| `ExecSet`, `ExecDel`, `Tick` | Redis |
| `Crash`, `Reconnect`, `LoseSubscription` | faults, allowed per instance by `MayCrash`, `MayDrop`, `FlakySub` |

A restarted process is a new instance (`mqid` is made in the constructor), so it is one of `Instances` that subscribes late. Time passes in ticks; `MaxBusy` is the longest time an activation holds its lock. `MaxBusy < Ttl` is the assumption that handlers are prompt, `MaxBusy >= Ttl` removes it. A command in flight when a process dies is lost; if Redis would still have run it, the behaviour in which it ran just before the death is in the model too. Message payloads, logging and the text of keys are left out.

### Runs

| Run | Instance | Shows |
|---|---|---|
| `mq_mutex` | 3 instances, a message delivered twice, one instance has no handlers and may die, `Ttl` 2, `MaxBusy` 1 | `MutualExclusion`, `ReleaseIsOwn`, `SkipIsCovered`, `NoLeakedLock`, and that the lock implements `MessageLock` |
| `mq_fanout` | 1 instance, 2 channels whose locks lie on two nodes, lists at their limit, handlers registered at any time and removed from lists that no activation is walking, reconnects at any time | `TypeOK`, `Fanout` |
| `mq_live` | a micro producer without handlers, a consumer that may die or lose its subscription, a publisher that is no instance | `HandledUnlessOwnerDies`, `LockEventuallyFree`, the inductive invariant `LockInv` |

Three instances are the holder, a competitor and one that arrives late; the one that may die is an owner that never runs handlers, and a consumer that dies while it runs them is in `mq_live`; two deliveries are what it takes for one message to come twice to the same instance or for two messages to overlap. `Ttl` 2 separates "still held", "about to expire" and "expired". `MaxPublishes` is the only bound on the length of behaviours. The two instances that never fail are interchangeable in `mq_mutex` (`SYMMETRY Peers`); runs with liveness use no symmetry. Deadlock is checked in every run: `Sleep` stutters only when nothing is in flight.

Runs that find a violation of what the repository says (details in `PROJECT.json`, findings):

| Run | Statement | Counterexample |
|---|---|---|
| `mq_only_one` | README.md:20, only one instance processes a message | an instance that receives it after the DEL locks and handles it again |
| `mq_removal` | comment at redis.mq.service.ts:223 | removing a handler during the loop skips the next one |
| `mq_no_handler` | comment at redis.mq.service.ts:110, messages are only locked by the registered handler | an instance without handlers acquires the lock, the one with the handler skips the message |

`HandledUnlessOwnerDies` is what remains of the promise of exactly one handling: a message an instance asks the lock for is handled unless that instance or the owner of the lock dies, or the owner has no handlers and is not the micro sender (`Dropped`). The micro check is what keeps a producer out of `Dropped` for its own messages; for the messages of others, `mq_no_handler` shows, nothing does.

### Fairness

`FairSpec` gives weak fairness to each step of an event loop, to Redis and to time, and to the settling of handlers: an event loop runs what is ready, Redis answers, handler promises are assumed to settle. Publishing, registration and faults have none.

### Proofs

`RedisMQServiceProofs` proves `Spec => []TypeOK` with every fault allowed. `TypeOK` is not inductive alone: indexing `log` by a delivery needs `Known`, that inboxes, commands and stages mention only deliveries that were made.

`RedisMQServiceProofs` also proves `MutualExclusion` and `ReleaseIsOwn` for all constants with `MayDrop = {}` and `MaxBusy < Ttl`; neither can be dropped. A DEL that ioredis sends again names no owner and deletes the lock of another instance; a handler that outlives the ttl runs beside the next owner, because nothing renews the lock. TLC finds both with `mq_mutex` and `MayDrop = {p1}` or `MaxBusy = 2`. The inductive invariant `LockInv` adds: what waits in an inbox is what no activation has begun with (`ArriveOnce`), an activation has one command in flight, the one it awaits, on whatever node (`AwaitOne`), a lock exists exactly while it has time to live (`LockLives`), and from its SET to its DEL an activation owns the lock of its message, with at least `Ttl - MaxBusy` ticks left (`SectionHolds`). Two activations of one message would both own one key, and a DEL in flight is inside the section.

`RedisMQOwnerProofs` proves `NoLeakedLock` and `SkipIsCovered` for all constants with `MayDrop = {}`, and that the service implements `MessageLock` with `MaxBusy < Ttl` besides. Here handlers may outlive the ttl: the first two are not about time. The strengthening `OwnerInv` says that the owner of a lock was granted it and works on the message of that lock (`Owners`), and that an activation whose SET was denied, also while the answer is under way, leaves the message to another one that was granted it (`Denials`). A resent command breaks both: a SET that is sent twice finds the key it created itself and is denied, so its activation gives up, nobody deletes the lock and nobody handles the message. Each step of the service is then a step of `MessageLock` or a stutter, since granting, releasing, expiry and death change the owner of one key only.

`RedisMQOwnerProofs` also proves `Fanout`. It is proved for the constants of `QuietRemoval`: handlers may be registered at any time, and removed from a list that no activation is walking. `LoopInv` says that the loop has called exactly the handlers up to its index (`Loops`) and none before it started (`Fresh`).

Only liveness (`HandledUnlessOwnerDies`, `LockEventuallyFree`) is left to TLC.

## NextnoCache

One business type; keys of different types do not interact. A `Caller` is a flow of calls in one process: `pc` is the Redis command it awaits, `wants` says whether the refill under way belongs to a `getNextno`, `start` and `len` are the locals of `increaseUnos`. `nos` and `hash` are the Redis keys; `served` is the history of LPOP answers.

| Action | Code |
|---|---|
| `Bootstrap` | `onApplicationBootstrap` after PONG; a process whose ping fails does not start |
| `GetNextno`, `Precheck`, `IncreaseUnos`, `SetHash` | the calls up to their first await; rejected calls before bootstrap change nothing |
| `ExecPrecheck` | `llen` and the test against 20 |
| `ExecLlen`, `ExecRpop`, `ExecHexists`, `ExecHget`, `ExecRpush` | one command of `increaseUnos` and the code up to its next await |
| `ExecLpop` | LPOP and `Number(v)`: null becomes 0 |
| `Crash`, `Resend` | the process dies and is replaced; ioredis sends an executed command again |

`LowMark`, `AutoExtends` and `Batch` are 20, 50 and 1000 in the code. `Batches` are the sizes an application passes to `increaseUnos`; 0 is left out (Redis refuses an RPUSH of nothing). `MaxCalls`, `MaxCrashes` and `MaxResends` bound the runs.

| Run | Instance | Shows |
|---|---|---|
| `nextno_serial` | 1 caller, 5 calls, marks 3 and 3, batch 3, 1 crash, 1 resend, `setHash` of 0 and 2 at any time | `Consecutive`, the inductive invariant `SerialInv` |
| `nextno_shared` | 2 callers, 4 calls, marks 1 and 1, batches 1 and 2, 1 crash, 1 resend | `TypeOK`, `NothingSkipped`, `ListBounded` |

`Consecutive` and `NothingSkipped` say what holds until a fault that breaks them: a resent LPOP skips a number, a resent RPUSH repeats a batch, a crash of one of two callers loses the number it popped. The small marks make a refill due after every number or two, so 4 calls refill several times and two callers meet within a refill. Numbers may come twice when callers refill together: the code takes no lock, and nothing in the repository promises otherwise, so uniqueness is stated for one caller only.

`NextnoProofs` proves `TypeOK` for all constants, and `Consecutive` for one caller, `MaxCrashes + 2 <= LowMark`, `LowMark <= Batch` and `LowMark <= AutoExtends + 1` (`OneCaller`). A crash between RPOP and RPUSH takes the last number out of the list, and the list is all that tells the next refill where to go on. So the invariant says that the list follows on from what was served (`Series`), that once a number was served the list has at least `LowMark - 1` elements less one per crash (`Reserve`), and where a caller is (`Course`): the hash is consulted only while nothing was served, and LPOP is sent only for a list above the mark. The theorem shows that with the marks of the code 18 such crashes are harmless.

For any number of callers the module proves `NothingSkipped` and `ListBounded`. Both need to know how much a refill is about to push (`Sized`). The numbers handed out, those in the list and those a refill has in hand form a set without gaps (`Gapless`): a refill starts at a number of that set or at 0, and what it takes off the list stays in its hand until it pushes. For the length, the invariant counts the refills that have passed the test (`Refilling`) and keeps room for one batch and the popped number of each (`Room`); a resent RPUSH adds the room of one more. `ListBounded` assumes that callers are finitely many and one batch is the largest.

## RedisCache

A `Caller` is a flow of calls in one process, `Writers` says who uses which key. `data` and `expiry` are Redis; `pc` and `job` are the command an update awaits and its locals. An object is a function on a set of `Fields`; of other texts only what `JSON.parse` and `Object.assign` make of them is kept: text that is no JSON counts as an empty object, `null` makes `Object.assign` throw, a scalar stays what it was. `due` is history: the lifetime `delayUpdateData` owes its key.

| Action | Code |
|---|---|
| `SetValue`, `SetValueEx`, `SetData`, `SetExpires`, `DeleteKey` | operations of one command; calls that throw first change nothing |
| `UpdateSomeData`, `DelayUpdateData` | the calls up to their GET |
| `ExecGet`, `ExecGetNull` | GET, parse and merge |
| `ExecSet` | SET, which clears the expiry; the last command of `updateSomeData` and of `delayUpdateData` with `ex = -1` |
| `ExecTtl`, `ExecExpire` | the last two commands of `delayUpdateData` |
| `Tick`, `Crash` | expiry; a process dies between two commands |

`cache_update` has two callers, a key only the first uses and a key both use, 2 fields of 2 values, one text and one scalar, lifetimes -1 and 2 and 3 calls (`SYMMETRY Alike`: fields are interchangeable). Three calls are an object, an update of it and something in between; lifetime 2 lets a key expire before, within and after an update. It shows `UpdateKeepsOthers`, and with `TypeOK` that an update always has a value to write, also when its key did not exist. Keys with several writers do lose fields, which the code neither prevents nor denies. `cache_delay` finds that `delayUpdateData` shortens or deletes what its comment says it extends (redis.service.ts:117): it reads the ttl after its own SET.

`RedisCacheProofs` proves both properties of `cache_update` for all constants. `TypeOK` alone does not say which value an update is about to write; `Inv` adds that an update works on a key its caller may use (`JobOK`) and that, for a key with one writer, the merge it will write is still that of the object in Redis, or the object has expired (`Current`). It holds because other callers write other keys (`OthersUndisturbed`) and expiry only removes. No fairness is used: nothing here must eventually happen. Reconnects, which would send a command twice, are left out of this module.

## LogQueue

A key is the sequence of its parts, so that `BuildKey` can tell whether it begins with the prefix. `sent` is what a service awaits on its connection, `lists` and `waiting` are Redis: the lists, and the consumers blocked on each. `got` is history, a view of which `DeliveryQueue` has as `received`. An element is the number of the call that pushed it, whether it is JSON and whether it was pushed with `lpush`; every key may be pushed and popped on both sides, as `tests/e2e/redislogmq.spec.ts:52` does. `Textual` and `Parsing` say who pushes plain strings and who uses the parsing pops. Redis notices the end of a connection at once. In a Cluster `sent` is the connection to one node, and the keys are those stored there.

| Action | Code |
|---|---|
| `Rpush`, `Lpush`, `Trim` | the producer; calls that throw (no client, data `serialize` refuses) send nothing |
| `Blpop`, `Brpop` | `blpop`, `blpopData` and their mirror images |
| `Read` | `llen`, `lrange`, `ping`: what they return is left out, that they wait in line is not |
| `ExecPush`, `ExecPop`, `ExecTrim`, `ExecRead`, `Expire` | Redis; a push serves the consumer that has waited longest |
| `Answer` | the promise settles, with `deserialize` in the parsing variants |
| `Crash`, `Reconnect` | faults of the services in `MayFail` |

`queue` has one producer, two consumers, a queue pushed by its full and popped by its short name, on both sides, one call with a plain string, timeout 1, 4 calls and one fault; the consumer that may fail and parse is also the one that reads (`Readers`). Four calls are two pushes and two pops, on any sides, a push, a trim and two pops, or a pop with something behind it. It shows `TypeOK`, `NoIdleConsumer`, `InOrder`, `ReceivedOnce`, that the list is a double-ended queue of `DeliveryQueue` (`ImplementsQueue`) and, under `FairSpec`, `CallsSettle`: Redis executes what it got, timeouts fire and event loops take answers. With timeout 0 `CallsSettle` does not hold, since calls behind the pop share its connection. Elements popped for a consumer that dies, or that are not JSON for `blpopData`, are lost; no document promises more.

An element pushed on one side and popped on the other has crossed the list (`Crossed`). `InOrder` says that of the elements of a list that cross it in one direction an application receives the earlier push first, whatever is pushed and popped on the same side meanwhile. Elements popped on the side of their push come latest first, as the test just named expects of `lpush` and `blpop`; which element a pop gets, on whatever side, is what `ImplementsQueue` says.

`LogQueueProofs` proves `TypeOK` for all constants and `NoIdleConsumer` for every `queueOptions.prefix` (`QueuePrefix # Unset`). Without one the property is false: the producer falls back to `$syslog:` (redis.producer.ts:81) and the consumer to no prefix at all (redis.consumer.ts:128), since both inject the options before the defaults of `ioredis.constants.ts:44` are merged, and with `QueuePrefix = Unset` TLC finds a consumer that waits while the element pushed under the same key lies in another list. docs/RedisLogMQ.md:167 says that the queue configuration names queues uniformly. The inductive invariant says what a connection carries, with nothing executed behind a command that is not answered (`Queues`, `InLine`); that the consumers Redis holds on a list are exactly those whose pop is blocked there, each once (`Waits`); and that Redis keeps no elements in a list somebody waits on (`Served`). A consumer waits on the list its own key names, so it is left idle beside elements only if the two services name different lists, and with a prefix they do not.

`InOrder` is proved for the constants of `Orderly`: one producer, which does not fail. With a second producer the elements of a list follow the order in which Redis executes the pushes, and a producer that reconnects sends its pushes again: neither promises an order of the calls. `OrderInv` follows an element on its way from the producer's queue to the list, to the queue of a consumer and to its application. The elements that cross a list in one direction are on one lane (a key and the side of the push). In each place the elements of a lane lie in the order of their pushes, those pushed on the left backwards (`InPlace`), and what is further on its way was pushed earlier (`ListFirst`, `HeldFirst`, `GotFirst`). Elements popped on the side of their push only leave the lane. A pop on the other side therefore takes the earliest element the lane has in Redis, and a push that serves a blocked consumer is earlier than all that are still to come.

### DeliveryQueue

`DeliveryQueue` says what the log queue promises without connections or blocked clients: each key has a double-ended `queue`. `LeftElements` are those that enter at the left end, the others enter at the right; a consumer has its `open` calls, each with a key, the side it pops (`left`) and the element it was given, and the elements calls have `received`.

| Step | In `LogQueue` |
|---|---|
| `Call`, `Return` | a command is sent; its promise settles, with the element or without (timeout, a read, text that is no JSON) |
| `Put` | an RPUSH or LPUSH that finds nobody blocked, at its end |
| `Take` | a pop that finds an element, at its end |
| `Pass` | a push that serves the consumer blocked longest |
| `Trim` | LTRIM |
| `Fail` | a consumer dies, or reconnects and sends its calls again |

The mapping takes the lists as they are, keeps key, side and element of the commands on a connection (`Open`), and takes `got` with full keys (`Received`). Sending a push, blocking, expiry and what a producer does on failing are stutters. `Put` and `Pass` demand an element that is nowhere, so implementing `DeliveryQueue` says more than which end an element leaves from: no element comes twice, however producers and consumers interleave.

`LogQueueDeliveryProofs` proves `ImplementsQueue` and `ReceivedOnce` for all constants, any number of producers and consumers on any sides included, under `Unrepeated`: no producer is in `MayFail`. It cannot be dropped. A producer that reconnects sends pushes again whose answers were lost, and an element comes twice: with `MayFail = {p}` TLC finds `ReceivedOnce` violated. Crashes and reconnects of consumers are allowed, since they lose elements and repeat none. The run has one producer, since `InOrder` needs that; the interleavings of several are covered by the proof. The inductive invariant `PushInv` says of a push on its way that it is the only one to bring its element (`OnePush`) and that the element is nowhere yet (`NotYet`). With it each action is shown to be one step of `DeliveryQueue` or a stutter (`ExecDelivers`, `ServeDelivers`, `PopDelivers` and so on); `TrimmedSub` says that LTRIM leaves a stretch of the list.

`DeliveryQueueProofs` proves about the abstract specification that an element is in one place (`OnePlaceHolds`): queued under one key, given to one call, or returned by one. `ReceivedOnceHolds` is that theorem, instantiated with the mapping, and the refinement.

`CallsSettle` is liveness and model-checked only.

## ModuleOptions

One application, from the call in its module to the moment it is up or has failed. `entry` is how it registers the module ({"useValue"} for `forRoot`, otherwise the properties given to `forRootAsync`), `options` what it passes, `reachable` the servers that answer a ping; these never change. `Patient` are the options whose client keeps a command for as long as no server answers: a Cluster with the default `clusterRetryStrategy`, or a client with `maxRetriesPerRequest` null. `phase` follows Nest, `provided` is what the dynamic module lists, `state` whether each provider is waiting, made or threw, `clients` the connection each has opened. An option given as null or undefined is `Unset`. A configuration maps its fields to the server they name.

| Action | Code |
|---|---|
| `ForRoot` | `IORedisMQCoreModule.forRoot` with `validateOptionsType` and `validMQChannelNames` |
| `ForRootAsync` | `forRootAsync`, `createAsyncProviders`: no validation |
| `Instantiate` | Nest calls one factory or constructor whose dependencies are made: it opens a client, and may throw after that (`onClientCreated`) or without (`Throws`) |
| `Straggle` | the same while another provider has already thrown |
| `OnModuleInit` | the MQ service duplicates its client for the subscriber |
| `OnApplicationBootstrap` | the ping of the number cache is answered, or fails when the client gives it up (`GivesUp`) |
| `Unheard` | no server answers and the client keeps the ping (`KeepsAsking`): the bootstrap stays where it is |

`Merged` is the option object that defaults were added to; `RedisProducer` and `RedisConsumer` read the options as given, the other factories the merged ones. `Created` gives the client a factory opens, from `type` and from the order in which the code looks at `url`, `path` and `host`. `Dependencies` is who injects what.

Run `options` has two servers, of which any may be down, every entry point (all subsets of the three properties of `forRootAsync`, an import that exports an existing provider), every `type` that is valid, missing or unknown, channel lists that are missing, empty, good and bad, every pair of configurations for producer and consumer with each kind of address or none, and a callback that throws. Addresses differ only in the field and the server, so one configuration of each kind is enough. It shows that what is opened has the right kind and server (`TypeOK`, `KindsAgree`, `QueueEndsMeet`), that an application comes up only when a description of acceptable options written without the code's order of tests allows it and its server answers, and fails only otherwise (`Verdict`), that nothing is open when `forRoot` refuses (`RefusedBeforeConnecting`), and under `FairSpec` that bootstrapping ends unless it waits for a ping the client keeps (`BootstrapEnds`). `FairSpec` says that Nest goes on until everything is made or something has thrown, that a server that is up answers a ping, and that a client that gives up does so. In the run every Cluster is patient, and so are single clients with the options in `Observed` (`NeverGivesUp`).

`ModuleOptionsProofs` proves all of these but `BootstrapEnds` for any options, servers and channel names. The inductive invariant says that a connection is one its factory may open (`Openings`), that a provider is made or has thrown as its options say, never as the order of making (`Outcomes`), and what each phase implies (`Phases`): an application that failed has refused its options, has a provider that threw, or found its server silent.

## Not modelled

Logging, type declarations and barrel files, the test application and the samples have no behaviour to check. What an application's own factory for the options does, and whether it rejects, is its business. `createRedisProducerClient`, `createRedisConsumerClient` and `clientsFactory` are registered nowhere, `closeClient`, `maxLen` and `blockTimeout` are read nowhere. The tests of the factories for missing options (`if (!options)`) never fire, since the merged options are always an object. Liveness under fairness is out of reach of the proof system and stays with TLC.
