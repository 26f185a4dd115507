# nsc-toolkit in TLA+

Specifications of [nsc-toolkit](../src/README.md), a toolkit for services that
talk to each other over NATS: what its parts do, which properties make them
correct, which of these TLC checks on small instances and which TLAPS proves
for all of them. Line numbers are those of `src/src/*.ts`.

## The system

A *service* (`Service.ts`) subscribes to one subject per method and serves it
with the handler of that method. A *client* (`Client.ts`) of a service sends a
request and waits for the answer, perhaps after asking a cache. A handler has
clients of other services injected (`injector.ts`, `Service.ts:224-296`), and
with them the *baggage* (`interfaces.ts:45-49`) of the request it works on: the
trace and the deadline. Services emit *events*, which listeners subscribe to,
over core NATS or JetStream (`StreamManager.ts`, the two fetchers). Methods that
take or return streams are called over HTTP, on an address asked for over the
broker. All services may also run in one process, a *monolith*, over a broker
that is an object of the program (`Union/`). A *container* (`Container.ts`)
keeps the adapters that handlers need. All of it runs in Node.js: one thread,
interleaved at `await`.

| part | state it keeps | operations | what is hard |
|---|---|---|---|
| request and reply (`Client.ts` 197-304, `Service.ts` 479-583) | promises and timers of calls; running handlers; messages of the broker | request, cache lookup, broker request, deliver, answer, fail, time out | lost, late and repeated answers; crashes of replicas; race mode; timers |
| response cache (`Client.ts` 239-263) | stored answers; unawaited writes | lookup against a timer, hit, miss, write | a write that fails or comes late; staleness; what may be stored |
| baggage (`Root.ts` 48-63, `Service.ts` 313-316, 783-800) | deadline, trace, request id | getExpired, getNextBaggage, to and from headers | the deadline across services; 0 and undefined |
| container (`Container.ts`) | bindings, singletons, initialised keys | bind, unbind, getInstance, initDependencies | what happens at the awaits of the last two; failures; binding again |
| injector (`injector.ts`) | metadata by action name | related, service, instance | one name in two services |
| events (`Client.ts` 51-195, fetchers) | subscriptions by event name; handlers | on, off, the watching loops | several listeners of one client; off while on waits; redelivery |
| streams (`StreamManager.ts`) | streams and consumers of JetStream | createStreams, createConsumer | replicas that start together; options of streams that exist |
| life of a process (`Service.ts` 553-680) | subscriptions, HTTP servers, connection | start, stop, signals, fatal errors | signals twice or early; one close that fails or hangs |
| monolith's broker (`Union/`) | listeners of an emitter, timers | publish, subscribe, request | what NATS does and this does not |
| HTTP calls (`Client.ts` 276-378, `Service.ts` 359-474) | sockets, streams | get settings, call, stream | a server that stops in the middle; errors as status codes |
| transforms (`StreamOptions/`) | what is left of a chunk | transform | where the chunks are cut |
| tracing (`Service.ts` 156-219, 328-350, `Meter.ts`) | open spans, root spans | perform, measure, end | spans left open or overwritten |
| validation, logging, export | none | | Ajv and OpenTelemetry are external |

## Modules

| module | models | composes with |
|---|---|---|
| `Baggage` | the deadline of the baggage: pure operators | |
| `RequestReply` | a call from `Client.request` to its answer, on any number of replicas, with the cache | extends `Baggage` |
| `RequestPromise` | what a call promises its caller (abstract) | implemented by `RequestReply`, `UnionBroker` and `HttpCall` |
| `Injector` | the Maps of decorators and what an object is given: operators | |
| `Handling` | a process that handles requests: injection, baggage, spans | extends `Injector` |
| `Container` | the dependency container | |
| `Listener` | `getListener`, the watching loops, the fetchers | a message of NATS or JetStream is its environment |
| `Streams` | `createStreams`, `createConsumer`, and where events are published | several versions of a service, and listeners |
| `Lifecycle` | start, signals, cleanup, the end of a process | several services of one process |
| `HttpCall` | a call over HTTP, client and server | an address asked for over the broker |
| `UnionBroker` | the monolith: its broker with services, calls and listeners | the other half of `RequestPromise` |
| `StreamTransform` | documents over a stream of bytes | what goes over `HttpCall`'s streams |
| `*Proofs` | theorems about `RequestReply`, `HttpCall`, `UnionBroker`, `Lifecycle`, `Streams`, `Container`, `Listener`, `Handling` | each extends its module; `HttpCallProofs` has those about `StreamTransform`, too |
| `MC*` | instances for TLC | |

### RequestReply

A *call* is one invocation of `Client.request`; `pc` says where it is: `idle`,
`caching` (awaiting the race of the cache and a timer, 241-243), `waiting`
(awaiting `broker.request`, 296-304), then `resolved`, `rejected`, or `lost`
with the process that made it. `key` is the subject with the data, which is also
what the cache goes by (197-200). `parent` and `home` say in which running
handler, on which replica, the call was made. Messages are sets of records:
`requests`, `running` (the handler has the message), `replies`.

One action is what runs between two awaits: `Request` is `Client.request` up
to its first await, with its early returns as disjuncts (invalid request, no time
left, cache, broker); `CacheHit`, `CacheMissed`, `RecvReply` and `BrokerTimeout`
are what follows each await. `Deliver` is a turn of the loop of `Service.start`
with the start of `handled`; `Return`, `Throw` and `ReturnUnencodable` are the
`then` and `catch` on its promise. `Crash`, `Restart`, `LoseRequest`, `DropReply`,
`CacheStore`, `Evict` and `Tick` are the environment. A write to the cache that
fails is a write that never takes effect, with or without a `Crash`
(`Service.ts:679` makes it one).

Time is a natural number. Timers are ideal: the clock does not pass a timer
that has not been served. With no call pending nothing depends on the time and
the clock rests, so it needs no bound. `Absent` (0) is a timeout or deadline
that is not set: the code tests these for truth (`Root.ts:50-57`).
`computed` and `failed` are histories: what handlers returned and which failed.

### RequestPromise

What a caller relies on: a call is asked once, settles once and for ever, with an
error or with a value that the service computed for what was asked, or is lost with
its caller. `RequestReply` implements it under the mapping `phase`, `asked`,
`answer` at the end of the module.

### Container

`bound` with `place` is the Map of bindings and its order (a Map iterates in order
of insertion, a key bound again while it is there keeps its place, and the loop of
`initDependencies` sees what is bound while it runs). An object is
`[key, impl, n]`: the n-th made for a key and kept; what the container makes anew each time or is given
ready-made (an adapter without options, a constant) is no singleton and has the n 0. Calls of `initDependencies` and `unbind`
are constants, each used once, with a `pc` at their awaits. The loop of `initDependencies` has two of them: `for await`
takes an entry of the Map and lets others run before the body (`taken`, 174), and the body waits for `init()`
(`waiting`, 177). The body goes by the options of the entry that was taken and by what `getInstance` finds now: with the
key unbound meanwhile it throws and the call `failed`; with the key bound as something else it is that which is
initialised. `bind` and `getInstance`
do not wait and are one step each. How much a failed `getInstance` leaves made
depends on the order of declarations, so the model allows any closed part of it. `Needed`, what an instance of a key
takes, is what lies in every set with the key that is closed under `Injected`: the code's recursion over the
declared parameters, as a set.
`prototype` is what the prototype of a class has for a key that is injected by property
(`Container.ts:54`): all instances share it, it outlives what it points to, and it is whatever was there when the class
was asked for last, also an object that the container does not keep.
`overlaps`, `steady`, `unbound` and `rebound` are histories; with `overlaps` a
property can say "unless two calls were under way together" exactly.

### Injector and Handling

`Injector` has the three Maps that decorators write to (`meta`, by kind and class), as
Reflect finds them: a class with none of its own has that of the nearest class above it
(`Holder`), and its decorators write there (`SetMetaData`). `Chain` is a class with those above it, the least
set that is closed under `Super`, and the nearest class of some is the one that has all of them above it. `Object`
is what `createObjectWithDependencies` puts together, `Expected` what the declarations of a class
and its bases say it should be. `ClassesAssumption` says that no class is above itself, however many there are.

`Handling` has one process. Modules are `Load`ed in any order in which classes follow their bases;
then messages without baggage come from elsewhere (`Receive`), and requests are made (`Ask`) with a client of the
application, after `GetRootBaggage` or without, or with one that was injected into a handler. `Request` is
`Client.request` as far as spans go: it starts one of its own (`Client.ts:221`), under what the baggage names, and puts
that one into the message; it ends when the call does, whether or not it was handled. `Handle` is `Service.handled` up to its await: it starts the span, merges what is injected
into the Maps of the action, which outlive the request, and gives the handler its object, or
fails with any part of it merged. `Answer` is its `then` and its `catch`, which ends the span unless it throws itself:
what was thrown is written to the log first, and if it is no Error and JSON cannot write it (`Service.ts:510`, 547),
`finishSpan` is never reached. `Perform` is a call of an adapter through the Proxy of `getTrap`,
over at once or when `Settled`. `Emit`, `StartMeter`, `Measure`, `EndMeter` are the spans of an
event at both ends. A span has the request or event it is for as `owner`, and counts its `ends`.
`EndRootSpan` goes by the trace id, as the Map `rootSpans` does. `req` is what a request has of the baggage and
spans, `deps` what it was given. Names, tags and links of spans,
and a baggage that the user adds to an event by hand, are left out.

### Listener

A call of `on` is a constant (`Subs`) with a `state`: `creating` (it waits for its
consumer), `open` (its loop runs), `closing` (unsubscribed, but the fetcher has
one more turn), `closed`, `failed`, `dead`. `subscriptions` is the Map of that
name (`Client.ts:38`), keyed by client and event, whichever listener made the
subscription; `handlers` are the handlers attached to a listener's emitter. A
message of core NATS goes into the `inbox` of each recipient (of each member, or
of one of a queue), and may be lost; one of a stream is `stored`
until it is acknowledged, and `awaiting` once it was given out. `Redeliver` is both a
nak and an ack-wait that runs out. `Off` closes what the Map has for the event,
throws for a batch and does nothing where the Map is empty, as the code does.
All listeners to an event of a stream share one durable consumer: `AddConsumer` makes it with the
policies of whoever asks first, and the broker refuses listeners with others (`consumers`, `policy`). It
gives out new messages in the order of the stream (`seq`, `Fresh`), and what was not acknowledged
`again`. An acknowledgement is for one message, or with `ackAll` for all before it too (`Acknowledged`); with
`ackNone` a message is gone when it is given out; a consumer that delivers what is new passes over what is
stored when it is made. A single listener is given one message at a time (`Single`), a batch any number. Only batch listeners have a choice of acknowledgement (`StreamManager.ts:114`).
`untidy` is a history that says exactly when the listeners of a client did not take turns at an event: the
properties are stated up to it.

### Streams

The replicas of a service are of several `Version`s, each with its sequence of
actions. `Info` and `AddOrUpdate` are the two calls of the broker that
`createStreams` makes for each action, and others make theirs in between; `Last`
says when the loop is over. `Find`, `ConsumerInfo`, `ConsumerAddOrUpdate`, `Get` are
the four of `createConsumer`. Any of them may fail (`Down`, `OnFails`). Subjects are
sequences of tokens without the names of service and prefix, which all have in
common, and `Matches` is what NATS takes for a match. JetStream's answers are
external: adding a stream that is there with the same configuration succeeds, with
another it fails; an update changes the configuration, but is refused where the two differ in what is `Fixed`, the
storage or the retention policy, which are options of a service (`StreamManager.ts:55-64`); streams whose subjects
overlap are refused. Streams and consumers
are never deleted. `Ends` is what every end of a start does, for good or bad. The actions `*` and `>` name
the same stream (`StreamName`), so versions with either (`Wild`) configure one and the same in turn. `clashed`
and `lost` are histories of the last step: a refused start, with the stream it was refused for and whether that was made
since the start had begun; an event that no stream took, with the version that had configured the stream for all
(`Owner`). Since what they are about is in the step itself, an invariant over them is about every step.

### Lifecycle

A *run* is one call of `cleanupAndExit`, for one service at one stop. Its `pc` is
`draining` (620), `closing` (630), `failed` (in its catch, 640), `done`.
`Begin` starts the runs of all services that registered for the signal, or of one
that was stopped. `connection` is shared by the services of a process: NATS refuses a
second drain of one connection, the broker of the monolith accepts any. `exit` is
what the process ended with, after which nothing happens. Every wait has its own
`alarm`; timers are ideal. The start of a service is modelled as far as a cleanup can
interfere with it: it subscribes (`MethodServices`), waits for its HTTP server, subscribes again for the methods with
streams, and waits for its streams. On a connection that drains or is closed (`Gone`) each of these is refused. The last
is caught and ends the process (603-610). The first two are calls of async functions that nobody awaits (361, 426-427, 567): `start` goes
on to its next await, registration and all, and then the unhandled rejection ends the process with 1 (`Subscribe`).

### HttpCall

The calls are those of one client process; `pc` says what each waits for: `settings`
(the address, over the broker), `connecting`, `sent`, `reading`. `job` is the request as
the server sees it. Replicas go `Down`, come `Up` on any free address, so the address
that a client was told may be another service's by the time it connects: `RightUrl` is
how the server tells. There is no clock: a timer may go off at any time, and the
timeout of the HTTP request itself, which has no effect in the code (`Client.ts:335`),
has none here. The value `text` stands for something that is not a stream and is
given to the caller as one. Two errors end the client's process, with all its calls (`ProcessEnds`): a connection that
is cut while the body is read (`Client.ts:344`: an async callback that throws), and a payload stream that fails
before the request is made and its listener attached (363-366), if the application has none; after that the call
is answered with an error (`PayloadFails`).

### UnionBroker

One process, whose `Servers` subscribe with no queue groups (the emitter has none:
every server that serves a subject gets the request). `written` are the requests in the
stream of a subscription, `once` the listeners that `request` leaves on the emitter for
its answer; one is left behind by each timeout. `buffer` is the stream of a listener, and
the n-th event is the number n. `Off` changes nothing, since `destroy` throws before
`off` gets any further. Cache and validation are as in `RequestReply` and left out.

### StreamTransform

A document is a sequence of tokens, a byte a token with the number of its document. `Write` is
a value of the handler's stream turned to text; `Transform(n)` is `_transform` of a chunk
of any n bytes, with `head` what did not parse so far; there is no `_flush`, so `Finish` drops `head`.
Texts of numbers can be the beginning of other texts, those of objects cannot: that is `Texts`, the assumption about
`Documents`. A text that begins with a digit need not be made of them alone (`1.5`), so `ParsedUnlessGlued` is about
texts that begin with none (`Delimited`). `Fail` is any error of the
pipeline, which destroys both ends.

## Runs

| run | instance | checks | what it shows |
|---|---|---|---|
| `request_reply` | 2 calls, one perhaps inside the handler of the other, 2 replicas, 3 keys | `TypeOK`, `HonestResults`, `CacheHoldsReturned`, `HonestErrors`, `SingleHandling`, `ChildDeadlineInherited`, `DeadlineSlack`, `RaceAnswer` | what a caller gets is true, whatever is lost, repeated, late or crashes |
| `promise` | 2 calls, 2 replicas, with fairness | `PromiseSpec` | every call settles; `RequestReply` implements `RequestPromise` |
| `container` | 2 keys (one injected into the other), 2 calls of `initDependencies`, 2 of `unbind` | `TypeOK`, `InitOnce`, `InitCovers`, `CloseOnce`, `InjectedIsShared`, `ClosedWhenDropped` | when instances are initialised, closed and shared, exactly up to the interleavings in which they are not |
| `handling` | 4 classes (one extends another, one shares an action), 2 requests, 1 event | `TypeOK`, `OwnDependencies`, `SpansEnd`, `OneTree` | handlers get what they declare, whatever ran before; spans, of clients and handlers alike, form one tree and end once, unless the code that ends them throws |
| `listener` | 2 listeners of 2 clients, one in batches with one of 3 policies, a core event and a stream event, 2 messages | `TakingTurnsIsTidy`, `OnceIfTidy`, `HandledBeforeGone`, `StreamEventsHandled` | listeners that take turns leak nothing and get nothing twice; no stored message is starved, and none is gone unhandled except as its policy says |
| `streams` | 5 replicas of 4 versions (two of one with `>`; one each with `>` in other storage, with `*`, with a stream for each event), 2 listeners | `TypeOK`, `StartedHasStreams`, `NothingLost`, `ClashOnlyAtBirth`, `ReadyHasConsumer` | concurrent starts leave the streams there, and with the action `>` no event is lost as long as no version with `*` has the stream; a start is refused for a stream only as the versions explain |
| `lifecycle` | 2 services, 3 additional services, 2 stops | `TypeOK`, `ExitBound`, `ClosedIfAlone`, `CleanupEnds` | the process ends, in bounded time, and closes what it has to |
| `http_call` | 2 calls, 2 methods of 2 services, 2 replicas that share an address, handlers that return | `RightService`, `PromiseSpec` | no call reaches the wrong service or settles with something else's answer; every call settles |
| `transform` | 2 kinds of objects, 2 numbers, 4 sent | `BytesConserved`, `ParsedUnlessGlued` | no byte is lost however chunks are cut; objects arrive unless two share a chunk |
| `monolith` | 2 calls, 2 services of which one also serves what the other does, 1 listener, 2 events | `AnswerListeners`, `EventsInOrder`, `PromiseSpec`, `EventsHandled` | the emitter keeps the promise NATS keeps, and the order of events |
| `monolith_off` | 1 listener, 1 event | `NothingAfterOff` (violated) | after `off` the handler gets the event |
| `streams_star` | 1 replica with the action `*` | `StarIsForAll` (violated) | its events match no stream |

The `TypeOK` of `Listener`, `HttpCall` and `UnionBroker`, and `PipelineTypes` of `StreamTransform`, state the types for the reader and are
no part of a run; that of `Listener` is proved, and so is what the theorems need of the other three.

### Bounds

*Calls, replicas, subscriptions, messages* are finite sets of constants, each
used once: two of each are what a race, a nesting, a late answer to the wrong call or
a lost update takes. The instance of `request_reply` covers the keys by kind: cached and
checked with a timeout of its own, race mode, refused request; the payloads by what the
code tells apart: an accepted truthy value, and one that is both false to an `if` and refused
by the schema. *Time* needs no bound, as clocks rest when nothing waits; waits are 1
and 2 ticks, so that timers can be in either order. `MaxBinds` (Container) bounds
how often a free key is bound: two keys, or one key twice. `MaxStops` bounds signals and calls of `stop`: 2 is a signal during a cleanup.
`MaxEvents` (UnionBroker): 2 is one event behind another. `MaxSpans` (Handling): 4 are a root, the client
under it, its handler and one of a call, an event or a client inside that; or two clients, one in the handler of the other,
with their handlers. The chain with a root and both handlers has one more, and is left to the theorems. `MaxSent` (StreamTransform): 4 documents fill a chunk with the end of one, a whole one and the
beginning of a third, and leave one for after it. Deadlock is not checked in the runs whose
constants are used up (a finite number of calls ends), nor in `lifecycle` and the
monolith, which end with the process.

Symmetry is used in runs that check safety only, over replicas of one version
(`Streams`), and over calls or requests that are treated alike (`Container`, `RequestReply`, `Handling`).

### Fairness

Weak fairness only, and only of what the process or its broker does by itself:

* `RequestReply`: the clock and the timers of calls (`CacheMissed`, `BrokerTimeout`).
  Nothing is assumed of the network, the handlers, the replicas or the cache, so a call
  settles by its timers alone.
* `Listener`: the loops, redelivery by the broker, and handlers that acknowledge what they
  get (as `StreamEventsHandled` needs: the broker never lets go of what is not acknowledged).
* `Lifecycle`: the clock, the timers, and what follows a catch.
* `HttpCall`: the client's own steps and timers, and handlers that return (`FairHandlers`): that is a
  restriction, since the timeout of the HTTP request has no effect and a call whose handler hangs never settles.
* `UnionBroker`: timers and event loops of a living process. Handlers may hang.

`Streams`, `Container`, `Handling` and `StreamTransform` are checked for safety only: what they wait for is
the broker, the application or the network.

## Findings

Two runs end in a violation on purpose: each states what the documentation or a comment
says, and shows what the code does. PROJECT.json quotes the lines.

* The monolith is promised to keep all functionality (`README.md:46`); its subscriptions cannot be closed
  (`monolith_off`).
* The action `*` is promised to stand for all events (`README.md:228`); it stands for none (`streams_star`).

Other divergences were met while modelling, and are not runs: the positive properties state them as
exceptions or bounds.

* `DeadlineSlack`: a call can outlive its deadline by the cache's timeout, since the wait for the broker is worked out
  before the cache is asked.
* `InitOnce`, `CloseOnce`, `ClosedWhenDropped`, `InitCovers` except overlapping calls, and keys that are bound again:
  `initDependencies` rejects if a key it has come to is unbound before the body of its loop runs (`Container.ts:174-176`),
  and if it is bound as something else by then, that is initialised and the key marked; two overlapping calls of `initDependencies` initialise twice, two of `unbind` close twice or drop an
  instance unclosed; a key unbound and bound again is not initialised again; an instance may be given out while it closes;
  a singleton outlives a new binding of its key.
* `ClosedIfAlone` excepts a second signal, the other services of a monolith, and a process that ends with 1 because a
  service subscribed, or made its streams, on a connection that the cleanup had drained: in each case the
  process exits before everything is closed. `ExitBound` shows that the timeout of the documentation
  (`README.md:257-259`) counts for each wait and not for the whole. The HTTP server's `close` is made a promise
  function and never called (`Service.ts:625`).
* Requests are promised a timeout (`README.md:39`, `README.md:210`). That of a call over HTTP is given to
  `http.request`, which raises an event that nobody listens to (`Client.ts:335`): the call waits for ever
  if the handler does. `http_call` assumes that handlers return.
* `getListener` promises to unsubscribe (`Client.ts:123`); subscriptions are kept by client and event name only, so
  that `off` of one of two listeners of a client closes the other's subscription, and its own goes on: `untidy`.
* `off` of a batch listener throws, and `off` while `on` waits for its consumer does nothing: both are `untidy`.
* With `ackAll` one handler's acknowledgement is for whatever the shared consumer gave out before, also to another
  listener that has not handled it yet and may still exit (`StreamManager.ts:115`): `HandledBeforeGone` excepts
  it where more than one loop shares the consumer.
* An error whose message is empty is answered with status 200 (`Service.ts:373`), and the client takes its text for the
  stream: `MCHttpCall!AllReturns` is the instance with such errors; `http_call` leaves them out.
* In a monolith, two services that have an action of the same name have their dependencies in one Map, and so
  have classes that extend one with decorators (`injector.ts:30`, 37). A class that has the action of a `@related` base
  of others (not its own) adds what it is injected to the Map of that base (`Service.ts:224-226`), which the base's heirs
  are given. `OwnDependencies` excepts all three (`Alone`).
* An instance keeps the singleton of a key that was unbound, or the constant or transient of one that was bound as
  a singleton since, on its prototype, until the class is asked for again: `InjectedIsShared` excepts both
  (`Container.ts:54`).
* A trace with the flags 0, one that is not sampled, counts as none and is replaced by a new one, which is sampled
  (`Service.ts:322`, in `OneTree`). A second request with the trace of the first overwrites its root span, which
  is never ended; nor are the spans of functions for which `Meter.measure` throws (`Meter.ts:71`), and that of a handler
  that throws what JSON cannot write (`Service.ts:510`). `SpansEnd` excepts all three.
  `publish` of the monolith drops the headers (`Union/Broker.ts:58`), and with them the trace of an event.
* `README.md:318` promises streams that are glued and parsed by themselves; a chunk with bytes of two documents
  never parses, nor does anything after it, and at the end what is left is dropped without an error
  (`ParsedUnlessGlued`).
* The streams of the actions `*` and `>` have one name (`StreamManager.ts:190-201`): a replica of a version with `*`
  configures that of the versions with `>` anew, for a subject that no event has, and their events are lost until one
  of them starts again. `NothingLost` and `ReadyHasConsumer` except it.
* The loop that logs the broker's events returns at the first debug event, where it should go on to the next
  (`Service.ts:720-723`): later disconnections are not logged.
* The default timeout is documented in seconds (`README.md:84`) and used in milliseconds (`Root.ts:51-52`).

## Proofs

### RequestReply

`RequestReplyProofs` proves, for every value of the constants that satisfies the assumptions named in
`RequestReply` (sets included in each other as the code has them, timeouts natural numbers, `None` and the errors
different from everything else):

| theorem | states |
|---|---|
| `TypeCorrect` | `Spec => []TypeOK` |
| `ResultsAreHonest` | `Spec => []HonestResults` |
| `CacheIsHonest` | `Spec => []CacheHoldsReturned` |
| `DeadlineOverrun` | `Spec => []DeadlineSlack` |
| `DeadlineTravels` | `Spec => []ChildDeadlineInherited` |
| `ErrorsAreHonest` | `Spec => []HonestErrors` |
| `RacesAreWon` | `Spec => []RaceAnswer` |
| `OneReplicaAtATime` | `Spec => []SingleHandling` |
| `KeepsPromise` | `Spec => Promise!Safety` |

None of the properties is inductive by itself. The strengthenings are built on each other:

* `AnswersInv` = `TypeOK`, `Asked` (whatever is on its way, handled or answered belongs to a call that was made),
  `HonestReplies` (an answer with a payload carries one computed for its key), with the two properties they prove. Without
  `HonestReplies` an answer in flight could be anything; without `CacheHoldsReturned` a hit of the cache could.
* `DeadlineInv` adds `Alarms` (a pending call's timer, and the wait still to come, end within the cache's timeout of its
  deadline, and not before it), `ChildDeadlineInherited`,
  `Dated` (calls under way have a deadline) and `Parents` (a handler's call was made before its own calls).
* `FailuresInv` adds `HonestFailures`: an error in flight was thrown by a handler, and one of a race that was
  not encodable says so.
* `HandlingInv` = `SentOnce` and `Alone`: a request outside race mode has at most one trace over the three sets
  of messages, which `SingleHandling` says of each call.

Each invariant is preserved by every action (one step per action or group of actions that leave its variables
alone, through frame predicates such as `Quiet`, `Timeless`, `Fewer`), and `KeepsPromise` maps every action to
one of `RequestPromise` or to a stutter. Each theorem names a property that `request_reply` checks, except
`KeepsPromise`, of which `promise` checks the whole with liveness.

### Lifecycle

`LifecycleProofs`, for any number of services, additional services and stops, any timeout, over NATS and in the
monolith, from `BoundsAssumption` and the other assumptions named in `Lifecycle`:

| theorem | states |
|---|---|
| `TypeCorrect` | `Spec => []TypeOK` |
| `CleanupIsBounded` | `Spec => []ExitBound` |
| `AloneClosesAll` | `Spec => []ClosedIfAlone` |

`ExitBound` bounds the clock while a cleanup is under way. By itself it says nothing of how many waits are left, so
`Paced` relates the clock to the timer of each wait, `now <= alarm`, and the timer to the waits a run has begun,
`alarm <= began + Waits * Timeout`; the number of waits is bounded by the list of additional services.
`ClosedIfAlone` needs to know why a cleanup ends early: `CleanupInv` adds that runs are numbered by the stops
(`Numbered`), that only a run touches the connection (`Drained`), so that a drain is refused because of another
run (`Refused`) and a process that ends because of a start has a connection that is gone, that a run has asked those whose turn it was (`Closed`), and that a run that nothing interferes
with is done when the process ends (`Finished`).

### UnionBroker

`UnionBrokerProofs`, for any number of calls, servers, listeners and events:

| theorem | states |
|---|---|
| `ListenersAreKept` | `Spec => []AnswerListeners` |
| `EventsKeepOrder` | `Spec => []EventsInOrder` |
| `KeepsPromise` | `Spec => Promise!Safety` |

`AnswerListeners` is inductive with the types. `EventsInOrder` needs `Quiet`, that the stream of a listener is empty
before it subscribes, and that it did so no later than now; the lemmas `BetweenNext`, `MoveHead` and `ConcatAppend` are
what publishing and receiving do to a sequence of consecutive numbers. `KeepsPromise` needs `HonestAnswers`: an answer on
its way was returned for the key of its call.

### HttpCall

`HttpCallProofs`, for any number of calls, methods, services, replicas and addresses, from `MethodsAssumption` and
`NoneAssumption`:

| theorem | states |
|---|---|
| `HandledByRightService` | `Spec => []RightService` |
| `KeepsPromise` | `PlainHandlers /\ Spec => Promise!Safety` |

`RightService` is about replicas that have run the handler of a call, whose method could still change as far as
the types say; `NoTrace` says that a call that is not sent has left nothing on any server, and one that was made
has a method. `KeepsPromise` needs `HonestResponses` (a payload in a response was returned for the method of the call) and
`StreamOrError`, which holds only for `PlainHandlers`, those that return streams where streams are declared,
and errors that have a message: for others the client takes an answer with status 200 for the stream, whatever
it is. The instance of `http_call` is of this kind (`PlainReturns`).

The documents that such a call streams are those of `StreamTransform`, which two more theorems are about,
for any documents that satisfy `DocumentsAssumption`, any number of them, and chunks cut anywhere:

| theorem | states |
|---|---|
| `Conservation` | `PipelineSpec => []BytesConserved` |
| `Parsing` | `PipelineSpec => []ParsedUnlessGlued` |

`BytesConserved` is inductive with types (`Conserved`). `ParsedUnlessGlued` is not: its invariant `Framed` says that the
values made so far have the texts of the first documents, byte for byte, that what is kept and on its way is the rest, and that what is kept
is shorter than the next text, or longer once a chunk had bytes of two. In the first case it parses when it is that
text (no text is the beginning of another), in the second never again. Both are about the concatenation of sequences
of any number, which the library defines by recursion. What that is for a longer sequence is not an induction the
provers can instantiate; the lemmas from `Least` to `FlatCons` have it from the least length of a counterexample.

### Streams

`StreamsProofs`, for any number of replicas, versions, events and listeners, and any sequences of actions, from
`ActionsAssumption`, `NamesAssumption` and the others named in `Streams`:

| theorem | states |
|---|---|
| `TypeCorrect` | `Spec => []TypeOK` |
| `StartsLeaveStreams` | `Spec => []StartedHasStreams` |
| `ClashesAreOfVersions` | `Spec => []ClashOnlyAtBirth` |
| `EventsAreStored` | `Spec => []NothingLost` |
| `ListenersAreServed` | `Spec => []ReadyHasConsumer` |

Two facts about names carry the rest: of the actions only `>` matches the event with its suffix
(`OnlyGreaterMatches`), and a version that has `>` or `*` has no other action (`WildIsOnly`).
`StartedHasStreams` is of starts that are over; `Progress` says what one under way has made, that is the streams of
the actions it is past, and since no stream goes (`StreamsStay`) it keeps them while others start. Of a refused start
`Begun` remembers which streams were not there when it began. `ClashOnlyAtBirth` is of the step that refuses: a stream
that was there all the time, and of the same kind, is met by an update, which `Blocking` refuses only for what is `Fixed`,
and the version that had configured the stream has it otherwise than the one that starts (`Differ`). `ReadyHasConsumer` needs `Served`, what a listener past
the search has found.

### Container

`ContainerProofs`, for any keys, implementations and injections between them, any number of calls of
`initDependencies` and a finite number of calls of `unbind`:

| theorem | states |
|---|---|
| `TypeCorrect` | `Spec => []TypeOK` |
| `InitialisedOnce` | `Spec => []InitOnce` |
| `ClosedOnce` | `Spec => []CloseOnce` |
| `DroppedWhenClosed` | `Spec => ClosedWhenDropped` |
| `SharedUntilUnbound` | `Spec => []InjectedIsShared` |
| `AllInitialised` | `Spec => []InitCovers` |

`TypeOK` bounds how many instances of a key are made by the calls of `unbind`; `Keyed` and `Counted` say why: a new one is
made only after a call that is done has dropped the last. `InitOnce` looks at two calls that are over;
`InitersOverlap`, `Marked` and `WaitsForNew` look at them while they run: the key of what was initialised is marked,
and a call waits for an instance that another has initialised only if both were under way together. `CloseOnce` is the
same for `unbind` (`ObjectsMade`, `UnbindersOverlap`, `ClosedGone`: what was closed is not in the container, though
a later instance of its key may be). `SharedUntilUnbound` needs `KeptOnce` and `PlainOnce`: unless a key
was unbound or bound as something else, what is kept for it is so by its binding, and what a prototype has unkept is so
by its binding. `ClosedWhenDropped` needs `ClosingKept`, that a call drops the very instance
it has closed. `InitCovers` is about the loop over a Map that changes while it runs: `Ordered`
gives its order, `Passed` says that each steady key the loop has come to is marked, or is the one it has taken; and
`SteadyBound`, `WaitsForKept` and `MarkedKept` that what is steady stays bound, and what is waited for
or marked stays in the container, unless it is never kept there.

### Listener

`ListenerProofs`, for any number of listeners, clients, calls of `on`, events and messages, with all policies:

| theorem | states |
|---|---|
| `TypeCorrect` | `Spec => []TypeOK` |
| `TurnsAreTidy` | `Spec => []TakingTurnsIsTidy` |
| `OnceInTurn` | `Spec => []OnceIfTidy` |
| `HandledThenGone` | `Spec => HandledBeforeGone` |

They are built on each other. `TurnsAreTidy` needs that what the Map has is open and its own (`Mapped`), and
`CreatingAlone`: if listeners take turns, a call that waits for its consumer is alone with its entry of the Map, so
that the others cannot come between its two halves. `OnceInTurn` says of what was handled what `OneCarrier` says of
what is on its way, too: a message of core NATS is with one loop of a client; a message of a stream may come again
after a failure, but to the loop of the same call (`OwnLoop`, `InboxLive`). `HandledThenGone` is easy but for
`ackAll`, where one acknowledgement is for all messages before it: with a single loop these were given out before
(`GivenInOrder`), are in its hand or handled (`InHand`), and therefore handled (`HandledInOrder`).

### Handling

`HandlingProofs`, for any requests, events, classes and headers, and any number of spans:

| theorem | states |
|---|---|
| `EndedOnce` | `Spec => []SpansEnd` |
| `TreeOfRequest` | `Spec => []OneTree` |
| `DependenciesOwn` | `Spec => []OwnDependencies` |
| `TypeCorrect` | `Spec => []TypeOK` |

`ReqLinks` and `Named` say that whatever refers to a span by its number, a request, the Map `rootSpans`, a Meter or a
call under way, refers to one of the right kind; `SpansStay` and `EndedKind` say that a step leaves the spans as they
are but for the one it ends, and who may end it. `Traced` says that a span is in the trace of its parent. With these there is an
invariant for each kind (`Clients`, `Handlers`, `Calls`, `EventSpans`, `MeterSpans`, `Roots`). That of roots is the difficult one: `rootSpans` goes by the trace, so `Roots`
has to say that the Map has the span of a root until it is ended, unless some other root has its trace.

`DependenciesOwn` is about Maps that are shared along a chain of classes, of any length. The invariant `Classes` has what is
true of all classes, that they are loaded from the top (`Loading`), that of the classes of a chain one at most
holds a Map of a kind (`MetaIs`), and that what is registered for an action is such a Map (`RegisteredIs`); and
what is true of one that is `Alone` (`HasOwn`): while modules are loaded, the class of its chain that was loaded last
finds in the Maps what is declared so far; after that requests add to these Maps, but nothing that is not put on top of
them for this class again. `TypeCorrect` follows from it and the invariants of the spans.

### Only model-checked

* Liveness: the fairness in the three `PromiseSpec`, `StreamEventsHandled`, `CleanupEnds`, `EventsHandled`. It is out of
  the prover's reach, as is `ENABLED`. Of the `PromiseSpec` the safety is proved (`KeepsPromise`).
* The two violations, which are runs of their own.

All invariants of the passing runs are stated by a theorem, and so are the action properties `ClosedWhenDropped` and
`HandledBeforeGone`. No module declares a RECURSIVE operator: what the code does by recursion is the least set
that is closed under a step (`Chain`, `Needed`), which can be reasoned about.

## Not modelled, and why

* Validation: Ajv is external; its verdict is a constant (`Malformed`, `InvalidRequests`).
* A handler's answer that cannot be encoded is assumed to be true to an `if`.
* The probe server (`Service.ts:685`): nothing else reads its state, and the cleanup makes its `close` a promise function
  without calling it. When its port is taken the monolith goes without it, and over NATS the error ends the process:
  that is `FatalError` of `Lifecycle`. The broker's status events are only logged.
* `maxPending` of a consumer (10 unless given): the broker of `Listener` may hold back messages, and has no limit.
* The JetStream of the monolith: stubs without state, which resolve with constants or throw.
* Names, tags and links of spans, and a baggage that the user adds to an event by hand.
* Logging and the export of traces (nothing reads them); examples and generated code.

## Plan

What is left, in this order:

1. `StreamOrError` of `HttpCallProofs` for handlers that are not plain, with the exact set of those that are misread.
2. `Lifecycle` with the probe server, whose port only one service of a process can have.
