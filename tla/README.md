# TLA+ models of the Pulsar Node.js client

The repository is a native addon: C++ classes, written against Node-API, that
wrap the Pulsar C/C++ client for JavaScript. There is little algorithm in it and
a great deal of concurrency: every operation starts on Node's main thread and is
answered on a thread of the C++ client, every listener starts on a thread of the
client and runs on the main thread, and objects are freed by finalizers, by the
garbage collector and by reference counts. The modules here model that traffic
and state what makes it correct.

## Inventory

| Component | State | Operations | Talks to |
|---|---|---|---|
| `ThreadSafeDeferred` | fate, payload, thread-safe function, reference to itself | `New`, `Resolve`, `Reject`, `IsDone`, finalizer | every asynchronous method; the client's callbacks |
| Asynchronous methods (`Client.cc`, `Producer.cc`, `Consumer.cc`, `Reader.cc`) | none of their own | 22 methods: validate, issue, answer | `ThreadSafeDeferred`, C client |
| Consumer listener (`Consumer.cc`, `ConsumerConfig.cc`, `MessageListener.h`) | callback with thread-safe function and future, owner of the initial hold, strong reference of the Consumer | configure, subscribe, deliver, dispatch, close, unsubscribe, collect, finalize | client threads, event loop, collector |
| Reader listener (`Reader.cc`, `ReaderConfig.cc`, `ReaderListener.h`) | the same with a plain pointer instead of the future | configure, create, deliver, dispatch, close, collect, finalize | the same |
| Log handler (`Client.cc`) | one static pointer and the function behind it | `setLogHandler`, `log` option, `LogMessage`, `LogMessageProxy` | every thread of every client |
| Receive and read workers (`Consumer.cc`, `Reader.cc`) | worker, its timeout, its message pointer | queue, execute, complete | libuv's thread pool, C client |
| Authentication, token supplier (`Authentication.cc`) | callback with thread-safe function, references from Clients | construct, supply a token to a client thread, collect, finalize | client threads, event loop, `hasNext()` |
| Crypto key reader (`CryptoKeyReader.cc`) | thread-safe function, JavaScript reference | public or private key for a client thread, or inline | client threads, event loop, `send()`, `hasNext()` |
| Message router (`Producer.cc`, `ProducerConfig.cc`) | JavaScript reference of the router, inside the `ProducerConfig` | configure, create, choose a partition, drop | C client, `send()`, `close()` |
| Configurations (`ProducerConfig.cc`, `ConsumerConfig.cc`, `ReaderConfig.cc`) | the C configuration while it is read | read, check and convert each option; refuse, reject or ask the client | every constructor |
| Client construction (`Client.cc`) | references to Authentications, log level, C++ client | service URL or failover provider, options, logger, destructor | Authentications, the logger of the process |
| `Message`, `MessageId` (`Message.cc`, `MessageId.cc`) | a shared pointer to a C object and its deleter | build, receive, copy, serialize, acknowledge, seek, collect | consumers, readers, routers |
| Schemas (`SchemaInfo.cc`, `Client.cc`) | the versions of a topic (the broker's) | register, fetch a version, give back | configurations, `getSchemaInfo()` |
| Authentication plugins, `addon.cc` | none | construct | - |

The hard behaviours are the interleavings of the client's threads with the main
thread, teardown while messages are in flight, messages that arrive before the
object they are for exists, ownership that changes hands between threads, and
waiting: a client thread waits for JavaScript, JavaScript waits for the client,
and a small pool of threads serves calls that may wait for ever. What can go
wrong is listed under `hazards` in `PROJECT.json`, each at its line.

What makes each component correct:

- deferred: a promise is settled once, as the client answered, and the finalizer
  that settles it never reads what is still being written;
- listeners: the hold on the thread-safe function is given up exactly once on
  every path; a thread that has acquired it can use it; no delivery is lost
  between queue and wake-up; the Consumer or Reader is there when the listener
  is called; the callback is reclaimed;
- log handler: the installed function is usable and replaced ones are reclaimed;
- workers: no message is lost or handed out twice; a call with a timeout ends;
- token supplier: it is there while a Client that uses it exists; what the main
  thread writes to lives as long as it may be written; the waiting ends;
- crypto key reader: a pushed call never outlives the wrapper or the variables of
  the thread that pushed it; whoever waits is answered;
- router: its reference is there whenever the client may call it, is dropped with
  the producer, and each message goes where its own call says;
- configurations: the client is asked exactly for valid configurations and gets
  the numbers that the program wrote;
- client construction: each service has the authentication and certificates meant
  for it, for as long as it is used; the first client's level rules;
- messages: a C object lives exactly as long as an owner, and no object of the
  client's making is used without one;
- schemas: the version that was asked for is the one that comes, and giving it back
  registers nothing new.

## Modules

| Module | Models | Source |
|---|---|---|
| `ThreadSafeFunction` | Node-API's thread-safe function, as operators on a record (external) | used by the six modules with such a function |
| `JsNumbers` | Node-API's conversion of numbers (external) | used by the configurations, clients and the router |
| `JsObjects` | the records for objects that a program gives: services, ranges, schemas | used by the three modules that read them |
| `AsyncPromise` | abstract: what a caller may see of one promise | - |
| `MessageDelivery` | abstract: what a listener promises to the threads that deliver to it | - |
| `PulsarApi` | the contract of each asynchronous method | `Client.cc`, `Producer.cc`, `Consumer.cc`, `Reader.cc` |
| `ThreadSafeDeferred` | the deferred, for any set of calls of such methods; implements `AsyncPromise` | `ThreadSafeDeferred.cc` |
| `ConsumerListener` | one consumer with a listener, from `subscribe` to its end; implements `MessageDelivery` | `Consumer.cc`, `ConsumerConfig.cc` |
| `ReaderListener` | one reader with a listener; implements `MessageDelivery`, with two exceptions | `Reader.cc`, `ReaderConfig.cc` |
| `LogHandler` | the process's log handler | `Client.cc` |
| `ReceiveWorker` | `receive(timeout)` and `readNext` on libuv's pool | `Consumer.cc`, `Reader.cc` |
| `TokenSupplier` | an Authentication, the Clients that share it, their threads that ask for tokens, `hasNext()` | `Authentication.cc`, `Client.cc`, `Reader.cc` |
| `CryptoKeyReader` | the wrapper, key calls from client threads and from `send()`, the main thread's own waits | `CryptoKeyReader.cc` |
| `ProducerRouter` | one producer with a router: who keeps the `ProducerConfig`, and sends and closes nested in routers | `Producer.cc`, `ProducerConfig.cc` |
| `Configuration` | every option of producer, consumer, reader, client and message, in the order of the code | `ProducerConfig.cc`, `ConsumerConfig.cc`, `ReaderConfig.cc`, `Client.cc`, `Message.cc` |
| `ConsumerPolicies` | batch receive policy, dead letter policy, sticky ranges | `ConsumerConfig.cc` |
| `ClientConstruction` | service URL and failover provider, kept Authentications, the level of the logger | `Client.cc` |
| `Schemas` | registering a schema, fetching a version, giving it back | `SchemaInfo.cc`, `Client.cc` |
| `MessageObjects` | who owns the C object behind each Message, MessageId and Buffer | `Message.cc`, `MessageId.cc`, `Consumer.cc`, `Reader.cc`, `Producer.cc` |
| `MCProgram` | composes the six modules before this row; a behaviour exercises one of them, because they share no state | - |
| other `MC...` | instances for TLC | - |
| `...Proofs` | theorems and proofs: one module for each of the seven concurrent components, and `ProgramProofs` for the parts of `MCProgram` | - |

`PROJECT.json` maps every definition to the lines it stands for. Each module ends
with its properties. Before its actions it has a section of slips: altered copies
of definitions, each the way a plausible mistake in the code would alter it. No
specification uses them; they are there to show that each property can fail.

**Correspondence.** A variable is a field or a local variable of the code, except
for program counters (`pc`, `phase`, `main`) and the few that are named as history
or as reachability from JavaScript (`held`, `overlap`). One action is one
step between two points at which another thread may observe something: in
`ThreadSafeDeferred` the write of the payload, the write of the fate and the
release are three actions, because the finalizer runs on another thread; a handler
on the main thread that no other thread observes halfway is one action, with
everything it calls (`Close` includes `Cleanup`).

**Thread-safe functions.** `Acquire` fails once the function closes; `Release`
drops a hold; the event loop pops one call per step; the function closes when
nobody holds it and nothing is queued, and its finalizer runs in a later step.
Node's environment teardown, which closes functions by force, is not modelled.

**Use after deletion.** Where the code can touch an object that a finalizer or the
collector has deleted, the model has an action for it that sets `fault`, and
follows the behaviour no further. Liveness properties then say "... or fault".

**What a listener promises.** `MessageDelivery` knows threads that offer messages
and nothing of queues, holds and references. Both listeners are mapped to it. The
consumer's meets it in full: a message passes the listener by only once the
listener was given up, the listener is called at most once for each, nothing
deleted is used before the end, and every message comes back. The reader's needs
the two exceptions the abstract module has switches for: a message that arrives
before `createReader()` has settled may pass by (`Misses`), and a listener call
that throws or rejects keeps its thread (`Losses`).

**Conversions.** A JavaScript number is an integer or not finite; widths are
constants, so that wrapping, clamping and narrowing happen among few numbers. Between
`W32` and `W64` there must be a width: otherwise the number that `int64_t` is clamped
to is a valid `uint32_t`, and `ServicesAsConfigured` fails for a reason that 32 and 64
do not give (the proof showed it). Strings are empty, known to the option's table, or neither; an option
that is an object is what the code asks for or is not.

## Runs

| Run | Instance | Shows |
|---|---|---|
| `deferred` | two calls, any of the 22 methods each | settled once and in the end, as the method's contract says for each answer, inline or from another thread; ownership of the deferred; no write after release; `AsyncPromise` with its fairness |
| `consumer_listener` | three client threads | holds balance on every path, no lost wake-up, a listening Consumer lives, the callback is reclaimed, `MessageDelivery` with its fairness |
| `consumer_kept_alive` | one client thread | violated: see Findings |
| `reader_listener` | three client threads | the same for the reader, as far as its design allows |
| `reader_create_and_close` | one client thread | violated: see Findings |
| `log_handler` | two threads, two handlers, three messages | safe as long as `setLogHandler` and `LogMessage` do not overlap |
| `log_handler_installed` | one thread, one handler | violated: see Findings |
| `receive_worker` | two calls, pools of one and of two threads, two messages | no message lost or duplicated, no bad free by `receive`, the client's object outlives the workers, a timed call settles unless untimed ones fill the pool, `close()` ends the waiting ones |
| `token_supplier_safety` | two Clients that share an Authentication, three threads | a live Client finds its supplier, holds keep it, the proxy data outlives its use |
| `token_supplier_liveness` | one Client, two threads | tokens arrive, `hasNext()`, which needs one of the two, returns and the callback is reclaimed, apart from the deadlock with that one and the suppliers that never answer |
| `crypto_key_reader` | two client threads and the main thread | pushed calls find wrapper and variables, key calls and the main thread's waits, each for one of the threads, end apart from the deadlock with that one and a look-up that throws, the function is reclaimed |
| `program` | each part of `MCProgram`, see Bounds | configurations asked and passed as given, policies, failover services and their Authentications, the level that rules, the router's life and its answers, schemas there and back, owners of C objects |

**Bounds.** A deferred shares only the main thread with others, so two calls show
every interference there is. The listener's queue holds one call: with three
threads one has its call queued, one waits for room and one arrives or waits for
its promise. Two handlers are one replacement and one removal, in either
order; three messages on two threads let one thread log across both. Two calls
starve in a pool of one thread and race for messages in a pool of two. Two Clients
show that one keeps the Authentication for itself and not for the other; two
threads of one client are the one whose answer the main thread needs and another,
each waiting or free, for tokens as for keys. In `program`: 3 and 5 bits stand for 32 and 64, with numbers at, next
to and beyond each border (an option depends on at most one other, so options vary
around a default); two sends, one nested in the other, to two partitions; one client
with every combination of provider, services and authentications, and three clients
with different levels, of which the first, a later one and none may be alive when
something is logged; two versions of a schema, of every type; two places for
JavaScript objects, which are used again, and five C objects: a batch of two, their
copies, which outlive it, and an id of one of them once the other was collected.
The counters `MaxMessages`, `MaxInstalls`, `MaxArrivals`,
`MaxVersions`, `MaxCells` and `MaxRanges` bound unbounded inputs and appear in
guards or in the inputs.

**Deadlock.** TLC checks it in every run but `program`, whose parts end when what
they read was read or the client is gone. Where a listener or worker run ends, a
`Terminated` step says in which states it may.

**Fairness.** The event loop runs, a callback or a listener call that has begun
goes on, the client answers what it was asked within its operation timeout
(methods with `prompt = "yes"`; `receive()` and `batchReceive()` may wait for
ever), and the promises of listeners settle. A thread that waits for room in the
queue of one call is not passed over for ever (strong fairness of `BlockingCall`:
Node signals the condition variable at every pop). In `LogHandler` the loop's
steps are strongly fair because `setLogHandler`, itself on the main thread, can
interrupt them again and again; in `TokenSupplier` and `CryptoKeyReader` they are
because `hasNext()` or a blocking `send()` can, and a program returns to its event
loop. `program` states no fairness and checks no liveness. There is no fairness on
what a program may or may not do: calling `close()`, dropping references, installing
handlers; nor on the collector or the arrival of messages.

**Assumptions about the client.** It calls each asynchronous callback once. It
delivers messages to a listener only after the subscription or reader stands,
possibly before the callback of the asynchronous call has run. Pausing a consumer's
listener stops new deliveries but does not wait for those under way; closing does
not either. It fails receives that wait on a consumer or reader that is closed.
Each connection belongs to one of its threads: the answer to `hasNext()` comes on the
thread of the reader's connection, what makes room for a blocking `send()` on that of
the producer's, and only when that thread is neither in `TokenSupplier` nor in a key
call, however many others are free. Once it is out it goes on to the answer (strong
fairness of `HasNextReturns` and `ClientAnswers`: it may be in and out again meanwhile).
No timer on another thread is assumed to end such a wait. A thread that asks for a
key keeps its C++ producer or consumer, and so the wrapper, until it has the answer.
The client's logger is set by the first C++ client of the process (the comment
at `Client.cc:341`), and the client refuses a partition out of range.

## Findings

- `consumer_kept_alive`. A comment in `Consumer::SetListenerCallback` promises that
  a Consumer with a listener is kept alive. `close()` drops that reference at once,
  while a listener call may be queued or its promise pending. If the program holds
  no other reference the Consumer is collected, and the proxy asks it for its
  JavaScript object, or the catch handler for its topic.
- `reader_create_and_close`. A test asks that creating and closing readers with
  listeners does not crash. `Reader::Cleanup` releases the callback's function
  while the client still delivers (nothing pauses a reader's listener), so the
  finalizer can delete the callback under a thread that has just entered
  `ReaderListener`.
- `log_handler_installed`. A test installs a handler while its client exists and
  waits for what it logs. `setLogHandler` publishes the `LogCallback` before it
  contains a function; a thread that logs in between acquires a null function.
  Later changes of the handler race in the same way (`UseDeleted`, and a `Release`
  of a function other than the one acquired); `log_handler` shows that nothing
  else than such an overlap does harm.

More behaviours are in the models although no line of the repository denies
them:

- a message delivered to a consumer's listener just before `close()` may read a
  deleted callback (`UseDeletedCallback` in `ConsumerListener`);
- a `readNext` that fails frees an uninitialized pointer (`Unset` in
  `ReceiveWorker`; `receive(timeout)` has the guard that `readNext` lacks);
- `hasNext()` and a token supplier, or `hasNext()` or a blocking `send()` and a key
  reader, may wait for each other for ever when the thread that must answer is the one
  that asks for the token or key, with the other threads of the client free
  (`Deadlocked` in `TokenSupplier` and `CryptoKeyReader`); a supplier that throws or rejects, and a key reader whose
  method look-up throws, leave their thread waiting;
- a C++ client that an asynchronous call keeps after its Client was collected may
  use the deleted callback of a supplier (`UseDeletedSupplier`);
- the JavaScript reference of a key reader or router is deleted on the client's
  thread when that thread drops the last owner (`"misfreed"`);
- the logger may read the level inside a Client that was collected (`"stale"` in
  `ClientConstruction`), and a Client constructor that throws has already replaced
  the log handler (`Client.cc:361`);
- an object made with `new` has no C object, and a Message that a router kept points
  to a send that is over (faults `"null"` and `"routed"` in `MessageObjects`).

Reading the options for `Configuration` and `ConsumerPolicies` showed places where
the declarations in `index.d.ts` and the code differ. The models follow the code:

- `encryptionKey` is read only together with `publicKeyPath`
  (`ProducerConfig.cc:234-243`; `index.d.ts:89` declares it alone);
- `autoAckOldestChunkedMessageOnQueueFull` is read as a boolean
  (`ConsumerConfig.cc:283-289`; a number in `index.d.ts:129`);
- a reader's `cryptoFailureAction` is read only with `privateKeyPath`
  (`ReaderConfig.cc:96-109`; `index.d.ts:164`);
- batch receive limits from 2^31 on wrap when they are stored in an `int`, and are
  refused as if they had not been given (`ConsumerConfig.cc:331-339`).

## Proofs

TLC checks the instances above; the theorems hold for every value of the constants
that satisfies the named assumptions: any sets of calls and methods, any finite sets
of threads, any pool, queues and arrays of any length, all widths of numbers.
`tlapm` checks them.

`ThreadSafeDeferredProofs`: type correctness, `SettledAsAnswered`,
`NeverDecidedTwice`, `OwnedWhileUsed`, `NoWriteAfterRelease`, and that every
behaviour is one of `AsyncPromise` without its fairness (`Refinement`). None of
these is inductive alone. The inductive invariant ties each step of a call to the state of its deferred: up to
the release the function is open with one hold, the payload is written from
`written` on and the fate from `fated` on, exactly as the answer requires; after it
there is no hold; the owners are those the step requires; and a call that was
answered on the main thread is still inside its method until the answer has
returned. Each property follows from it without a further step, and the refinement
proof uses it to show that the finalizer settles as decided.

`ConsumerListenerProofs`: type correctness, `HoldsBalanced`, `AcquiredStaysOpen`,
`ListenerGetsConsumer`, `NoLostHandoff`, `ListeningConsumerLives`, and `Refinement`. The balance of
holds is the heart: the cardinality of the set of holders changes by one with each
`Acquire` and `Release`, and the rest of the invariant says which phase of the
subscription allows which owner, that a queued call belongs to a thread that waits
or is about to, and that the Consumer exists once the future is set.

`ReaderListenerProofs`: type correctness, `HoldsBalanced`, `ListeningReaderLives` and
`Refinement`. The invariant is the consumer's with the plain pointer for the future:
the pointer, the Reader and its hold are set by one step, and what a thread has read
from the pointer decides whether its call may run the listener. The two refinements
show `MessageDelivery` without its fairness (`Contract`) action by action: most
steps leave what a thread may see alone, a delivery moves one thread, and the
listener has ended once the initial hold was given up.

`ReceiveWorkerProofs`: `NoMessageLost` and `WorkerMemoryKept`. Counting the places
of a message is not inductive; that a message is in one inbox, once, or with one
call is, together with queues in which no worker is twice and with what a worker has
found and told at its stage.

`LogHandlerProofs`: type correctness and `QuietHandlerBalanced`. The invariant adds
what holds while `setLogHandler` is between two steps: without an overlap nobody is
in `LogMessage` then, and the new function has the main thread's hold alone.

`TokenSupplierProofs`: type correctness, `DataOutlivesUse` and
`SupplierServesClients`. A live Client is among the references that keep the
Authentication, the Authentication has a hold while it is alive, and a thread that
waits is queued or has its supply, not both; that no thread of a live Client got
junk needs in addition that a Client that is still to come has no threads yet.

`CryptoKeyReaderProofs`: type correctness and `CallsOutlivedByWrapper`. Callers have
no hold of their own. The invariant shows why the wrapper's single one suffices:
whoever is inside a key call is a thread of a producer or consumer that owns the
wrapper, and while it has an owner its reference, hold and open function are there.

`ProgramProofs` has one invariant for each part of `MCProgram`:

- `RouterInv` gives `RouterLivesAsProducer` and `RoutedAsAsked`: the owners of the
  configuration at each stage of `createProducer()`, and a stack of nested sends in
  which none is twice, so that each answer reaches its own send;
- `MessageInv` gives `LiveIffOwned` and `ClientObjectsUsable`: the C objects that
  are live are those that somebody has, none has two who might free it, and the
  messages of a batch were made one after the other;
- `SchemaInv` gives `FetchedAsRegistered` and `FetchedReused`: a fetched schema is
  the registered version, and the conversion to JavaScript and back is the identity
  on what a broker has (`RoundTrip`);
- `ClientInv` gives `UsedAuthKept` and `ServicesAsConfigured`, with lemmas on the
  conversion of numbers (`NarrowFits`, `NarrowRange`, `PositiveNumber`);
- `LevelInv` gives `FirstLevelRules`;
- `PolicyInv` gives `PolicyAsGiven`: what was read up to each stage, one range after
  the other;
- `OptionsInv` gives `ConfiguredAsGiven`: no row that was read refused its value, and
  the client has the numbers of those rows and no others. It rests on three facts about
  the five tables: a row refuses nothing or is one of the few strict rows of its class,
  no other row has the name of a number, and a number is read without a condition.
  Then an object is valid exactly if no strict row refuses it. `AnyObjectRight` states
  the property for any values of all options at once, where the run varies one
  option at a time: it needs no argument that options are independent.

The assumptions are the named `ASSUME`s: model values are distinct from what they
are told apart from (`"loop"` is no call, `"wrapper"` no call, `NaN` no integer),
sets of threads and calls are finite, methods answer only with known answers,
the classes are those that have a table, the inputs of clients, policies and schemas
are records of the form that `JsObjects` gives them, and `PowersAssumption`: 2^w is
positive and twice 2^(w-1), and grows with w. These are laws of arithmetic, which need an induction that is out of the
prover's reach; TLC evaluates them for its widths, as it does all assumptions.

`AcquiredStaysOpen` and `ListenerGetsConsumer` are consequences of the invariant
that only the proofs state; the runs check them through `ImplementsDelivery`.

Only model-checked: all liveness properties (`CallsSettle`, `CallbackReclaimed`,
`FailedCallbackReclaimed`, `RetiredHandlerReclaimed`, `TimedCallSettles`,
`CloseEndsWaiting`, `TokenArrives`, `HasNextEnds`, `SupplierReclaimed`,
`KeyCallReturns`, `KeyReaderReclaimed`) and the fairness part of the three
refinements, because the prover handles neither fairness nor ENABLED. Every other
property of the passing runs is a theorem; the three findings are runs of TLC.

## Not modelled

- `Client.js`, which writes Node's certificates to a file when it is loaded: file I/O.
- `ProtobufNativeSchema.js`, which builds a descriptor with a vendored library.
- The authentication plugins in JavaScript, one constructor call each, and the
  initialisation of the addon.
- `isConnected`, `getTopic`, `getProducerName`: they read the client's state and
  change nothing.
- What accessors of a Message format, the text of errors, and `LogUtils.h`.
- Checks that the C and C++ clients make themselves, and the broker, except through
  the assumptions above.
- Node's environment teardown.

## Plan

1. Done: `ThreadSafeDeferred` with `PulsarApi` and `AsyncPromise`, the listeners,
   the log handler, the workers, the token supplier, and the first two proof
   modules.
2. Done: `MessageDelivery` and the refinements; `CryptoKeyReader`, `ProducerRouter`,
   the configurations and policies, client construction, messages and schemas,
   composed in `MCProgram`.
3. Done: the proofs of the safety properties of all components, and the safety part
   of both refinements of `MessageDelivery`.
4. Next: simpler invariants and shorter proofs where they are possible, and
   properties that the invariants suggest and no run states yet.
