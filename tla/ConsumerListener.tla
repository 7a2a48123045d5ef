--------------------------- MODULE ConsumerListener ---------------------------
(***************************************************************************)
(* A consumer with a message listener, from Client.subscribe to its end.   *)
(*                                                                         *)
(* The configuration creates a MessageListenerCallback: a thread-safe      *)
(* function around the JavaScript listener and a future for the Consumer.  *)
(* Threads of the C++ client deliver messages through it, each waiting     *)
(* until the listener, and the promise it may return, is through.  The one *)
(* initial hold on the function passes from the configuration to the       *)
(* closure that settles the promise of subscribe() and on to the Consumer, *)
(* which gives it up in close(); the function's finalizer then deletes the *)
(* MessageListenerCallback.                                                *)
(*                                                                         *)
(* A use of the callback or of the Consumer after its deletion is recorded *)
(* in fault, and the behaviour is followed no further.                     *)
(***************************************************************************)
EXTENDS ThreadSafeFunction, FiniteSets

CONSTANT Threads  \* the client's threads that call the listener

ASSUME ThreadsAssumption == IsFiniteSet(Threads)

VARIABLES
  phase,     \* of subscribe(): see Phases
  owner,     \* who has the initial hold on the thread-safe function
  tsfn,      \* MessageListenerCallback::callback
  future,    \* MessageListenerCallback::consumerFuture: "unset" or "set"
  consumer,  \* the Consumer wrapped in a JavaScript object
  strong,    \* its reference count: while positive it is not collected
  held,      \* "yes" while JavaScript code can reach that object
  paused,    \* "yes" once the client was told to pause the listener
  pc,        \* [Threads -> where in MessageListener the thread is]
  handler,   \* [Threads -> the state of the listener call for its message]
  fault      \* what was used after its deletion

vars == <<phase, owner, tsfn, future, consumer, strong, held, paused, pc, handler, fault>>

Phases == {"idle", "subscribing", "subscribed", "resolved", "created", "failed"}
Places == {"outside", "entered", "ready", "acquired", "pushed", "waiting"}

\* The threads that hold the thread-safe function between Acquire and Release.
Holders == {t \in Threads : pc[t] \in {"acquired", "pushed"}}

\* FinalizeListenerCallback has deleted the MessageListenerCallback.
Deleted == tsfn.state = "finalized"

\* No use of something deleted so far.
Running == fault = "none"

\* Delivery begins once the subscription stands, which may be before the
\* callback of the asynchronous subscribe has run.
Delivering == phase \in {"subscribed", "resolved", "created"} /\ paused = "no"

Init ==
  /\ phase = "idle"
  /\ owner = "none"
  /\ tsfn = Absent
  /\ future = "unset"
  /\ consumer = "none"
  /\ strong = 0
  /\ held = "no"
  /\ paused = "no"
  /\ pc = [t \in Threads |-> "outside"]
  /\ handler = [t \in Threads |-> "none"]
  /\ fault = "none"

-----------------------------------------------------------------------------
\* Slips of the kind that the properties below are there to catch; no action
\* of the specification uses them.

\* SetListenerCallback that does not keep the Consumer alive.
ForgetRef ==
  /\ owner' = "consumer" /\ future' = "set" /\ UNCHANGED strong

\* A proxy that does not report back when the listener throws.
DropThrown ==
  /\ Running /\ CanDispatch(tsfn) /\ consumer # "destroyed"
  /\ \E h \in {"none", "done", "running"} :
       handler' = [handler EXCEPT ![Head(tsfn.queue)] = h]
  /\ tsfn' = Dispatched(tsfn)
  /\ held' = "yes"
  /\ UNCHANGED <<phase, owner, future, consumer, strong, paused, pc, fault>>

\* A thread that does not wait for the listener and its promise.
NoWait(t) ==
  /\ Running /\ pc[t] = "waiting"
  /\ pc' = [pc EXCEPT ![t] = "outside"]
  /\ handler' = [handler EXCEPT ![t] = "none"]
  /\ UNCHANGED <<phase, owner, tsfn, future, consumer, strong, held, paused, fault>>

\* Cleanup without its guard: every call gives up the hold.
CleanupAgain ==
  /\ paused' = "yes" /\ tsfn' = Released(tsfn) /\ owner' = "none" /\ strong' = 0

\* Cleanup that does not pause the listener.
CleanupRunning ==
  IF owner = "consumer"
  THEN /\ tsfn' = Released(tsfn) /\ owner' = "none" /\ strong' = 0 /\ UNCHANGED paused
  ELSE UNCHANGED <<paused, tsfn, owner, strong>>

-----------------------------------------------------------------------------
\* subscribe(), on the main thread and on the client's.

\* InitConfig makes the callback; the rest of the configuration is valid.
NewInstance ==
  /\ Running /\ phase = "idle"
  /\ phase' = "subscribing"
  /\ owner' = "config"
  /\ tsfn' = Created(1)
  /\ UNCHANGED <<future, consumer, strong, held, paused, pc, handler, fault>>

\* InitConfig makes the callback and rejects an option that comes after it.
NewInstanceInvalid ==
  /\ Running /\ phase = "idle"
  /\ phase' = "failed"
  /\ owner' = "config"
  /\ tsfn' = Created(1)
  /\ UNCHANGED <<future, consumer, strong, held, paused, pc, handler, fault>>

\* The broker confirms the subscription to the client.
Established ==
  /\ Running /\ phase = "subscribing"
  /\ phase' = "subscribed"
  /\ UNCHANGED <<owner, tsfn, future, consumer, strong, held, paused, pc, handler, fault>>

\* subscribeCallback with an error.
SubscribeFailed ==
  /\ Running /\ phase = "subscribing"
  /\ phase' = "failed"
  /\ UNCHANGED <<owner, tsfn, future, consumer, strong, held, paused, pc, handler, fault>>

\* The new owner of the listener that subscribeCallback takes out of the
\* configuration and puts into the closure of Resolve.
GetListenerCallback == "closure"

\* subscribeCallback with pulsar_result_Ok.
SubscribeOk ==
  /\ Running /\ phase = "subscribed"
  /\ phase' = "resolved"
  /\ owner' = GetListenerCallback
  /\ UNCHANGED <<tsfn, future, consumer, strong, held, paused, pc, handler, fault>>

\* The last reference to a configuration that still owns its listener goes.
DropConfig ==
  /\ Running /\ owner = "config" /\ phase \in {"failed", "resolved", "created"}
  /\ owner' = "none"
  /\ tsfn' = Released(tsfn)
  /\ UNCHANGED <<phase, future, consumer, strong, held, paused, pc, handler, fault>>

\* Consumer::SetListenerCallback, which finds no listener set before.
SetListenerCallback ==
  /\ owner' = "consumer"
  /\ future' = "set"
  /\ strong' = 1

\* The deferred's finalizer makes the Consumer and settles subscribe()'s promise.
CreateConsumer ==
  /\ Running /\ phase = "resolved"
  /\ phase' = "created"
  /\ consumer' = "alive"
  /\ held' = "yes"
  /\ SetListenerCallback
  /\ UNCHANGED <<tsfn, paused, pc, handler, fault>>

-----------------------------------------------------------------------------
\* MessageListener, on a thread t of the client.

Deliver(t) ==
  /\ Running /\ pc[t] = "outside" /\ Delivering
  /\ pc' = [pc EXCEPT ![t] = "entered"]
  /\ UNCHANGED <<phase, owner, tsfn, future, consumer, strong, held, paused, handler, fault>>

\* consumerFuture.get() waits until the Consumer is there.
GetConsumer(t) ==
  /\ Running /\ pc[t] = "entered" /\ ~Deleted
  /\ future = "set"
  /\ pc' = [pc EXCEPT ![t] = "ready"]
  /\ UNCHANGED <<phase, owner, tsfn, future, consumer, strong, held, paused, handler, fault>>

\* The thread reads the callback after its finalizer deleted it.
UseDeletedCallback(t) ==
  /\ Running /\ pc[t] \in {"entered", "ready"} /\ Deleted
  /\ fault' = "callback"
  /\ UNCHANGED <<phase, owner, tsfn, future, consumer, strong, held, paused, pc, handler>>

Acquire(t) ==
  /\ Running /\ pc[t] = "ready" /\ CanAcquire(tsfn)
  /\ tsfn' = Acquired(tsfn)
  /\ pc' = [pc EXCEPT ![t] = "acquired"]
  /\ UNCHANGED <<phase, owner, future, consumer, strong, held, paused, handler, fault>>

\* The function is closing: the message is dropped.
AcquireRefused(t) ==
  /\ Running /\ pc[t] = "ready" /\ ~Deleted /\ ~CanAcquire(tsfn)
  /\ pc' = [pc EXCEPT ![t] = "outside"]
  /\ UNCHANGED <<phase, owner, tsfn, future, consumer, strong, held, paused, handler, fault>>

\* The listener's thread-safe function is made with a queue of one call.
MaxQueue == 1

\* BlockingCall waits while the queue of one call is full.
BlockingCall(t) ==
  /\ Running /\ pc[t] = "acquired" /\ tsfn.state = "open" /\ HasRoom(tsfn, MaxQueue)
  /\ tsfn' = Pushed(tsfn, t)
  /\ pc' = [pc EXCEPT ![t] = "pushed"]
  /\ UNCHANGED <<phase, owner, future, consumer, strong, held, paused, handler, fault>>

Release(t) ==
  /\ Running /\ pc[t] = "pushed"
  /\ tsfn' = Released(tsfn)
  /\ pc' = [pc EXCEPT ![t] = "waiting"]
  /\ UNCHANGED <<phase, owner, future, consumer, strong, held, paused, handler, fault>>

\* future.wait() ends when the proxy has called data->callback().
Return(t) ==
  /\ Running /\ pc[t] = "waiting" /\ handler[t] = "done"
  /\ pc' = [pc EXCEPT ![t] = "outside"]
  /\ handler' = [handler EXCEPT ![t] = "none"]
  /\ UNCHANGED <<phase, owner, tsfn, future, consumer, strong, held, paused, fault>>

-----------------------------------------------------------------------------
\* The main thread: the event loop, the JavaScript code, the collector.

\* MessageListenerProxy calls the listener, which returns or throws, and the
\* message is done, or returns a promise.  The listener is given the Consumer.
Dispatch ==
  /\ Running /\ CanDispatch(tsfn) /\ consumer # "destroyed"
  /\ \E h \in {"done", "running"} :
       handler' = [handler EXCEPT ![Head(tsfn.queue)] = h]
  /\ tsfn' = Dispatched(tsfn)
  /\ held' = "yes"
  /\ UNCHANGED <<phase, owner, future, consumer, strong, paused, pc, fault>>

\* The proxy asks a collected Consumer for its JavaScript object.
UseDeletedConsumer ==
  /\ Running /\ CanDispatch(tsfn) /\ consumer = "destroyed"
  /\ fault' = "consumer"
  /\ UNCHANGED <<phase, owner, tsfn, future, consumer, strong, held, paused, pc, handler>>

\* The listener's promise: finally() reports back to the waiting thread.
Fulfil(t) ==
  /\ Running /\ handler[t] = "running"
  /\ handler' = [handler EXCEPT ![t] = "done"]
  /\ UNCHANGED <<phase, owner, tsfn, future, consumer, strong, held, paused, pc, fault>>

\* catch() first logs the error with the Consumer's topic and subscription.
Reject(t) ==
  /\ Running /\ handler[t] = "running"
  /\ IF consumer = "destroyed"
     THEN fault' = "consumer" /\ UNCHANGED handler
     ELSE handler' = [handler EXCEPT ![t] = "done"] /\ UNCHANGED fault
  /\ UNCHANGED <<phase, owner, tsfn, future, consumer, strong, held, paused, pc>>

\* Consumer::Cleanup: only the first call finds a listener.
Cleanup ==
  IF owner = "consumer"
  THEN /\ paused' = "yes"
       /\ tsfn' = Released(tsfn)
       /\ owner' = "none"
       /\ strong' = 0
  ELSE UNCHANGED <<paused, tsfn, owner, strong>>

\* close() may be called at any time, and again.
Close ==
  /\ Running /\ consumer = "alive" /\ held = "yes"
  /\ Cleanup
  /\ UNCHANGED <<phase, future, consumer, held, pc, handler, fault>>

\* unsubscribe() pauses the listener whether or not it then succeeds.
Unsubscribe ==
  /\ Running /\ consumer = "alive" /\ held = "yes"
  /\ paused' = "yes"
  /\ UNCHANGED <<phase, owner, tsfn, future, consumer, strong, held, pc, handler, fault>>

\* The program lets its last reference to the Consumer go out of scope.
DropReference ==
  /\ Running /\ held = "yes"
  /\ held' = "no"
  /\ UNCHANGED <<phase, owner, tsfn, future, consumer, strong, paused, pc, handler, fault>>

\* The collector runs ~Consumer on an object that nothing refers to.
Collect ==
  /\ Running /\ consumer = "alive" /\ held = "no" /\ strong = 0
  /\ consumer' = "destroyed"
  /\ Cleanup
  /\ UNCHANGED <<phase, future, held, pc, handler, fault>>

CloseTsfn ==
  /\ Running /\ CanClose(tsfn)
  /\ tsfn' = Closing(tsfn)
  /\ UNCHANGED <<phase, owner, future, consumer, strong, held, paused, pc, handler, fault>>

\* FinalizeListenerCallback deletes the MessageListenerCallback.
FinalizeTsfn ==
  /\ Running /\ CanFinalize(tsfn)
  /\ tsfn' = Finalized(tsfn)
  /\ UNCHANGED <<phase, owner, future, consumer, strong, held, paused, pc, handler, fault>>

\* Nothing is left to happen: the process crashed, the callback is gone, or
\* the program unsubscribed and let go of a consumer that it never closed.
Terminated ==
  /\ \/ fault # "none"
     \/ /\ \A t \in Threads : pc[t] = "outside"
        /\ Deleted \/ (paused = "yes" /\ held = "no")
  /\ UNCHANGED vars

Deliveries(t) ==
  \/ Deliver(t) \/ GetConsumer(t) \/ UseDeletedCallback(t) \/ Acquire(t)
  \/ AcquireRefused(t) \/ BlockingCall(t) \/ Release(t) \/ Return(t)
  \/ Fulfil(t) \/ Reject(t)

Lifecycle ==
  \/ NewInstance \/ NewInstanceInvalid \/ Established \/ SubscribeFailed
  \/ SubscribeOk \/ DropConfig \/ CreateConsumer
  \/ Dispatch \/ UseDeletedConsumer \/ CloseTsfn \/ FinalizeTsfn
  \/ Close \/ Unsubscribe \/ DropReference \/ Collect

Next == \/ Lifecycle
        \/ \E t \in Threads : Deliveries(t)
        \/ Terminated

\* The event loop and the client's threads run, the client answers subscribe,
\* the listener's promises settle, and a thread that waits for room in the
\* queue is not passed over for ever.  Nothing makes a program call close(),
\* drop its references or collect them.
Fairness ==
  /\ WF_vars(Established \/ SubscribeFailed)
  /\ WF_vars(SubscribeOk)
  /\ WF_vars(DropConfig)
  /\ WF_vars(CreateConsumer)
  /\ WF_vars(Dispatch \/ UseDeletedConsumer)
  /\ WF_vars(CloseTsfn)
  /\ WF_vars(FinalizeTsfn)
  /\ \A t \in Threads :
       /\ WF_vars(GetConsumer(t) \/ UseDeletedCallback(t))
       /\ WF_vars(Acquire(t) \/ AcquireRefused(t))
       /\ SF_vars(BlockingCall(t))
       /\ WF_vars(Release(t))
       /\ WF_vars(Return(t))
       /\ WF_vars(Fulfil(t) \/ Reject(t))

Spec == Init /\ [][Next]_vars /\ Fairness

-----------------------------------------------------------------------------
\* Properties.

Queues == {<<>>} \cup {<<t>> : t \in Threads}

\* Every variable has its type, and the queue its bound.
TypeOK ==
  /\ phase \in Phases
  /\ owner \in {"none", "config", "closure", "consumer"}
  /\ tsfn \in [threads : Nat, queue : Queues, state : States]
  /\ future \in {"unset", "set"}
  /\ consumer \in {"none", "alive", "destroyed"}
  /\ strong \in {0, 1}
  /\ held \in {"no", "yes"}
  /\ paused \in {"no", "yes"}
  /\ pc \in [Threads -> Places]
  /\ handler \in [Threads -> {"none", "running", "done"}]
  /\ fault \in {"none", "callback", "consumer"}

\* The holds on the listener's thread-safe function are the initial one,
\* wherever it is on its way from the configuration to the Consumer, and one
\* per thread between Acquire and Release: none is lost and none is given up
\* twice, by close() called again, a failed subscribe or the collector.
HoldsBalanced ==
  tsfn.threads = Cardinality(Holders) + (IF owner = "none" THEN 0 ELSE 1)

\* Between Acquire and Release a thread has an open function: BlockingCall is
\* not refused (the thread would then wait for ever for a call that was never
\* queued), and the callback is not deleted under it.
AcquiredStaysOpen ==
  Holders # {} \/ owner # "none" => tsfn.state = "open"

\* The listener is never called without the Consumer, even for messages that
\* arrive before subscribe() has settled.
ListenerGetsConsumer ==
  /\ tsfn.queue # <<>> => future = "set" /\ consumer # "none"
  /\ \A t \in Threads : handler[t] # "none" => consumer # "none"

\* A thread that waits for its message to be processed has a call queued,
\* or a listener promise pending, or is about to wake: no wake-up is lost.
NoLostHandoff ==
  \A t \in Threads :
    pc[t] = "waiting" => handler[t] # "none" \/ tsfn.queue = <<t>>

\* As long as its listener may be called, the Consumer is not collected, even
\* if the program has lost every reference to it.
ListeningConsumerLives ==
  [][owner = "consumer" => consumer' # "destroyed"]_vars

\* Once the initial hold is given up, on any path, the callback is deleted.
CallbackReclaimed ==
  (owner = "none" /\ tsfn.state # "none") ~> (Deleted \/ fault # "none")

\* The listener as MessageDelivery sees it: where the initial hold is, and how
\* far the message of each thread has come.
ListenerState ==
  CASE ~Running -> "crashed"
    [] Running /\ tsfn.state = "none" -> "none"
    [] Running /\ tsfn.state # "none" /\ owner = "none" -> "ended"
    [] Running /\ tsfn.state # "none" /\ owner = "consumer" -> "open"
    [] OTHER -> "opening"

HowFar(t) ==
  CASE handler[t] = "running" -> "handling"
    [] handler[t] = "done" -> "handled"
    [] OTHER -> IF pc[t] = "outside" THEN "none" ELSE "offered"

Delivery == INSTANCE MessageDelivery WITH
  Misses <- FALSE,
  Losses <- FALSE,
  state <- ListenerState,
  delivery <- [t \in Threads |-> HowFar(t)]

\* The listener does what MessageDelivery promises: every message comes back,
\* after exactly one call of the listener with its Consumer unless the listener
\* has ended, and only then may something deleted be used.
ImplementsDelivery == Delivery!Spec

\* Consumer.cc, SetListenerCallback: "If a consumer listener is set, the
\* Consumer instance is kept alive even if it goes out of scope in JS code."
\* The listener proxy therefore never meets a deleted Consumer.
ConsumerKeptAlive == fault # "consumer"
=============================================================================
