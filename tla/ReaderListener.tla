---------------------------- MODULE ReaderListener ----------------------------
(***************************************************************************)
(* A reader with a listener, from Client.createReader to its end.          *)
(*                                                                         *)
(* The design is that of ConsumerListener with three differences, and each *)
(* of them matters: the callback has a plain, at first null, pointer to    *)
(* the Reader where the consumer's has a future; close() gives up the hold *)
(* on the thread-safe function while the client still delivers messages,   *)
(* because nothing pauses it; and the proxy attaches only then() to the    *)
(* listener's promise and catches nothing that the listener throws.        *)
(*                                                                         *)
(* A use of the callback or of the Reader after its deletion is recorded   *)
(* in fault, and the behaviour is followed no further.                     *)
(***************************************************************************)
EXTENDS ThreadSafeFunction, FiniteSets

CONSTANT Threads  \* the client's threads that call the listener

ASSUME ThreadsAssumption == IsFiniteSet(Threads)

VARIABLES
  phase,    \* of createReader(): see Phases
  owner,    \* who has the initial hold on the thread-safe function
  tsfn,     \* ReaderListenerCallback::callback
  pointer,  \* ReaderListenerCallback::reader: "null" or "reader"
  reader,   \* the Reader wrapped in a JavaScript object
  strong,   \* its reference count: while positive it is not collected
  held,     \* "yes" while JavaScript code can reach that object
  client,   \* the client's reader: "open", "closing" or "closed"
  pc,       \* [Threads -> where in ReaderListener the thread is]
  seen,     \* [Threads -> the pointer it read for its message]
  handler,  \* [Threads -> the state of the listener call for its message]
  fault     \* what was used after its deletion

lifecycle == <<phase, owner, pointer, reader, strong, held, client>>
vars == <<phase, owner, tsfn, pointer, reader, strong, held, client, pc, seen,
          handler, fault>>

Phases == {"idle", "creating", "opened", "resolved", "created", "failed"}
Places == {"outside", "entered", "ready", "acquired", "pushed", "waiting"}

\* The threads that hold the thread-safe function between Acquire and Release.
Holders == {t \in Threads : pc[t] \in {"acquired", "pushed"}}

\* FinalizeListenerCallback has deleted the ReaderListenerCallback.
Deleted == tsfn.state = "finalized"

\* No use of something deleted so far.
Running == fault = "none"

\* The client delivers from when its reader is open until it is closed.
Delivering == phase \in {"opened", "resolved", "created"} /\ client # "closed"

Init ==
  /\ phase = "idle"
  /\ owner = "none"
  /\ tsfn = Absent
  /\ pointer = "null"
  /\ reader = "none"
  /\ strong = 0
  /\ held = "no"
  /\ client = "open"
  /\ pc = [t \in Threads |-> "outside"]
  /\ seen = [t \in Threads |-> "none"]
  /\ handler = [t \in Threads |-> "none"]
  /\ fault = "none"

-----------------------------------------------------------------------------
\* Slips of the kind that the properties below are there to catch; no action
\* of the specification uses them.

\* SetListenerCallback that does not publish the Reader.
ForgetPointer == /\ owner' = "reader" /\ strong' = 1 /\ UNCHANGED pointer

\* SetListenerCallback that does not keep the Reader alive.
ForgetRef == /\ owner' = "reader" /\ pointer' = "reader" /\ UNCHANGED strong

\* Cleanup without its guard: every call gives up the hold.
CleanupAgain == /\ tsfn' = Released(tsfn) /\ strong' = 0 /\ owner' = "none"

\* A configuration that does not release the listener it still owns.
KeepListener ==
  /\ Running /\ owner = "config" /\ phase = "failed"
  /\ owner' = "none"
  /\ UNCHANGED <<phase, tsfn, pointer, reader, strong, held, client, pc, seen,
                 handler, fault>>

-----------------------------------------------------------------------------
\* createReader(), on the main thread and on the client's.

\* The configuration makes the callback before it is known to be valid: a
\* topic or a start message may still be missing.
NewInstance ==
  /\ Running /\ phase = "idle"
  /\ phase' \in {"creating", "failed"}
  /\ owner' = "config"
  /\ tsfn' = Created(1)
  /\ UNCHANGED <<pointer, reader, strong, held, client, pc, seen, handler, fault>>

\* The client's reader is open, and messages may come before its callback.
Opened ==
  /\ Running /\ phase = "creating"
  /\ phase' = "opened"
  /\ UNCHANGED <<owner, tsfn, pointer, reader, strong, held, client, pc, seen,
                 handler, fault>>

\* createReaderCallback with an error.
CreateFailed ==
  /\ Running /\ phase = "creating"
  /\ phase' = "failed"
  /\ UNCHANGED <<owner, tsfn, pointer, reader, strong, held, client, pc, seen,
                 handler, fault>>

\* createReaderCallback with pulsar_result_Ok: the closure keeps the
\* configuration, which keeps the listener.
CreateOk ==
  /\ Running /\ phase = "opened"
  /\ phase' = "resolved"
  /\ UNCHANGED <<owner, tsfn, pointer, reader, strong, held, client, pc, seen,
                 handler, fault>>

\* ~ReaderConfig when it still owns the listener.
DropConfig ==
  /\ Running /\ owner = "config" /\ phase = "failed"
  /\ owner' = "none"
  /\ tsfn' = Released(tsfn)
  /\ UNCHANGED <<phase, pointer, reader, strong, held, client, pc, seen, handler,
                 fault>>

\* Reader::SetListenerCallback, which finds no listener set before.
SetListenerCallback ==
  /\ owner' = "reader"
  /\ pointer' = "reader"
  /\ strong' = 1

\* The deferred's finalizer takes the listener out of the configuration, makes
\* the Reader and settles createReader()'s promise.
CreateReader ==
  /\ Running /\ phase = "resolved"
  /\ phase' = "created"
  /\ reader' = "alive"
  /\ held' = "yes"
  /\ SetListenerCallback
  /\ UNCHANGED <<tsfn, client, pc, seen, handler, fault>>

-----------------------------------------------------------------------------
\* ReaderListener, on a thread t of the client.

Deliver(t) ==
  /\ Running /\ pc[t] = "outside" /\ Delivering
  /\ pc' = [pc EXCEPT ![t] = "entered"]
  /\ UNCHANGED <<lifecycle, tsfn, seen, handler, fault>>

\* The unsynchronized read of the pointer.
ReadPointer(t) ==
  /\ Running /\ pc[t] = "entered" /\ ~Deleted
  /\ seen' = [seen EXCEPT ![t] = pointer]
  /\ pc' = [pc EXCEPT ![t] = "ready"]
  /\ UNCHANGED <<lifecycle, tsfn, handler, fault>>

\* The thread reads the callback after its finalizer deleted it.
UseDeletedCallback(t) ==
  /\ Running /\ pc[t] \in {"entered", "ready"} /\ Deleted
  /\ fault' = "callback"
  /\ UNCHANGED <<lifecycle, tsfn, pc, seen, handler>>

Acquire(t) ==
  /\ Running /\ pc[t] = "ready" /\ CanAcquire(tsfn)
  /\ tsfn' = Acquired(tsfn)
  /\ pc' = [pc EXCEPT ![t] = "acquired"]
  /\ UNCHANGED <<lifecycle, seen, handler, fault>>

\* The function is closing: the message is dropped.
AcquireRefused(t) ==
  /\ Running /\ pc[t] = "ready" /\ ~Deleted /\ ~CanAcquire(tsfn)
  /\ pc' = [pc EXCEPT ![t] = "outside"]
  /\ seen' = [seen EXCEPT ![t] = "none"]
  /\ UNCHANGED <<lifecycle, tsfn, handler, fault>>

\* The listener's thread-safe function is made with a queue of one call.
MaxQueue == 1

BlockingCall(t) ==
  /\ Running /\ pc[t] = "acquired" /\ tsfn.state = "open" /\ HasRoom(tsfn, MaxQueue)
  /\ tsfn' = Pushed(tsfn, t)
  /\ pc' = [pc EXCEPT ![t] = "pushed"]
  /\ UNCHANGED <<lifecycle, seen, handler, fault>>

Release(t) ==
  /\ Running /\ pc[t] = "pushed"
  /\ tsfn' = Released(tsfn)
  /\ pc' = [pc EXCEPT ![t] = "waiting"]
  /\ UNCHANGED <<lifecycle, seen, handler, fault>>

\* future.wait() ends when the proxy has called data->callback().
Return(t) ==
  /\ Running /\ pc[t] = "waiting" /\ handler[t] \in {"skipped", "done"}
  /\ pc' = [pc EXCEPT ![t] = "outside"]
  /\ seen' = [seen EXCEPT ![t] = "none"]
  /\ handler' = [handler EXCEPT ![t] = "none"]
  /\ UNCHANGED <<lifecycle, tsfn, fault>>

-----------------------------------------------------------------------------
\* The main thread: the event loop, the JavaScript code, the collector.

\* ReaderListenerProxy with a null pointer reports back without the listener.
Skip ==
  /\ Running /\ CanDispatch(tsfn) /\ seen[Head(tsfn.queue)] = "null"
  /\ handler' = [handler EXCEPT ![Head(tsfn.queue)] = "skipped"]
  /\ tsfn' = Dispatched(tsfn)
  /\ UNCHANGED <<lifecycle, pc, seen, fault>>

\* ReaderListenerProxy calls the listener: it returns, or returns a promise, or
\* throws, and the exception leaves the proxy before it has reported back.
Dispatch ==
  /\ Running /\ CanDispatch(tsfn) /\ seen[Head(tsfn.queue)] = "reader"
  /\ reader # "destroyed"
  /\ \E h \in {"done", "running", "lost"} :
       handler' = [handler EXCEPT ![Head(tsfn.queue)] = h]
  /\ tsfn' = Dispatched(tsfn)
  /\ held' = "yes"
  /\ UNCHANGED <<phase, owner, pointer, reader, strong, client, pc, seen, fault>>

\* The proxy asks a collected Reader for its JavaScript object.
UseDeletedReader ==
  /\ Running /\ CanDispatch(tsfn) /\ seen[Head(tsfn.queue)] = "reader"
  /\ reader = "destroyed"
  /\ fault' = "reader"
  /\ UNCHANGED <<lifecycle, tsfn, pc, seen, handler>>

\* The listener's promise: then() has a function for fulfilment only.
SettlePromise(t) ==
  /\ Running /\ handler[t] = "running"
  /\ \E h \in {"done", "lost"} : handler' = [handler EXCEPT ![t] = h]
  /\ UNCHANGED <<lifecycle, tsfn, pc, seen, fault>>

\* Reader::Cleanup: only the first call finds a listener.
Cleanup ==
  IF owner = "reader"
  THEN /\ tsfn' = Released(tsfn)
       /\ strong' = 0
       /\ owner' = "none"
  ELSE UNCHANGED <<tsfn, strong, owner>>

\* close() may be called at any time, and again.
Close ==
  /\ Running /\ reader = "alive" /\ held = "yes"
  /\ Cleanup
  /\ client' = IF client = "open" THEN "closing" ELSE client
  /\ UNCHANGED <<phase, pointer, reader, held, pc, seen, handler, fault>>

\* The client has closed its reader: no further message is delivered.
ClientClosed ==
  /\ Running /\ client = "closing"
  /\ client' = "closed"
  /\ UNCHANGED <<phase, owner, tsfn, pointer, reader, strong, held, pc, seen,
                 handler, fault>>

\* The program lets its last reference to the Reader go out of scope.
DropReference ==
  /\ Running /\ held = "yes"
  /\ held' = "no"
  /\ UNCHANGED <<phase, owner, tsfn, pointer, reader, strong, client, pc, seen,
                 handler, fault>>

\* The collector runs ~Reader, which also frees the client's reader.
Collect ==
  /\ Running /\ reader = "alive" /\ held = "no" /\ strong = 0
  /\ reader' = "destroyed"
  /\ Cleanup
  /\ client' = IF client = "open" THEN "closing" ELSE client
  /\ UNCHANGED <<phase, pointer, held, pc, seen, handler, fault>>

CloseTsfn ==
  /\ Running /\ CanClose(tsfn)
  /\ tsfn' = Closing(tsfn)
  /\ UNCHANGED <<lifecycle, pc, seen, handler, fault>>

\* FinalizeListenerCallback deletes the ReaderListenerCallback.
FinalizeTsfn ==
  /\ Running /\ CanFinalize(tsfn)
  /\ tsfn' = Finalized(tsfn)
  /\ UNCHANGED <<lifecycle, pc, seen, handler, fault>>

\* Nothing is left to happen: the process crashed, the callback is gone, or
\* every thread waits for a listener that threw or rejected.
Terminated ==
  /\ \/ ~Running
     \/ \A t \in Threads : (pc[t] = "outside" /\ Deleted) \/ handler[t] = "lost"
  /\ UNCHANGED vars

Lifecycle ==
  \/ NewInstance \/ Opened \/ CreateFailed \/ CreateOk \/ DropConfig \/ CreateReader
  \/ Skip \/ Dispatch \/ UseDeletedReader \/ CloseTsfn \/ FinalizeTsfn
  \/ Close \/ ClientClosed \/ DropReference \/ Collect

Deliveries(t) ==
  \/ Deliver(t) \/ ReadPointer(t) \/ UseDeletedCallback(t) \/ Acquire(t)
  \/ AcquireRefused(t) \/ BlockingCall(t) \/ Release(t) \/ Return(t)
  \/ SettlePromise(t)

Next == \/ Lifecycle
        \/ \E t \in Threads : Deliveries(t)
        \/ Terminated

\* As for the consumer: the event loop and the client's threads run, the
\* client completes what it was asked to do, the listener's promises settle.
Fairness ==
  /\ WF_vars(Opened \/ CreateFailed)
  /\ WF_vars(CreateOk)
  /\ WF_vars(DropConfig)
  /\ WF_vars(CreateReader)
  /\ WF_vars(Skip \/ Dispatch \/ UseDeletedReader)
  /\ WF_vars(ClientClosed)
  /\ WF_vars(CloseTsfn)
  /\ WF_vars(FinalizeTsfn)
  /\ \A t \in Threads :
       /\ WF_vars(ReadPointer(t) \/ UseDeletedCallback(t))
       /\ WF_vars(Acquire(t) \/ AcquireRefused(t))
       /\ SF_vars(BlockingCall(t))
       /\ WF_vars(Release(t))
       /\ WF_vars(Return(t))
       /\ WF_vars(SettlePromise(t))

Spec == Init /\ [][Next]_vars /\ Fairness

-----------------------------------------------------------------------------
\* Properties.

Queues == {<<>>} \cup {<<t>> : t \in Threads}

\* Every variable has its type, and the queue its bound.
TypeOK ==
  /\ phase \in Phases
  /\ owner \in {"none", "config", "reader"}
  /\ tsfn \in [threads : Nat, queue : Queues, state : States]
  /\ pointer \in {"null", "reader"}
  /\ reader \in {"none", "alive", "destroyed"}
  /\ strong \in {0, 1}
  /\ held \in {"no", "yes"}
  /\ client \in {"open", "closing", "closed"}
  /\ pc \in [Threads -> Places]
  /\ seen \in [Threads -> {"none", "null", "reader"}]
  /\ handler \in [Threads -> {"none", "running", "skipped", "done", "lost"}]
  /\ fault \in {"none", "callback", "reader"}

\* The holds on the listener's thread-safe function are the initial one and
\* one per thread between Acquire and Release, whatever fails or is repeated.
HoldsBalanced ==
  tsfn.threads = Cardinality(Holders) + (IF owner = "none" THEN 0 ELSE 1)

\* As long as its listener may be called, the Reader is not collected, even if
\* the program has lost every reference to it.
ListeningReaderLives ==
  [][owner = "reader" => reader' # "destroyed"]_vars

\* Once createReader() has failed or was refused, the callback is deleted.
FailedCallbackReclaimed == phase = "failed" ~> Deleted

\* The listener as MessageDelivery sees it: where the initial hold is, and how
\* far the message of each thread has come.
ListenerState ==
  CASE ~Running -> "crashed"
    [] Running /\ tsfn.state = "none" -> "none"
    [] Running /\ tsfn.state # "none" /\ owner = "none" -> "ended"
    [] Running /\ tsfn.state # "none" /\ owner = "reader" -> "open"
    [] OTHER -> "opening"

HowFar(t) ==
  CASE handler[t] = "running" -> "handling"
    [] handler[t] = "done" -> "handled"
    [] handler[t] = "lost" -> "lost"
    [] OTHER -> IF pc[t] = "outside" THEN "none"
                ELSE IF seen[t] = "null" THEN "missed" ELSE "offered"

Delivery == INSTANCE MessageDelivery WITH
  Misses <- TRUE,
  Losses <- TRUE,
  state <- ListenerState,
  delivery <- [t \in Threads |-> HowFar(t)]

\* The listener does what MessageDelivery promises, with two exceptions that
\* the consumer's has not: a message that read the null pointer while the
\* reader was being created passes the listener by, and a listener call that
\* throws or rejects keeps its thread.
ImplementsDelivery == Delivery!Spec

\* tests/reader.test.js: "Reader should not throw segmentation fault when
\* create and close", with a listener and messages waiting in the topic.
NoUseAfterDeletion == fault # "callback"
=============================================================================
