---------------------------- MODULE ReceiveWorker ----------------------------
(***************************************************************************)
(* Consumer.receive(timeout) and Reader.readNext, which wait for a message *)
(* on a thread of libuv's pool.  A call makes a worker, which is queued,   *)
(* executed by a thread of the pool (the call of the C client blocks it)   *)
(* and completed on the main thread, where its promise is settled and the  *)
(* worker deleted.  The pool is shared by all calls and small, and a call  *)
(* without a positive timeout keeps its thread until a message comes or    *)
(* the consumer or reader is closed.                                       *)
(*                                                                         *)
(* Consumer.receive() without an argument takes another way, which is the  *)
(* Receive of module PulsarApi.                                            *)
(***************************************************************************)
EXTENDS Integers, Sequences, FiniteSets

CONSTANTS
  Calls,        \* calls of receive and readNext in one run of the program
  PoolSizes,    \* how many threads the pool may have (UV_THREADPOOL_SIZE)
  Timeouts,     \* the timeouts that callers pass
  MaxArrivals   \* how many messages arrive in all (a bound for TLC)

ASSUME PoolAssumption == /\ IsFiniteSet(Calls) /\ "wrapper" \notin Calls
                         /\ PoolSizes \subseteq Nat \ {0}
                         /\ Timeouts \subseteq Int
                         /\ MaxArrivals \in Nat

Endpoints == {"consumer", "reader"}

\* What a pulsar_message_t pointer may be: null, a message of the client, or
\* whatever was on the stack of the thread.
Messages == 1 .. MaxArrivals
Null == 0
Junk == -1

VARIABLES
  pool,      \* threads of the pool
  endpoint,  \* [Calls -> the endpoint whose method is called]
  timeout,   \* [Calls -> the worker's timeout]
  pc,        \* [Calls -> how far the worker has come]
  queue,     \* the workers that wait for a thread of the pool
  done,      \* the executed workers that wait for the main thread
  outcome,   \* [Calls -> what Execute found: "none", "ok" or "error"]
  message,   \* [Calls -> AsyncWorker's cMessage]
  promise,   \* [Calls -> "none", "pending", "resolved" or "rejected"]
  owners,    \* [Endpoints -> who has a shared_ptr to the client's object]
  client,    \* [Endpoints -> the client's consumer or reader: "open" or "closed"]
  inbox,     \* [Endpoints -> the messages the client has not handed out]
  arrived,   \* how many messages have arrived
  fault

workers == <<pc, queue, done, outcome, message, promise>>
vars == <<pool, endpoint, timeout, workers, owners, client, inbox, arrived, fault>>

Steps == {"idle", "queued", "executing", "done", "deleted"}
Executing == {c \in Calls : pc[c] = "executing"}
Running == fault = "none"

\* readNext() without an argument: the default of the worker's constructor.
DefaultTimeout == -1

Init ==
  /\ pool \in PoolSizes
  /\ endpoint \in [Calls -> Endpoints]
  /\ timeout \in [Calls -> Timeouts \cup {DefaultTimeout}]
  /\ \A c \in Calls : endpoint[c] = "consumer" => timeout[c] \in Timeouts
  /\ pc = [c \in Calls |-> "idle"]
  /\ queue = <<>>
  /\ done = <<>>
  /\ outcome = [c \in Calls |-> "none"]
  /\ message = [c \in Calls |-> Null]
  /\ promise = [c \in Calls |-> "none"]
  /\ owners = [e \in Endpoints |-> {"wrapper"}]
  /\ client = [e \in Endpoints |-> "open"]
  /\ inbox = [e \in Endpoints |-> <<>>]
  /\ arrived = 0
  /\ fault = "none"

-----------------------------------------------------------------------------
\* Slips of the kind that the properties below are there to catch; no action
\* of the specification uses them.

\* The choice between the two calls of the C client the wrong way round.
TimedBackwards(c) == timeout[c] < 0

\* ConsumerReceiveWorker that wraps the pointer whatever the result, as
\* ReaderReadNextWorker does.
AlwaysWrap(c) == {Null, Junk}

\* Workers that borrow the client's object from the wrapper.
BorrowClient(c) ==
  /\ Running /\ pc[c] = "idle" /\ "wrapper" \in owners[endpoint[c]]
  /\ pc' = [pc EXCEPT ![c] = "queued"]
  /\ queue' = Append(queue, c)
  /\ promise' = [promise EXCEPT ![c] = "pending"]
  /\ UNCHANGED <<pool, endpoint, timeout, done, outcome, message, owners, client, inbox, arrived,
                 fault>>

\* A timeout that is noticed after the message was taken.
DropOnTimeout(c) ==
  /\ Running /\ pc[c] = "executing" /\ client[endpoint[c]] = "open" /\ timeout[c] > 0
  /\ pc' = [pc EXCEPT ![c] = "done"]
  /\ done' = Append(done, c)
  /\ outcome' = [outcome EXCEPT ![c] = "error"]
  /\ inbox' = IF inbox[endpoint[c]] = <<>> THEN inbox
              ELSE [inbox EXCEPT ![endpoint[c]] = Tail(@)]
  /\ UNCHANGED <<pool, endpoint, timeout, queue, message, promise, owners, client, arrived, fault>>

\* OnError that does not settle the promise.
SilentError(c) ==
  promise' = [promise EXCEPT ![c] = IF outcome[c] = "ok" THEN "resolved" ELSE @]

-----------------------------------------------------------------------------
\* The main thread.

\* Receive and ReadNext make a worker with a shared_ptr of its own and queue it.
Queue(c) ==
  /\ Running /\ pc[c] = "idle" /\ "wrapper" \in owners[endpoint[c]]
  /\ pc' = [pc EXCEPT ![c] = "queued"]
  /\ queue' = Append(queue, c)
  /\ promise' = [promise EXCEPT ![c] = "pending"]
  /\ owners' = [owners EXCEPT ![endpoint[c]] = @ \cup {c}]
  /\ UNCHANGED <<pool, endpoint, timeout, done, outcome, message, client, inbox, arrived, fault>>

\* OnOK and OnError.
SettlePromise(c) ==
  promise' = [promise EXCEPT ![c] = IF outcome[c] = "ok" THEN "resolved" ELSE "rejected"]

\* The main thread completes the executed workers in their order: the promise
\* is settled, then the worker is deleted with the pointers it has.
Complete ==
  /\ Running /\ done # <<>>
  /\ LET c == Head(done) IN
       /\ SettlePromise(c)
       /\ pc' = [pc EXCEPT ![c] = "deleted"]
       /\ owners' = [owners EXCEPT ![endpoint[c]] = @ \ {c}]
       /\ fault' = IF message[c] = Junk THEN endpoint[c] ELSE fault
  /\ done' = Tail(done)
  /\ UNCHANGED <<pool, endpoint, timeout, queue, outcome, message, client, inbox, arrived>>

\* close(): the client fails the calls that wait and those that follow.
Close(e) ==
  /\ Running /\ "wrapper" \in owners[e] /\ client[e] = "open"
  /\ client' = [client EXCEPT ![e] = "closed"]
  /\ UNCHANGED <<pool, endpoint, timeout, workers, owners, inbox, arrived, fault>>

\* The Consumer or Reader object is collected.
Collect(e) ==
  /\ Running /\ "wrapper" \in owners[e]
  /\ owners' = [owners EXCEPT ![e] = @ \ {"wrapper"}]
  /\ UNCHANGED <<pool, endpoint, timeout, workers, client, inbox, arrived, fault>>

-----------------------------------------------------------------------------
\* A thread of the pool, in Execute.

Start ==
  /\ Running /\ queue # <<>> /\ Cardinality(Executing) < pool
  /\ pc' = [pc EXCEPT ![Head(queue)] = "executing"]
  /\ queue' = Tail(queue)
  /\ UNCHANGED <<pool, endpoint, timeout, done, outcome, message, promise, owners, client, inbox,
                 arrived, fault>>

\* Whether Execute calls the function of the C client that times out.
Timed(c) == timeout[c] > 0

\* What cMessage points to when the C client has failed and left rawMessage
\* alone: the consumer's worker leaves it null, the reader's wraps rawMessage,
\* an uninitialized local variable.
Unset(c) == IF endpoint[c] = "consumer" THEN {Null} ELSE {Null, Junk}

\* Execute returns with result r.
Executed(c, r) ==
  /\ pc' = [pc EXCEPT ![c] = "done"]
  /\ done' = Append(done, c)
  /\ outcome' = [outcome EXCEPT ![c] = r]

\* The client has a message for the call.
Take(c) ==
  /\ Running /\ pc[c] = "executing"
  /\ client[endpoint[c]] = "open" /\ inbox[endpoint[c]] # <<>>
  /\ Executed(c, "ok")
  /\ message' = [message EXCEPT ![c] = Head(inbox[endpoint[c]])]
  /\ inbox' = [inbox EXCEPT ![endpoint[c]] = Tail(@)]
  /\ UNCHANGED <<pool, endpoint, timeout, queue, promise, owners, client, arrived, fault>>

\* The timeout passes without a message.
TimeOut(c) ==
  /\ Running /\ pc[c] = "executing" /\ Timed(c)
  /\ client[endpoint[c]] = "open" /\ inbox[endpoint[c]] = <<>>
  /\ Executed(c, "error")
  /\ \E m \in Unset(c) : message' = [message EXCEPT ![c] = m]
  /\ UNCHANGED <<pool, endpoint, timeout, queue, promise, owners, client, inbox, arrived, fault>>

\* The client answers AlreadyClosed.
FailClosed(c) ==
  /\ Running /\ pc[c] = "executing" /\ client[endpoint[c]] = "closed"
  /\ Executed(c, "error")
  /\ \E m \in Unset(c) : message' = [message EXCEPT ![c] = m]
  /\ UNCHANGED <<pool, endpoint, timeout, queue, promise, owners, client, inbox, arrived, fault>>

\* A message comes from the broker.
Arrive(e) ==
  /\ Running /\ client[e] = "open" /\ arrived < MaxArrivals
  /\ arrived' = arrived + 1
  /\ inbox' = [inbox EXCEPT ![e] = Append(@, arrived + 1)]
  /\ UNCHANGED <<pool, endpoint, timeout, workers, owners, client, fault>>

\* Every call is over, or waits for a message that never comes.
Terminated ==
  /\ \/ ~Running
     \/ \A c \in Calls : pc[c] \in {"idle", "deleted"} \/ timeout[c] <= 0
     \/ Cardinality({c \in Executing : timeout[c] <= 0}) = pool
  /\ UNCHANGED vars

Execute(c) == Take(c) \/ TimeOut(c) \/ FailClosed(c)

Next ==
  \/ Start \/ Complete \/ Terminated
  \/ \E c \in Calls : Queue(c) \/ Execute(c)
  \/ \E e \in Endpoints : Close(e) \/ Collect(e) \/ Arrive(e)

\* The pool and the event loop run, a timeout passes, and the client ends the
\* calls of a closed consumer.  Messages need not come.
Fairness == /\ WF_vars(Start) /\ WF_vars(Complete)
            /\ \A c \in Calls : WF_vars(Execute(c))

Spec == Init /\ [][Next]_vars /\ Fairness

-----------------------------------------------------------------------------
\* Properties.

\* The calls that were given message m.
Receivers(m) == {c \in Calls : message[c] = m}

\* Every message that the client received is still with the client or was
\* given to exactly one call, which does not reject: a timeout that races the
\* arrival of a message neither loses the message nor hands it out twice.
NoMessageLost ==
  \A m \in 1 .. arrived :
    LET waiting == {e \in Endpoints : \E i \in DOMAIN inbox[e] : inbox[e][i] = m} IN
    /\ Cardinality(waiting) + Cardinality(Receivers(m)) = 1
    /\ \A c \in Receivers(m) : outcome[c] = "ok" /\ promise[c] # "rejected"

\* The memory of a call is in order, whatever a timeout, a close or the
\* collector makes of it: a worker that is queued or executes keeps the
\* client's object, although the Consumer or Reader may be collected meanwhile,
\* and deleting the worker of a receive that failed frees no message.  (The
\* reader's worker may free what was on the stack.)
WorkerMemoryKept ==
  /\ \A c \in Calls : pc[c] \in {"queued", "executing", "done"} => c \in owners[endpoint[c]]
  /\ fault # "consumer"

\* Every thread of the pool waits in a call that has no timeout.
Starved == Cardinality({c \in Executing : timeout[c] <= 0}) = pool

\* A call with a timeout settles, whether or not a message comes, unless calls
\* without one occupy the whole pool.
TimedCallSettles ==
  \A c \in Calls :
    (pc[c] = "queued" /\ timeout[c] > 0) ~>
      (promise[c] \in {"resolved", "rejected"} \/ Starved \/ ~Running)

\* close() ends every call on its endpoint that has a thread, with or without
\* a timeout.
CloseEndsWaiting ==
  \A c \in Calls :
    (pc[c] = "executing" /\ client[endpoint[c]] = "closed") ~>
      (promise[c] \in {"resolved", "rejected"} \/ ~Running)
=============================================================================
