---------------------------- MODULE TokenSupplier ----------------------------
(***************************************************************************)
(* An Authentication object and the Clients that use it.  When its token   *)
(* is a JavaScript function, a thread of a client that connects calls      *)
(* TokenSupplier, which pushes a call of that function and waits until the *)
(* main thread has run it and, if it returned a promise, the promise is    *)
(* fulfilled.  The main thread in turn waits for the client in hasNext():  *)
(* the answer comes on one thread of it, that of the reader's connection.  *)
(*                                                                         *)
(* Each Client keeps a reference to the Authentication object, whose       *)
(* destructor gives up the initial hold on the thread-safe function; the   *)
(* function's finalizer deletes the TokenSupplierCallback.  The C++ client *)
(* itself lives on while an asynchronous call is under way, which has a    *)
(* pointer to it and not to the Client object.                             *)
(***************************************************************************)
EXTENDS ThreadSafeFunction, FiniteSets

CONSTANTS
  Clients,    \* the Client objects that are made with this Authentication
  Threads,    \* the threads of all C++ clients that make connections
  ClientOf    \* [Threads -> the client a thread belongs to]

ASSUME ClientsAssumption == /\ IsFiniteSet(Threads)
                            /\ ClientOf \in [Threads -> Clients]
                            /\ "loop" \notin Threads
                            /\ "program" \notin Clients

VARIABLES
  kind,      \* what the Authentication is: see Plugin, "none" before it is made
  auth,      \* the Authentication object: "none", "alive" or "collected"
  refs,      \* who keeps it: the program and the Clients' authRefs_
  tsfn,      \* TokenSupplierCallback::callback
  object,    \* [Clients -> the Client object: "none", "alive" or "collected"]
  client,    \* [Clients -> the C++ client: "none", "open", "closing" or "closed"]
  main,      \* "loop", or the thread of the reader's connection, for whose
             \* answer the main thread waits in hasNext()
  pc,        \* [Threads -> where the thread is in TokenSupplier]
  supply,    \* [Threads -> what became of the thread's call of the function]
  returned,  \* [Threads -> what its last TokenSupplier returned]
  fault      \* "supplier" once a deleted TokenSupplierCallback was used

lifecycle == <<kind, auth, refs, object, client, main>>
vars == <<lifecycle, tsfn, pc, supply, returned, fault>>

Running == fault = "none"
InLoop == Running /\ main = "loop"
Deleted == tsfn.state = "finalized"

\* A thread's steps in TokenSupplier, and what it waits for: nothing yet, a
\* promise, the token, an answer that is not a string, or what never comes
\* because the function threw or its promise was rejected.
Steps == {"outside", "entered", "acquired", "pushed", "waiting"}
Supplies == {"none", "running", "token", "other", "never"}

\* The first argument of the constructor, and what the second may be: nothing
\* useful, a JSON string, or an object that has its required string properties,
\* has a function as token, or lacks something.
AuthMethods == {"tls", "token", "basic", "athenz", "oauth2", "unsupported"}
Parameters == {"absent", "json", "strings", "function", "lacking"}

Init ==
  /\ kind = "none"
  /\ auth = "none"
  /\ refs = {}
  /\ tsfn = Absent
  /\ object = [c \in Clients |-> "none"]
  /\ client = [c \in Clients |-> "none"]
  /\ main = "loop"
  /\ pc = [t \in Threads |-> "outside"]
  /\ supply = [t \in Threads |-> "none"]
  /\ returned = [t \in Threads |-> "none"]
  /\ fault = "none"

-----------------------------------------------------------------------------
\* Slips of the kind that the properties below are there to catch; no action
\* of the specification uses them.

\* A Client that takes the plugin out of the Authentication and keeps no
\* reference to the object.
ForgetAuthRef(c) == UNCHANGED refs

\* A thread that does not wait for the call it has pushed.
NoWait(t) ==
  /\ Running /\ pc[t] = "waiting"
  /\ pc' = [pc EXCEPT ![t] = "outside"]
  /\ supply' = [supply EXCEPT ![t] = "none"]
  /\ returned' = [returned EXCEPT ![t] = "empty"]
  /\ UNCHANGED <<lifecycle, tsfn, fault>>

\* A thread that calls the function without having acquired it.
NoAcquire(t) ==
  /\ Running /\ pc[t] = "entered" /\ CanAcquire(tsfn)
  /\ pc' = [pc EXCEPT ![t] = "acquired"]
  /\ UNCHANGED <<lifecycle, tsfn, supply, returned, fault>>

\* A proxy that gives up a promise without reporting back.
ForgetPromise(t) ==
  /\ InLoop /\ supply[t] = "running"
  /\ UNCHANGED vars

\* A thread that does not give up its hold.
KeepHold(t) ==
  /\ Running /\ pc[t] = "pushed"
  /\ pc' = [pc EXCEPT ![t] = "waiting"]
  /\ UNCHANGED <<lifecycle, tsfn, supply, returned, fault>>

\* A thread that goes on only when it got a string.
ReturnStringOnly(t) ==
  /\ Running /\ pc[t] = "waiting" /\ supply[t] = "token"
  /\ pc' = [pc EXCEPT ![t] = "outside"]
  /\ supply' = [supply EXCEPT ![t] = "none"]
  /\ returned' = [returned EXCEPT ![t] = "token"]
  /\ UNCHANGED <<lifecycle, tsfn, fault>>

-----------------------------------------------------------------------------
\* The main thread: objects that come and go.

\* What the constructor of Authentication makes of its arguments.
Plugin(method, param) ==
  CASE method = "token" /\ param = "function" -> "supplier"
    [] method \in {"tls", "token", "basic"} /\ param = "strings" -> "static"
    [] method \in {"athenz", "oauth2"} /\ param = "json" -> "static"
    [] OTHER -> "invalid"

\* new Authentication: an invalid one throws, and nobody has the object.
NewAuthentication ==
  /\ InLoop /\ auth = "none"
  /\ \E method \in AuthMethods, param \in Parameters : kind' = Plugin(method, param)
  /\ auth' = "alive"
  /\ refs' = IF kind' = "invalid" THEN {} ELSE {"program"}
  /\ tsfn' = IF kind' = "supplier" THEN Created(1) ELSE Absent
  /\ UNCHANGED <<object, client, main, pc, supply, returned, fault>>

\* BuildAuthenticationPtr adds the object to the Client's authRefs_.
KeepAuthentication(c) == refs' = refs \cup {c}

\* new Client with this Authentication.  An option that is read later may be
\* refused: then there is no C++ client, and nobody has the object.
NewClient(c) ==
  /\ InLoop /\ "program" \in refs /\ object[c] = "none"
  /\ object' = [object EXCEPT ![c] = "alive"]
  /\ \E made \in {"open", "none"} : client' = [client EXCEPT ![c] = made]
  /\ KeepAuthentication(c)
  /\ UNCHANGED <<kind, auth, main, tsfn, pc, supply, returned, fault>>

\* client.close().
CloseClient(c) ==
  /\ InLoop /\ object[c] = "alive" /\ client[c] = "open"
  /\ client' = [client EXCEPT ![c] = "closing"]
  /\ UNCHANGED <<kind, auth, refs, object, main, tsfn, pc, supply, returned, fault>>

\* The program has no use for the Authentication except through its Clients.
DropAuthentication ==
  /\ InLoop /\ "program" \in refs
  /\ refs' = refs \ {"program"}
  /\ UNCHANGED <<kind, auth, object, client, main, tsfn, pc, supply, returned, fault>>

\* The Client object is collected.  Its C++ client stays while an asynchronous
\* call keeps it.
CollectClient(c) ==
  /\ InLoop /\ object[c] = "alive"
  /\ object' = [object EXCEPT ![c] = "collected"]
  /\ refs' = refs \ {c}
  /\ UNCHANGED <<kind, auth, client, main, tsfn, pc, supply, returned, fault>>

\* The last pointer to the C++ client is gone, and it shuts down.
FreeClient(c) ==
  /\ Running /\ object[c] = "collected" /\ client[c] = "open"
  /\ client' = [client EXCEPT ![c] = "closing"]
  /\ UNCHANGED <<kind, auth, refs, object, main, tsfn, pc, supply, returned, fault>>

\* The C++ client has stopped: its threads make no more connections.
ClientStopped(c) ==
  /\ Running /\ client[c] = "closing"
  /\ client' = [client EXCEPT ![c] = "closed"]
  /\ UNCHANGED <<kind, auth, refs, object, main, tsfn, pc, supply, returned, fault>>

\* ~Authentication.
CollectAuthentication ==
  /\ InLoop /\ auth = "alive" /\ refs = {}
  /\ auth' = "collected"
  /\ tsfn' = IF kind = "supplier" THEN Released(tsfn) ELSE tsfn
  /\ UNCHANGED <<kind, refs, object, client, main, pc, supply, returned, fault>>

CloseTsfn ==
  /\ InLoop /\ CanClose(tsfn)
  /\ tsfn' = Closing(tsfn)
  /\ UNCHANGED <<lifecycle, pc, supply, returned, fault>>

\* FinalizeTokenSupplierCallback deletes the TokenSupplierCallback.
FinalizeTsfn ==
  /\ InLoop /\ CanFinalize(tsfn)
  /\ tsfn' = Finalized(tsfn)
  /\ UNCHANGED <<lifecycle, pc, supply, returned, fault>>

-----------------------------------------------------------------------------
\* The main thread: calls of the supplier, and hasNext().

\* How a promise ends: the function given to then() reports back with a string
\* or something else; there is none for a rejection.
Settled == {"token", "other", "never"}

\* TokenSupplierProxy: the JavaScript function returns a value or a promise, or
\* throws, and the exception leaves the proxy before it has reported back.
Proxy ==
  /\ InLoop /\ CanDispatch(tsfn)
  /\ \E s \in Settled \cup {"running"} : supply' = [supply EXCEPT ![Head(tsfn.queue)] = s]
  /\ tsfn' = Dispatched(tsfn)
  /\ UNCHANGED <<lifecycle, pc, returned, fault>>

SettlePromise(t) ==
  /\ InLoop /\ supply[t] = "running"
  /\ \E s \in Settled : supply' = [supply EXCEPT ![t] = s]
  /\ UNCHANGED <<lifecycle, tsfn, pc, returned, fault>>

\* Reader.hasNext() asks the client and waits, with the event loop standing.
\* The reader's connection is served by thread t, which may be in TokenSupplier
\* to connect again.
HasNext(t) ==
  /\ InLoop /\ client[ClientOf[t]] = "open"
  /\ main' = t
  /\ UNCHANGED <<kind, auth, refs, object, client, tsfn, pc, supply, returned, fault>>

\* Only that thread can answer, and not from within TokenSupplier.
CanAnswer(t) == pc[t] = "outside"

HasNextReturns ==
  /\ Running /\ main # "loop" /\ CanAnswer(main)
  /\ main' = "loop"
  /\ UNCHANGED <<kind, auth, refs, object, client, tsfn, pc, supply, returned, fault>>

-----------------------------------------------------------------------------
\* TokenSupplier, on a thread t of a client.

\* The client connects, for the first time or again.
Enter(t) ==
  /\ Running /\ pc[t] = "outside" /\ kind = "supplier"
  /\ client[ClientOf[t]] \in {"open", "closing"}
  /\ pc' = [pc EXCEPT ![t] = "entered"]
  /\ returned' = [returned EXCEPT ![t] = "none"]
  /\ UNCHANGED <<lifecycle, tsfn, supply, fault>>

Acquire(t) ==
  /\ Running /\ pc[t] = "entered" /\ CanAcquire(tsfn)
  /\ tsfn' = Acquired(tsfn)
  /\ pc' = [pc EXCEPT ![t] = "acquired"]
  /\ UNCHANGED <<lifecycle, supply, returned, fault>>

\* The function is closing: the thread returns an allocation of no bytes, which
\* the client reads as a string.
AcquireRefused(t) ==
  /\ Running /\ pc[t] = "entered" /\ ~Deleted /\ ~CanAcquire(tsfn)
  /\ pc' = [pc EXCEPT ![t] = "outside"]
  /\ \E r \in {"empty", "junk"} : returned' = [returned EXCEPT ![t] = r]
  /\ UNCHANGED <<lifecycle, tsfn, supply, fault>>

\* The thread reads the callback after its finalizer deleted it.
UseDeletedSupplier(t) ==
  /\ Running /\ pc[t] = "entered" /\ Deleted
  /\ fault' = "supplier"
  /\ UNCHANGED <<lifecycle, tsfn, pc, supply, returned>>

\* The supplier's thread-safe function is made with a queue of one call.
MaxQueue == 1

BlockingCall(t) ==
  /\ Running /\ pc[t] = "acquired" /\ tsfn.state = "open" /\ HasRoom(tsfn, MaxQueue)
  /\ tsfn' = Pushed(tsfn, t)
  /\ pc' = [pc EXCEPT ![t] = "pushed"]
  /\ UNCHANGED <<lifecycle, supply, returned, fault>>

Release(t) ==
  /\ Running /\ pc[t] = "pushed"
  /\ tsfn' = Released(tsfn)
  /\ pc' = [pc EXCEPT ![t] = "waiting"]
  /\ UNCHANGED <<lifecycle, supply, returned, fault>>

\* future.wait() ends, the token is copied and the proxy data deleted.
Return(t) ==
  /\ Running /\ pc[t] = "waiting" /\ supply[t] \in {"token", "other"}
  /\ pc' = [pc EXCEPT ![t] = "outside"]
  /\ supply' = [supply EXCEPT ![t] = "none"]
  /\ returned' = [returned EXCEPT ![t] = IF supply[t] = "token" THEN "token" ELSE "empty"]
  /\ UNCHANGED <<lifecycle, tsfn, fault>>

-----------------------------------------------------------------------------
\* The main thread waits for a thread that waits for the main thread, or for a
\* token that never comes, whatever the client's other threads do.
Blocked(t) ==
  pc[t] \in {"acquired", "pushed", "waiting"} /\ supply[t] \notin {"token", "other"}
Deadlocked == main # "loop" /\ Blocked(main)

\* Nothing is left to happen.
Terminated ==
  /\ \/ ~Running
     \/ Deadlocked
     \/ auth = "collected" /\ tsfn.state \in {"none", "finalized"}
  /\ UNCHANGED vars

Objects ==
  \/ NewAuthentication \/ DropAuthentication \/ CollectAuthentication
  \/ CloseTsfn \/ FinalizeTsfn \/ Proxy \/ HasNextReturns
  \/ \E c \in Clients : \/ NewClient(c) \/ CloseClient(c) \/ CollectClient(c)
                        \/ FreeClient(c) \/ ClientStopped(c)
  \/ \E t \in Threads : HasNext(t)

Supply(t) ==
  \/ Enter(t) \/ Acquire(t) \/ AcquireRefused(t) \/ UseDeletedSupplier(t)
  \/ BlockingCall(t) \/ Release(t) \/ Return(t) \/ SettlePromise(t)

Next == Objects \/ (\E t \in Threads : Supply(t)) \/ Terminated

\* The threads run, and the one that is to answer hasNext() does so once it is
\* not kept in TokenSupplier.  The program returns to the event loop again and
\* again, so that what waits there is not put off for ever by calls of
\* hasNext(); promises settle.
Fairness ==
  /\ SF_vars(Proxy) /\ SF_vars(CloseTsfn) /\ SF_vars(FinalizeTsfn)
  /\ SF_vars(HasNextReturns)
  /\ \A t \in Threads :
       /\ WF_vars(Acquire(t) \/ AcquireRefused(t) \/ UseDeletedSupplier(t))
       /\ SF_vars(BlockingCall(t))
       /\ WF_vars(Release(t)) /\ WF_vars(Return(t))
       /\ SF_vars(SettlePromise(t))

Spec == Init /\ [][Next]_vars /\ Fairness

-----------------------------------------------------------------------------
\* Properties.

Queues == {<<>>} \cup {<<t>> : t \in Threads}

\* Every variable has its type, and the queue holds one call at most.
TypeOK ==
  /\ kind \in {"none", "static", "supplier", "invalid"}
  /\ auth \in {"none", "alive", "collected"}
  /\ refs \subseteq Clients \cup {"program"}
  /\ tsfn \in [threads : Nat, queue : Queues, state : States]
  /\ object \in [Clients -> {"none", "alive", "collected"}]
  /\ client \in [Clients -> {"none", "open", "closing", "closed"}]
  /\ main \in Threads \cup {"loop"}
  /\ pc \in [Threads -> Steps]
  /\ supply \in [Threads -> Supplies]
  /\ returned \in [Threads -> {"none", "token", "empty", "junk"}]
  /\ fault \in {"none", "supplier"}

\* The threads between Acquire and Release.
Holders == {t \in Threads : pc[t] \in {"acquired", "pushed"}}

\* The threads whose proxy data is in the queue.
Queued == {tsfn.queue[i] : i \in DOMAIN tsfn.queue}

\* The proxy data is on the stack of a thread that waits: the main thread has
\* a pointer to it, in the queue or in a promise, only while its thread is in
\* TokenSupplier, and a thread that waits has one of them or its token.
DataOutlivesUse ==
  /\ Len(tsfn.queue) = Cardinality(Queued)
  /\ \A t \in Threads :
       (pc[t] \in {"pushed", "waiting"}) <=> (t \in Queued \/ supply[t] # "none")
  /\ \A t \in Queued : supply[t] = "none"

\* Whoever needs the supplier has it.  The holds on its function are the
\* Authentication's and one per thread between Acquire and Release, and while
\* there is one the function is open, whatever is collected meanwhile.  As long
\* as a Client object exists its threads find the supplier open, and none of
\* them got what an empty allocation happens to contain, whatever the program
\* and the other Clients that share the Authentication have dropped.
SupplierServesClients ==
  kind = "supplier" =>
    /\ tsfn.threads = Cardinality(Holders) + (IF auth = "alive" THEN 1 ELSE 0)
    /\ tsfn.threads > 0 => tsfn.state = "open"
    /\ \A c \in Clients : object[c] = "alive" =>
         /\ tsfn.state = "open"
         /\ \A t \in Threads : ClientOf[t] = c => returned[t] # "junk"

\* A thread that asks for a token returns, whatever the other threads wait for,
\* unless the supplier throws or rejects, or the main thread waits in hasNext()
\* for a thread that waits for a token.
TokenArrives ==
  \A t \in Threads :
    (pc[t] = "entered") ~>
      (pc[t] = "outside" \/ supply[t] = "never" \/ Deadlocked \/ ~Running)

\* hasNext() returns, also when it was called while the thread that is to answer
\* was in TokenSupplier and had its value, be it a string or not, unless that
\* very thread needs the main thread for its token or waits for one that never
\* comes.  What the other threads wait for makes no difference.
HasNextEnds ==
  \A t \in Threads : (main = t) ~> (main = "loop" \/ Deadlocked \/ ~Running)

\* The callback of a collected Authentication is deleted once its C++ clients
\* have stopped, also when threads are still in TokenSupplier then, and even
\* when one of them waits for a supplier that never answers, unless the main
\* thread waits for that one in hasNext().
SupplierReclaimed ==
  (/\ auth = "collected" /\ kind = "supplier"
   /\ \A c \in Clients : client[c] \in {"none", "closed"})
    ~> (Deleted \/ Deadlocked \/ ~Running)
=============================================================================
