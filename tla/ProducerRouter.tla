--------------------------- MODULE ProducerRouter ---------------------------
(***************************************************************************)
(* A producer with a messageRouter, from createProducer to its end.  The   *)
(* C++ producer keeps a plain pointer to the reference of the JavaScript   *)
(* router inside the ProducerConfig, so that somebody has to keep the      *)
(* ProducerConfig for it: in turn the method, the context of the call, the *)
(* client's callback, the value that waits in the deferred, and in the end *)
(* the Producer.                                                           *)
(*                                                                         *)
(* The router runs inside send(), on the main thread, and may itself send  *)
(* or close.                                                               *)
(***************************************************************************)
EXTENDS JsNumbers, Sequences

CONSTANTS
  Sends,          \* the calls of send()
  NumPartitions,  \* of the topic
  Answers         \* what the router may return: numbers and NaN (no number)

\* What the constants have to be.
PartitionsAssumption == NumPartitions \in 1 .. MaxOf(W32) /\ Answers \subseteq Numbers

VARIABLES
  method,    \* Producer::NewInstance: "none", "running" or "returned"
  callback,  \* the callback of the creation: "none", "pending", "running", "returned"
  answerer,  \* the thread it runs on: "none", "main" or "client"
  fate,      \* of the deferred: "none", "resolved" or "rejected"
  self,      \* whether the deferred keeps itself
  producer,  \* the Producer: "none", "alive" or "collected"
  router,    \* the reference of the router: "none", "held", "freed", "misfreed"
  open,      \* whether close() has not been called
  stack,     \* the sends that are being routed, the innermost last
  sends,     \* [Sends -> "idle", "routing", "accepted", "sent" or "failed"]
  asked,     \* [Sends -> what its router returned]
  threw,     \* the sends whose router threw
  target,    \* [Sends -> the partition the message goes to]
  fault      \* "router" once the client called a router that was freed

creation == <<method, callback, answerer, fate, self>>
sending == <<open, stack, sends, asked, threw, target, fault>>
vars == <<creation, producer, router, sending>>

Init ==
  /\ method = "none" /\ callback = "none" /\ answerer = "none"
  /\ fate = "none" /\ self = FALSE
  /\ producer = "none" /\ router = "none"
  /\ open = TRUE
  /\ stack = <<>>
  /\ sends = [m \in Sends |-> "idle"]
  /\ asked = [m \in Sends |-> 0]
  /\ threw = {}
  /\ target = [m \in Sends |-> 0]
  /\ fault = "none"

\* The main thread is in its event loop.
InLoop == method # "running" /\ stack = <<>>

-----------------------------------------------------------------------------
\* Slips of the kind that the properties below are there to catch; no action
\* of the specification uses them.

\* A Producer without the ProducerConfig.
ForgetConfig == FALSE

\* An exception of the router taken for the first partition.
FirstOnError(n, failed) == IF failed THEN 0 ELSE Int32Value(n)

\* A callback that does not delete its context.
KeepContext == callback # "none"

-----------------------------------------------------------------------------
\* Who has the deferred, and who has the ProducerConfig.

ContextHeld == callback \in {"pending", "running"}
DeferredHeld == method = "running" \/ ContextHeld \/ self
ProducerHolds == producer = "alive"
ConfigHeld ==
  \/ method = "running"
  \/ ContextHeld
  \/ fate = "resolved" /\ DeferredHeld
  \/ ProducerHolds

\* ~ProducerConfig deletes the router's reference on the thread that drops it.
Drop(place) ==
  router' = IF router # "held" \/ ConfigHeld' THEN router
            ELSE IF place = "main" THEN "freed" ELSE "misfreed"

-----------------------------------------------------------------------------
\* createProducer.

\* The router counts if the routing mode is CustomPartition and it is a function.
RouterSet(custom, function) == IF custom /\ function THEN "held" ELSE "none"

\* The ProducerConfig is read; without a topic the promise is rejected and the
\* client is not asked.
NewInstance ==
  /\ method = "none"
  /\ method' = "running"
  /\ \E custom, function \in BOOLEAN :
       router' = RouterSet(custom, function)
  /\ self' = TRUE
  /\ \E topic \in BOOLEAN :
       /\ callback' = IF topic THEN "pending" ELSE "none"
       /\ fate' = IF topic THEN "none" ELSE "rejected"
  /\ UNCHANGED <<answerer, producer, sending>>

MethodReturns ==
  /\ method = "running" /\ ~(callback = "running" /\ answerer = "main")
  /\ method' = "returned"
  /\ UNCHANGED <<callback, answerer, fate, self, producer, sending>>
  /\ Drop("main")

\* The client answers from a thread of its own, or at once.
Answer ==
  /\ callback = "pending"
  /\ callback' = "running"
  /\ answerer' \in IF method = "running" THEN {"main", "client"} ELSE {"client"}
  /\ fate' \in {"resolved", "rejected"}
  /\ UNCHANGED <<method, self, producer, router, sending>>

CallbackReturns ==
  /\ callback = "running"
  /\ callback' = "returned"
  /\ UNCHANGED <<method, answerer, fate, self, producer, sending>>
  /\ Drop(answerer)

\* The finalizer of the deferred: a resolved one makes the Producer.
Settle ==
  /\ InLoop /\ self /\ fate # "none"
  /\ self' = FALSE
  /\ producer' = IF fate = "resolved" THEN "alive" ELSE producer
  /\ UNCHANGED <<method, callback, answerer, fate, sending>>
  /\ Drop("main")

\* The program has dropped the Producer.
Collect ==
  /\ InLoop /\ producer = "alive"
  /\ producer' = "collected"
  /\ UNCHANGED <<creation, sending>>
  /\ Drop("main")

-----------------------------------------------------------------------------
\* send() and close(), from the event loop or from inside a router.

Close ==
  /\ method # "running" /\ producer = "alive" /\ open
  /\ open' = FALSE
  /\ UNCHANGED <<creation, producer, router, stack, sends, asked, threw, target, fault>>

\* The client calls the router.
Send(m) ==
  /\ method # "running" /\ producer = "alive" /\ sends[m] = "idle"
  /\ open /\ router # "none"
  /\ sends' = [sends EXCEPT ![m] = "routing"]
  /\ stack' = Append(stack, m)
  /\ fault' = IF router = "held" THEN fault ELSE "router"
  /\ UNCHANGED <<creation, producer, router, open, asked, threw, target>>

\* Without a router the client chooses the partition; a producer that is closed
\* takes no message.
SendUnrouted(m) ==
  /\ method # "running" /\ producer = "alive" /\ sends[m] = "idle"
  /\ ~open \/ router = "none"
  /\ sends' = [sends EXCEPT ![m] = IF open THEN "accepted" ELSE "failed"]
  /\ UNCHANGED <<creation, producer, router, open, stack, asked, threw, target, fault>>

\* An exception of the router becomes a partition that does not exist.
ChoosePartition(n, failed) == IF failed THEN NumPartitions ELSE Int32Value(n)

\* The client refuses a partition that the topic does not have.
Accepts(partition) == partition \in 0 .. NumPartitions - 1

RouterReturns(n, failed) ==
  LET m == stack[Len(stack)]
      partition == ChoosePartition(n, failed)
  IN
  /\ stack' = SubSeq(stack, 1, Len(stack) - 1)
  /\ asked' = [asked EXCEPT ![m] = n]
  /\ threw' = IF failed THEN threw \cup {m} ELSE threw
  /\ IF Accepts(partition)
       THEN /\ sends' = [sends EXCEPT ![m] = "accepted"]
            /\ target' = [target EXCEPT ![m] = partition]
       ELSE /\ sends' = [sends EXCEPT ![m] = "failed"]
            /\ UNCHANGED target
  /\ UNCHANGED <<creation, producer, router, open, fault>>

\* The client answers the send, whatever became of the Producer.
SendAnswered(m) ==
  /\ sends[m] = "accepted"
  /\ \E s \in {"sent", "failed"} : sends' = [sends EXCEPT ![m] = s]
  /\ UNCHANGED <<creation, producer, router, open, stack, asked, threw, target, fault>>

-----------------------------------------------------------------------------
\* Nothing is left to happen.
Terminated ==
  /\ ~self /\ method = "returned" /\ callback \in {"none", "returned"}
  /\ producer # "alive"
  /\ \A m \in Sends : sends[m] # "accepted"
  /\ UNCHANGED vars

Route ==
  /\ stack # <<>>
  /\ \/ \E n \in Answers : RouterReturns(n, FALSE)
     \/ RouterReturns(0, TRUE)

Next ==
  \/ NewInstance \/ MethodReturns \/ Answer \/ CallbackReturns \/ Settle
  \/ Collect \/ Close \/ Route
  \/ \E m \in Sends : Send(m) \/ SendUnrouted(m) \/ SendAnswered(m)
  \/ Terminated

Spec == Init /\ [][Next]_vars

-----------------------------------------------------------------------------
\* Properties.

\* The router is there as long as the client may call it and no longer, while
\* its ProducerConfig goes from the context to the callback, to the deferred and
\* to the Producer, and however deep sends and routers are nested.  A creation
\* that failed, on whichever thread, and a Producer that was collected leave no
\* router behind.
RouterLivesAsProducer ==
  /\ (fate = "resolved" /\ producer # "collected") => router \in {"held", "none"}
  /\ stack # <<>> => router = "held" /\ producer = "alive"
  /\ fault = "none"
  /\ /\ method = "returned" /\ callback \in {"none", "returned"}
     /\ ~self /\ producer # "alive"
     => router # "held"

\* A message goes to the partition that its own router call named, and to none
\* if that call threw, also when it is sent from inside the router of another.
RoutedAsAsked ==
  \A m \in Sends :
    router # "none" /\ sends[m] \in {"accepted", "sent"} =>
      /\ m \notin threw
      /\ asked[m] \in 0 .. NumPartitions - 1 => target[m] = asked[m]
=============================================================================
