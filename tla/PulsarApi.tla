------------------------------ MODULE PulsarApi ------------------------------
(***************************************************************************)
(* The contract of each asynchronous method that the binding exports, as   *)
(* its source states it: how the method may leave before it asks the C++   *)
(* client for anything, which answers of the client it resolves its        *)
(* promise on, and with what.  Every method here is built on               *)
(* ThreadSafeDeferred, which is specified in the module of that name.      *)
(*                                                                         *)
(*   entry     how the call may begin: "refuse" throws before the deferred *)
(*             is made, "throw" throws after, "reject" rejects it on the   *)
(*             main thread, "issue" calls the asynchronous function of the *)
(*             client;                                                     *)
(*   answers   what the client may call back with;                         *)
(*   resolves  the answers that resolve the promise (others reject it);    *)
(*   value     what it is resolved with;                                   *)
(*   prompt    "yes" if the client answers in bounded time whatever the    *)
(*             broker does (its operation timeout), "no" if it may wait    *)
(*             for a message for ever.                                     *)
(***************************************************************************)

Plain(value) == [entry |-> {"issue"}, answers |-> {"ok", "error"},
                 resolves |-> {"ok"}, value |-> value, prompt |-> "yes"]

\* A method whose argument is unwrapped or built before the deferred is made.
Checked(value) == [Plain(value) EXCEPT !.entry = {"issue", "refuse"}]

\* Client
GetPartitionsForTopic == [Checked("partitions") EXCEPT !.answers = @ \cup {"no list"}]
GetSchemaInfo == [Checked("schemaInfo") EXCEPT !.answers = @ \cup {"unsupported"}]
ClientClose == Plain("null")
CreateProducer == [Plain("producer") EXCEPT !.entry = {"issue", "reject", "throw"}]
Subscribe == [Plain("consumer") EXCEPT !.entry = {"issue", "reject", "throw"}]
CreateReader == [Plain("reader") EXCEPT !.entry = {"issue", "reject", "throw"}]

\* Producer
Send == Checked("messageId")
Flush == Plain("null")
ProducerClose == Plain("null")

\* Consumer
BatchReceive == [Plain("messages") EXCEPT !.prompt = "no"]
Receive == [Plain("message") EXCEPT !.prompt = "no"]
Acknowledge == Checked("null")
AcknowledgeId == Checked("null")
AcknowledgeCumulative == Checked("null")
AcknowledgeCumulativeId == Checked("null")
ConsumerSeek == Checked("null")
ConsumerSeekTimestamp == Checked("null")
Unsubscribe == Plain("null")
ConsumerClose == Plain("null")

\* Reader
ReaderSeek == Checked("null")
ReaderSeekTimestamp == Checked("null")
ReaderClose == Plain("null")

AllMethods ==
  {GetPartitionsForTopic, GetSchemaInfo, ClientClose, CreateProducer, Subscribe,
   CreateReader, Send, Flush, ProducerClose, BatchReceive, Receive, Acknowledge,
   AcknowledgeId, AcknowledgeCumulative, AcknowledgeCumulativeId, ConsumerSeek,
   ConsumerSeekTimestamp, Unsubscribe, ConsumerClose, ReaderSeek,
   ReaderSeekTimestamp, ReaderClose}

\* How a method's promise must end when the client answers a; "invalid" is
\* the binding's own answer to a configuration that it rejects.
Settlement(m, a) ==
  IF a \in m.resolves THEN [state |-> "resolved", value |-> m.value]
                      ELSE [state |-> "rejected", value |-> a]
=============================================================================
