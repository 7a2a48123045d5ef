--------------------------- MODULE MessageObjects ---------------------------
(***************************************************************************)
(* The JavaScript objects Message, MessageId and the Buffers of serialize, *)
(* and the objects of the C client behind them.  A JavaScript object has a *)
(* shared pointer with a deleter: one that frees, or one that does nothing *)
(* because the C object belongs to somebody else (the constants earliest   *)
(* and latest; the message of a send that is being routed).  A message for *)
(* a listener is shared with the thread that waits for the listener.  An   *)
(* object that the program made with new has no C object at all.           *)
(***************************************************************************)
EXTENDS Naturals, FiniteSets

CONSTANTS
  MaxObjects, \* how many JavaScript objects there are at a time
  MaxCells,   \* how many C objects there are in all (bounds for TLC)
  MaxBatch,   \* messages of one batchReceive
  Static,     \* the C object of earliest and latest
  Null        \* no C object

\* Places for JavaScript objects, which are used again, and for C objects; both
\* are taken in order, for nothing depends on which place is taken.
Objects == 1 .. MaxObjects
Cells == 1 .. MaxCells

\* What the constants have to be.
PlacesAssumption == /\ MaxObjects \in Nat /\ MaxCells \in Nat /\ MaxBatch \in Nat
                    /\ Static \notin Cells /\ Null \notin Cells /\ Null # Static

VARIABLES
  used,      \* how many C objects have been made
  live,      \* the C objects that exist
  class,     \* [Objects -> "none", "Message", "MessageId" or "Buffer"]
  cell,      \* [Objects -> its C object, Static or Null]
  deleter,   \* [Objects -> "free" or "nofree"]
  listening, \* the messages that a listener's thread shares
  batch,     \* the messages in a pulsar_messages_t
  routing,   \* the message of the send whose router runs, or Null
  last,      \* what the last use of an object gave: "none", "value", "null", "thrown"
  fault      \* "null" or "routed" once the client was given such a pointer,
             \* "freed" or "twice" once memory was used or freed after its free

heap == <<used, live>>
objects == <<class, cell, deleter>>
vars == <<heap, objects, listening, batch, routing, last, fault>>

Init ==
  /\ used = 0
  /\ live = {Static}
  /\ class = [o \in Objects |-> "none"]
  /\ cell = [o \in Objects |-> Null]
  /\ deleter = [o \in Objects |-> "free"]
  /\ listening = {} /\ batch = {} /\ routing = Null
  /\ last = "none" /\ fault = "none"

Running == fault = "none"
Fresh(n) == used + 1 .. used + n
NoObject == {o \in Objects : class[o] = "none"}

\* The client makes n C objects; a new JavaScript object o has C object c.
Allocate(n) ==
  /\ Fresh(n) \subseteq Cells
  /\ used' = used + n
  /\ live' = live \cup Fresh(n)
Wrap(o, cl, c, d) ==
  /\ o \in NoObject /\ \A p \in NoObject : o <= p
  /\ class' = [class EXCEPT ![o] = cl]
  /\ cell' = [cell EXCEPT ![o] = c]
  /\ deleter' = [deleter EXCEPT ![o] = d]

\* The messages of a batch get the first free places, in order.
FirstPlaces(f) ==
  /\ \A r, s \in batch : r < s => f[r] < f[s]
  /\ \A r \in batch, o \in NoObject : o < f[r] => \E s \in batch : f[s] = o

-----------------------------------------------------------------------------
\* Slips of the kind that the properties below are there to catch; no action
\* of the specification uses them.

\* Earliest and latest with a deleter like any other id.
FreeStatic(o) ==
  /\ Running
  /\ Wrap(o, "MessageId", Static, "free")
  /\ UNCHANGED <<heap, listening, batch, routing, last, fault>>

\* Messages of a batch that are not copied.
WrapBatchAsItIs ==
  /\ Running /\ batch # {}
  /\ \E f \in [batch -> NoObject] :
       /\ FirstPlaces(f)
       /\ class' = [o \in Objects |-> IF \E r \in batch : f[r] = o THEN "Message" ELSE class[o]]
       /\ cell' = [o \in Objects |->
            IF \E r \in batch : f[r] = o THEN CHOOSE r \in batch : f[r] = o ELSE cell[o]]
  /\ live' = live \ batch
  /\ batch' = {}
  /\ UNCHANGED <<used, deleter, listening, routing, last, fault>>

-----------------------------------------------------------------------------
\* Objects come into being.

\* new Message(), new MessageId() in the program.
New(o) ==
  /\ Running
  /\ \E cl \in {"Message", "MessageId"} : Wrap(o, cl, Null, "free")
  /\ UNCHANGED <<heap, listening, batch, routing, last, fault>>

\* receive() and readNext() hand over the client's message.
Receive(o) ==
  /\ Running
  /\ Allocate(1) /\ Wrap(o, "Message", used + 1, "free")
  /\ UNCHANGED <<listening, batch, routing, last, fault>>

\* The client answers batchReceive() with a pulsar_messages_t.
BatchArrives ==
  /\ Running /\ batch = {}
  /\ \E n \in 1 .. MaxBatch : Allocate(n) /\ batch' = Fresh(n)
  /\ UNCHANGED <<objects, listening, routing, last, fault>>

\* A message of the batch is the n-th; its copy is the n-th of the fresh cells.
Copy(r) == used + Cardinality({s \in batch : s <= r})

\* The promise of batchReceive() is resolved with copies of the messages, and
\* the pulsar_messages_t is freed with its own.
WrapBatch ==
  /\ Running /\ batch # {}
  /\ LET copies == Fresh(Cardinality(batch)) IN
       /\ copies \subseteq Cells
       /\ used' = used + Cardinality(batch)
       /\ live' = (live \ batch) \cup copies
  /\ \E f \in [batch -> NoObject] :
       /\ FirstPlaces(f)
       /\ class' = [o \in Objects |-> IF \E r \in batch : f[r] = o THEN "Message" ELSE class[o]]
       /\ cell' = [o \in Objects |->
            IF \E r \in batch : f[r] = o THEN Copy(CHOOSE r \in batch : f[r] = o) ELSE cell[o]]
  /\ batch' = {}
  /\ UNCHANGED <<deleter, listening, routing, last, fault>>

\* A thread of the client delivers a message to a listener ...
Deliver ==
  /\ Running
  /\ Allocate(1) /\ listening' = listening \cup {used + 1}
  /\ UNCHANGED <<objects, batch, routing, last, fault>>

\* ... the proxy wraps it for JavaScript ...
WrapDelivered(o) ==
  /\ Running
  /\ \E c \in listening :
       /\ \A p \in Objects : cell[p] # c
       /\ Wrap(o, "Message", c, "free")
  /\ UNCHANGED <<heap, listening, batch, routing, last, fault>>

\* ... and the thread goes on, having been called back or not been let in.
Delivered ==
  /\ Running
  /\ \E c \in listening :
       /\ listening' = listening \ {c}
       /\ live' = IF \E o \in Objects : cell[o] = c THEN live ELSE live \ {c}
  /\ UNCHANGED <<used, objects, batch, routing, last, fault>>

\* choosePartition wraps the message of the send for the router.
Route(o) ==
  /\ Running /\ routing = Null
  /\ Allocate(1) /\ Wrap(o, "Message", used + 1, "nofree")
  /\ routing' = used + 1
  /\ UNCHANGED <<listening, batch, last, fault>>

\* The router returns, and the client goes on with what it wrapped.
Routed ==
  /\ Running /\ routing # Null
  /\ live' = live \ {routing}
  /\ routing' = Null
  /\ UNCHANGED <<used, objects, listening, batch, last, fault>>

\* The promise of send() is resolved with the id that the client made for it,
\* or an id is read from a Buffer.
NewId(o) ==
  /\ Running
  /\ Allocate(1) /\ Wrap(o, "MessageId", used + 1, "free")
  /\ UNCHANGED <<listening, batch, routing, last, fault>>

EarliestOrLatest(o) ==
  /\ Running
  /\ Wrap(o, "MessageId", Static, "nofree")
  /\ UNCHANGED <<heap, listening, batch, routing, last, fault>>

-----------------------------------------------------------------------------
\* Objects are used.

\* What the client finds behind the pointer of o.
Bad(o) ==
  IF cell[o] = Null THEN "null"
  ELSE IF cell[o] \in live THEN "none"
  ELSE IF deleter[o] = "nofree" THEN "routed" ELSE "freed"

\* message.getMessageId() makes an id of its own.
GetMessageId(o, i) ==
  /\ Running /\ class[o] = "Message" /\ cell[o] \in live
  /\ Allocate(1) /\ Wrap(i, "MessageId", used + 1, "free")
  /\ UNCHANGED <<listening, batch, routing, last, fault>>

\* The other accessors of Message: one without a C object throws.
Read(o) ==
  /\ Running /\ class[o] = "Message"
  /\ last' = IF cell[o] = Null THEN "thrown" ELSE "value"
  /\ fault' = IF cell[o] = Null THEN fault ELSE Bad(o)
  /\ UNCHANGED <<heap, objects, listening, batch, routing>>

\* getLongSchemaVersion() and getEncryptionContext(), where there may be none.
ReadOptional(o) ==
  /\ Running /\ class[o] = "Message"
  /\ last' \in IF cell[o] = Null THEN {"thrown"} ELSE {"value", "null"}
  /\ fault' = IF cell[o] = Null THEN fault ELSE Bad(o)
  /\ UNCHANGED <<heap, objects, listening, batch, routing>>

\* Acknowledgements, negative or not, give the client the pointer of a Message
\* or a MessageId as it is; so do seek(), startMessageId and toString().
GiveToClient(o) ==
  /\ Running /\ class[o] \in {"Message", "MessageId"}
  /\ last' = "value"
  /\ fault' = Bad(o)
  /\ UNCHANGED <<heap, objects, listening, batch, routing>>

\* serialize() returns memory of the client, which the Buffer's finalizer frees.
Serialize(i, b) ==
  /\ Running /\ class[i] = "MessageId" /\ cell[i] \in live
  /\ Allocate(1) /\ Wrap(b, "Buffer", used + 1, "free")
  /\ UNCHANGED <<listening, batch, routing, last, fault>>

\* The object is collected; its shared pointer may be the last.
Collect(o) ==
  LET c == cell[o]
      frees == c # Null /\ deleter[o] = "free" /\ c \notin listening
  IN
  /\ Running /\ class[o] # "none"
  /\ live' = IF frees THEN live \ {c} ELSE live
  /\ fault' = IF frees /\ c \notin live THEN "twice" ELSE fault
  /\ class' = [class EXCEPT ![o] = "none"]
  /\ cell' = [cell EXCEPT ![o] = Null]
  /\ deleter' = [deleter EXCEPT ![o] = "free"]
  /\ UNCHANGED <<used, listening, batch, routing, last>>

-----------------------------------------------------------------------------
Use(o) == Read(o) \/ ReadOptional(o) \/ GiveToClient(o) \/ Collect(o)
Make(o) ==
  \/ New(o) \/ Receive(o) \/ WrapDelivered(o) \/ Route(o) \/ NewId(o)
  \/ EarliestOrLatest(o)
  \/ \E p \in Objects : GetMessageId(p, o) \/ Serialize(p, o)

Terminated == ~Running /\ UNCHANGED vars

Next ==
  \/ \E o \in Objects : Use(o) \/ Make(o)
  \/ BatchArrives \/ WrapBatch \/ Deliver \/ Delivered \/ Routed
  \/ Terminated

Spec == Init /\ [][Next]_vars

-----------------------------------------------------------------------------
\* Properties.

\* Every Message, MessageId and Buffer that the client made can be used for as
\* long as the program has it, whatever else was collected, freed with its
\* batch or returned from a listener meanwhile.  The exception is a Message
\* that a router was given and kept.  The only other pointer that can do harm
\* is the missing one of an object the program made itself.
ClientObjectsUsable ==
  /\ \A o \in Objects :
       class[o] # "none" => cell[o] = Null \/ cell[o] \in live
                              \/ (class[o] = "Message" /\ deleter[o] = "nofree")
  /\ fault \in {"none", "null", "routed"}

\* A C object exists exactly as long as somebody has it: none leaks and none is
\* freed twice.
LiveIffOwned ==
  live = {Static} \cup listening \cup batch \cup ({routing} \ {Null})
           \cup {cell[o] : o \in {p \in Objects : deleter[p] = "free" /\ cell[p] # Null}}
=============================================================================
