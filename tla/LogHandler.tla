------------------------------ MODULE LogHandler ------------------------------
(***************************************************************************)
(* The log handler of the process.  Every client logs through one static   *)
(* pointer, Client::logCallback, to a LogCallback that contains the        *)
(* thread-safe function of the current handler.  JavaScript installs,      *)
(* replaces and removes the handler on the main thread; the threads of the *)
(* C++ clients read the pointer once and its field three times (Acquire,   *)
(* BlockingCall, Release), and no lock orders the two.                     *)
(*                                                                         *)
(* A use of a LogCallback or of a function that is not there any more, or  *)
(* not there yet, is recorded in fault; the behaviour is followed no       *)
(* further.                                                                *)
(***************************************************************************)
EXTENDS ThreadSafeFunction, FiniteSets

CONSTANTS
  Threads,      \* threads of the C++ clients
  MaxInstalls,  \* how many handlers the program installs in all
  MaxMessages   \* how many messages the clients log in all (a bound for TLC)

ASSUME LogAssumption == /\ IsFiniteSet(Threads)
                        /\ MaxInstalls \in Nat \ {0}
                        /\ MaxMessages \in Nat

Handlers == 1 .. MaxInstalls

VARIABLES
  pointer,   \* Client::logCallback: 0, or the LogCallback it points to
  field,     \* [Handlers -> the function in that LogCallback, 0 if empty]
  deleted,   \* the LogCallbacks that were deleted
  tsfn,      \* [Handlers -> thread-safe function]
  count,     \* how many handlers were installed
  main,      \* the main thread: "loop", "assign", "delete" or "clear"
  clients,   \* "no" before the first client exists
  pc,        \* [Threads -> where in LogMessage the thread is]
  mine,      \* [Threads -> the LogCallback that the thread has read]
  messages,  \* how many messages were logged
  overlap,   \* history: setLogHandler and LogMessage ran at the same time
  fault

handler == <<pointer, field, deleted, tsfn, count, main>>
threads == <<pc, mine, messages>>
vars == <<handler, clients, threads, overlap, fault>>

Running == fault = "none"

Init ==
  /\ pointer = 0
  /\ field = [h \in Handlers |-> 0]
  /\ deleted = {}
  /\ tsfn = [h \in Handlers |-> Absent]
  /\ count = 0
  /\ main = "loop"
  /\ clients = "no"
  /\ pc = [t \in Threads |-> "outside"]
  /\ mine = [t \in Threads |-> 0]
  /\ messages = 0
  /\ overlap = FALSE
  /\ fault = "none"

\* The function that t finds in its LogCallback now, and whether it is there.
Function(t) == field[mine[t]]
Usable(t) == /\ mine[t] \notin deleted
             /\ Function(t) # 0
             /\ tsfn[Function(t)].state # "finalized"

Inside == {t \in Threads : pc[t] # "outside"}
Holders == {t \in Threads : pc[t] \in {"acquired", "pushed"}}

\* A step of setLogHandler overlaps the calls of LogMessage that have begun.
NoteOverlap == overlap' = (overlap \/ Inside # {})

-----------------------------------------------------------------------------
\* Slips of the kind that the properties below are there to catch; no action
\* of the specification uses them.

\* LogMessage that releases the function it never acquired.
NoAcquire(t) ==
  /\ Running /\ pc[t] = "read" /\ Usable(t) /\ CanAcquire(tsfn[Function(t)])
  /\ pc' = [pc EXCEPT ![t] = "acquired"]
  /\ UNCHANGED <<handler, clients, mine, messages, overlap, fault>>

\* setLogHandler that overwrites the old function without giving it up.
ForgetOldFunction ==
  /\ tsfn' = [tsfn EXCEPT ![count + 1] = Created(1)]
  /\ pointer' = IF pointer = 0 THEN count + 1 ELSE pointer

-----------------------------------------------------------------------------
\* The main thread.

\* The first client of the process is constructed; its threads may log.
NewClient ==
  /\ Running /\ main = "loop" /\ clients = "no"
  /\ clients' = "yes"
  /\ UNCHANGED <<handler, threads, overlap, fault>>

\* A new function; the old one is given up, or a LogCallback is published
\* while its field is still empty.
ReplaceFunction ==
  /\ tsfn' = [h \in Handlers |->
                CASE h = count + 1 -> Created(1)
                  [] pointer # 0 /\ h = field[pointer] -> Released(tsfn[h])
                  [] OTHER -> tsfn[h]]
  /\ pointer' = IF pointer = 0 THEN count + 1 ELSE pointer

\* setLogHandler(function), and the constructor's log option.
SetLogHandler ==
  /\ Running /\ main = "loop" /\ count < MaxInstalls
  /\ ReplaceFunction
  /\ count' = count + 1
  /\ main' = "assign"
  /\ NoteOverlap
  /\ UNCHANGED <<field, deleted, clients, threads, fault>>

\* Client::logCallback->callback = std::move(logFunction)
AssignFunction ==
  /\ Running /\ main = "assign"
  /\ field' = [field EXCEPT ![pointer] = count]
  /\ main' = "loop"
  /\ NoteOverlap
  /\ UNCHANGED <<pointer, deleted, tsfn, count, clients, threads, fault>>

\* setLogHandler(null): release, delete, clear the pointer, in this order.
ReleaseHandler ==
  /\ Running /\ main = "loop" /\ pointer # 0
  /\ tsfn' = [tsfn EXCEPT ![field[pointer]] = Released(@)]
  /\ main' = "delete"
  /\ NoteOverlap
  /\ UNCHANGED <<pointer, field, deleted, count, clients, threads, fault>>

DeleteCallback ==
  /\ Running /\ main = "delete"
  /\ deleted' = deleted \cup {pointer}
  /\ main' = "clear"
  /\ NoteOverlap
  /\ UNCHANGED <<pointer, field, tsfn, count, clients, threads, fault>>

ClearPointer ==
  /\ Running /\ main = "clear"
  /\ pointer' = 0
  /\ main' = "loop"
  /\ NoteOverlap
  /\ UNCHANGED <<field, deleted, tsfn, count, clients, threads, fault>>

\* LogMessageProxy calls the handler with one message.
Dispatch(h) ==
  /\ Running /\ main = "loop" /\ CanDispatch(tsfn[h])
  /\ tsfn' = [tsfn EXCEPT ![h] = Dispatched(@)]
  /\ UNCHANGED <<pointer, field, deleted, count, main, clients, threads, overlap, fault>>

CloseTsfn(h) ==
  /\ Running /\ main = "loop" /\ CanClose(tsfn[h])
  /\ tsfn' = [tsfn EXCEPT ![h] = Closing(@)]
  /\ UNCHANGED <<pointer, field, deleted, count, main, clients, threads, overlap, fault>>

FinalizeTsfn(h) ==
  /\ Running /\ main = "loop" /\ CanFinalize(tsfn[h])
  /\ tsfn' = [tsfn EXCEPT ![h] = Finalized(@)]
  /\ UNCHANGED <<pointer, field, deleted, count, main, clients, threads, overlap, fault>>

-----------------------------------------------------------------------------
\* Client::LogMessage, on a thread t of a client.

\* The only read of the static pointer; a message is dropped if it is null.
LogMessage(t) ==
  /\ Running /\ pc[t] = "outside" /\ clients = "yes" /\ pointer # 0
  /\ messages < MaxMessages
  /\ messages' = messages + 1
  /\ pc' = [pc EXCEPT ![t] = "read"]
  /\ mine' = [mine EXCEPT ![t] = pointer]
  /\ overlap' = (overlap \/ main # "loop")
  /\ UNCHANGED <<handler, clients, fault>>

Acquire(t) ==
  /\ Running /\ pc[t] = "read" /\ Usable(t) /\ CanAcquire(tsfn[Function(t)])
  /\ tsfn' = [tsfn EXCEPT ![Function(t)] = Acquired(@)]
  /\ pc' = [pc EXCEPT ![t] = "acquired"]
  /\ UNCHANGED <<pointer, field, deleted, count, main, clients, mine, messages,
                 overlap, fault>>

AcquireRefused(t) ==
  /\ Running /\ pc[t] = "read" /\ Usable(t) /\ ~CanAcquire(tsfn[Function(t)])
  /\ pc' = [pc EXCEPT ![t] = "outside"]
  /\ mine' = [mine EXCEPT ![t] = 0]
  /\ UNCHANGED <<handler, clients, messages, overlap, fault>>

\* The queue is not bounded; a function that closes refuses, and the message
\* is lost.
BlockingCall(t) ==
  /\ Running /\ pc[t] = "acquired" /\ Usable(t)
  /\ tsfn' = IF tsfn[Function(t)].state = "open"
             THEN [tsfn EXCEPT ![Function(t)] = Pushed(@, t)] ELSE tsfn
  /\ pc' = [pc EXCEPT ![t] = "pushed"]
  /\ UNCHANGED <<pointer, field, deleted, count, main, clients, mine, messages,
                 overlap, fault>>

Release(t) ==
  /\ Running /\ pc[t] = "pushed" /\ Usable(t)
  /\ tsfn' = [tsfn EXCEPT ![Function(t)] = Released(@)]
  /\ pc' = [pc EXCEPT ![t] = "outside"]
  /\ mine' = [mine EXCEPT ![t] = 0]
  /\ UNCHANGED <<pointer, field, deleted, count, main, clients, messages, overlap, fault>>

\* The thread finds its LogCallback deleted, empty, or its function freed.
UseDeleted(t) ==
  /\ Running /\ pc[t] # "outside" /\ ~Usable(t)
  /\ fault' = "used"
  /\ UNCHANGED <<handler, clients, threads, overlap>>

\* No handler is left to install and none is there.
Terminated ==
  /\ ~Running \/ (count = MaxInstalls /\ pointer = 0)
  /\ UNCHANGED vars

Logging(t) ==
  \/ Acquire(t) \/ AcquireRefused(t) \/ BlockingCall(t) \/ Release(t)
  \/ UseDeleted(t)

Handling ==
  \/ NewClient \/ SetLogHandler \/ AssignFunction
  \/ ReleaseHandler \/ DeleteCallback \/ ClearPointer
  \/ \E h \in Handlers : Dispatch(h) \/ CloseTsfn(h) \/ FinalizeTsfn(h)

Next == Handling \/ Terminated \/ \E t \in Threads : LogMessage(t) \/ Logging(t)

\* The event loop runs, and a call of LogMessage or setLogHandler that has
\* begun goes on.
Fairness ==
  /\ WF_vars(AssignFunction) /\ WF_vars(DeleteCallback) /\ WF_vars(ClearPointer)
  /\ \A h \in Handlers : /\ SF_vars(Dispatch(h))
                         /\ SF_vars(CloseTsfn(h)) /\ SF_vars(FinalizeTsfn(h))
  /\ \A t \in Threads : WF_vars(Logging(t))

Spec == Init /\ [][Next]_vars /\ Fairness

-----------------------------------------------------------------------------
\* Properties.

\* Every variable has its type.
TypeOK ==
  /\ pointer \in {0} \cup Handlers
  /\ field \in [Handlers -> {0} \cup Handlers]
  /\ deleted \subseteq Handlers
  /\ tsfn \in [Handlers -> [threads : Nat, queue : Seq(Threads), state : States]]
  /\ count \in 0 .. MaxInstalls
  /\ main \in {"loop", "assign", "delete", "clear"}
  /\ clients \in {"no", "yes"}
  /\ pc \in [Threads -> {"outside", "read", "acquired", "pushed"}]
  /\ mine \in [Threads -> {0} \cup Handlers]
  /\ messages \in 0 .. MaxMessages
  /\ overlap \in BOOLEAN
  /\ fault \in {"none", "used"}

\* As long as setLogHandler never ran while a thread was in LogMessage, every
\* thread in LogMessage finds the installed function, open, and the holds on
\* that function are its own and one for each thread that acquired it: the
\* three reads of the field in LogMessage then see one function.
QuietHandlerBalanced ==
  ~overlap => /\ Running
              /\ \A t \in Inside : mine[t] = pointer
              /\ main = "loop" /\ pointer # 0 =>
                   /\ pointer \notin deleted
                   /\ tsfn[field[pointer]].state = "open"
                   /\ tsfn[field[pointer]].threads = 1 + Cardinality(Holders)

\* As long as there is no overlap, a function that was replaced or removed is
\* finalized in the end: setLogHandler and LogMessage together give up every
\* hold on it.
RetiredHandlerReclaimed ==
  \A h \in Handlers :
    (h < count \/ (h = count /\ pointer = 0)) ~> (overlap \/ tsfn[h].state = "finalized")

\* What tests/end_to_end.test.js does: a program with a client installs a
\* handler, and what the client logs reaches it.  No thread of the client may
\* find the handler unusable.
InstalledHandlerReached ==
  /\ Running
  /\ main = "loop" /\ pointer # 0 => tsfn[field[pointer]].state = "open"
=============================================================================
