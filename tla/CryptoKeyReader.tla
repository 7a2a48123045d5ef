--------------------------- MODULE CryptoKeyReader ---------------------------
(***************************************************************************)
(* The CryptoKeyReaderWrapper that a configuration makes of a JavaScript   *)
(* CryptoKeyReader.  The C++ producer or consumer asks it for keys: on the *)
(* main thread, from inside send(), it calls the JavaScript method at      *)
(* once; on a thread of the client it pushes a call and waits until the    *)
(* main thread has run it.  Unlike the listeners, a thread that calls has  *)
(* no hold of its own on the thread-safe function: it relies on the one of *)
(* the wrapper, which is given up when the last owner drops the wrapper.   *)
(*                                                                         *)
(* The main thread may itself wait for the client, in hasNext() or in a    *)
(* send() on a full queue with blockIfQueueFull.  What ends that wait is   *)
(* done on one thread, that of the reader's or producer's connection.      *)
(***************************************************************************)
EXTENDS ThreadSafeFunction, FiniteSets

CONSTANT Threads   \* the threads of the client that encrypt or decrypt

ASSUME ThreadsAssumption == IsFiniteSet(Threads) /\ {"main", "none"} \cap Threads = {}

Callers == Threads \cup {"main"}

VARIABLES
  owners,    \* who has the wrapper: the C configuration ("config"), the C++
             \* producer or consumer ("client")
  ref,       \* jsObject_: "none", "held", "freed", or "misfreed" when another
             \* than the main thread deleted it
  tsfn,      \* tsfn_
  pc,        \* [Callers -> where the thread is]
  awaits,    \* the thread whose answer the main thread waits for, or "none"
  answer,    \* [Threads -> the result in the promise of its call]
  returned,  \* [Callers -> what its last executeCallback returned]
  fault      \* "wrapper" once a deleted wrapper was used

vars == <<owners, ref, tsfn, pc, awaits, answer, returned, fault>>

\* "blocked" is the main thread's wait for the client.
Steps == {"outside", "inside", "waiting", "blocked"}
InLoop == pc["main"] = "outside"

\* What a key method may do: not be there or not be a function, throw, return
\* no object, one with a Buffer as key or one without (a promise, say); or the
\* look-up of the method itself throws, which nothing catches.
Behaviours == {"missing", "throws", "primitive", "keyed", "keyless", "escapes"}
Results == {"key", "empty", "error"}

Init ==
  /\ owners = {}
  /\ ref = "none"
  /\ tsfn = Absent
  /\ pc = [t \in Callers |-> "outside"]
  /\ awaits = "none"
  /\ answer = [t \in Threads |-> "none"]
  /\ returned = [t \in Callers |-> "none"]
  /\ fault = "none"

-----------------------------------------------------------------------------
\* Slips of the kind that the properties below are there to catch; no action
\* of the specification uses them.

\* A destructor that leaves the function to itself.
KeepHold == UNCHANGED tsfn

\* A main thread that pushes its call like the others, and waits for itself.
WaitOnMain == pc["main"] = "inside" /\ UNCHANGED vars

\* A client thread that leaves without the result.
NoWait(t) ==
  /\ pc[t] = "waiting"
  /\ pc' = [pc EXCEPT ![t] = "outside"]
  /\ answer' = [answer EXCEPT ![t] = "none"]
  /\ returned' = [returned EXCEPT ![t] = "error"]
  /\ UNCHANGED <<owners, ref, tsfn, awaits, fault>>

\* A client thread that goes on only when there is a key.
ReturnKeyOnly(t) ==
  /\ pc[t] = "waiting" /\ answer[t] = "key"
  /\ pc' = [pc EXCEPT ![t] = "outside"]
  /\ answer' = [answer EXCEPT ![t] = "none"]
  /\ returned' = [returned EXCEPT ![t] = "key"]
  /\ UNCHANGED <<owners, ref, tsfn, awaits, fault>>

-----------------------------------------------------------------------------
\* The wrapper.

NewTsfn == Created(1)

\* GetCCryptoKeyReader, called while a configuration is read.
SetCryptoKeyReader ==
  /\ InLoop /\ tsfn = Absent
  /\ owners' = {"config"}
  /\ ref' = "held"
  /\ tsfn' = NewTsfn
  /\ UNCHANGED <<pc, awaits, answer, returned, fault>>

\* The client makes its producer or consumer from a copy of the configuration.
CopyConfiguration ==
  /\ InLoop /\ owners = {"config"}
  /\ owners' = owners \cup {"client"}
  /\ UNCHANGED <<ref, tsfn, pc, awaits, answer, returned, fault>>

\* ~CryptoKeyReaderWrapper: Release may be called on any thread, the deletion
\* of the JavaScript reference that follows may not.
ReleaseHold == tsfn' = Released(tsfn)

Destroy(place) ==
  /\ ReleaseHold
  /\ ref' = IF place = "main" THEN "freed" ELSE "misfreed"

Drop(owner, place) ==
  /\ owner \in owners
  /\ place = "main" => InLoop
  /\ owners' = owners \ {owner}
  /\ IF owners = {owner} THEN Destroy(place) ELSE UNCHANGED <<ref, tsfn>>
  /\ UNCHANGED <<pc, awaits, answer, returned, fault>>

\* The configuration goes with the Producer that keeps it, on the main thread,
\* or with the callback of subscribe() or of a creation that failed, on a thread
\* of the client.
DropConfig == \E place \in {"main", "client"} : Drop("config", place)

\* The C++ producer or consumer goes when no thread is in it: with the object
\* that wraps it, or with the last task of a client's thread.
DropClient ==
  /\ \A t \in Callers : pc[t] \in {"outside", "blocked"}
  /\ \E place \in {"main", "client"} : Drop("client", place)

CloseTsfn ==
  /\ InLoop /\ CanClose(tsfn)
  /\ tsfn' = Closing(tsfn)
  /\ UNCHANGED <<owners, ref, pc, awaits, answer, returned, fault>>

FinalizeTsfn ==
  /\ InLoop /\ CanFinalize(tsfn)
  /\ tsfn' = Finalized(tsfn)
  /\ UNCHANGED <<owners, ref, pc, awaits, answer, returned, fault>>

-----------------------------------------------------------------------------
\* Key calls.

\* The client asks for a key: the main thread does from inside send().
Enter(t) ==
  /\ pc[t] = "outside" /\ "client" \in owners
  /\ pc' = [pc EXCEPT ![t] = "inside"]
  /\ returned' = [returned EXCEPT ![t] = "none"]
  /\ UNCHANGED <<owners, ref, tsfn, awaits, answer, fault>>

\* callJsMethod: any object is taken for an EncryptionKeyInfo.
CallJsMethod(b) ==
  CASE b = "keyed" -> "key"
    [] b = "keyless" -> "empty"
    [] b \in {"missing", "throws", "primitive"} -> "error"
    [] b = "escapes" -> "never"

\* executeCallback on the thread that made the wrapper.
CallInline ==
  /\ pc["main"] = "inside"
  /\ pc' = [pc EXCEPT !["main"] = "outside"]
  /\ \E b \in Behaviours : returned' = [returned EXCEPT !["main"] = CallJsMethod(b)]
  /\ UNCHANGED <<owners, ref, tsfn, awaits, answer, fault>>

\* executeCallback on another thread: BlockingCall pushes, or says that the
\* function is closed.
BlockingCall(t) ==
  LET open == tsfn.state = "open" IN
  /\ pc[t] = "inside"
  /\ tsfn' = IF open THEN Pushed(tsfn, t) ELSE tsfn
  /\ pc' = [pc EXCEPT ![t] = IF open THEN "waiting" ELSE "outside"]
  /\ returned' = [returned EXCEPT ![t] = IF open THEN "none" ELSE "refused"]
  /\ UNCHANGED <<owners, ref, awaits, answer, fault>>

\* The main thread runs the call with the wrapper and the thread's variables
\* that it has captured.  The thread has a copy of the promise: when the call
\* ends with an exception the promise stays as it is.
RunCall ==
  /\ InLoop /\ CanDispatch(tsfn)
  /\ \E b \in Behaviours :
       answer' = [answer EXCEPT ![Head(tsfn.queue)] = CallJsMethod(b)]
  /\ tsfn' = Dispatched(tsfn)
  /\ fault' = IF owners = {} THEN "wrapper" ELSE fault
  /\ UNCHANGED <<owners, ref, pc, awaits, returned>>

\* future.wait() ends.
Return(t) ==
  /\ pc[t] = "waiting" /\ answer[t] \in Results
  /\ pc' = [pc EXCEPT ![t] = "outside"]
  /\ answer' = [answer EXCEPT ![t] = "none"]
  /\ returned' = [returned EXCEPT ![t] = answer[t]]
  /\ UNCHANGED <<owners, ref, tsfn, awaits, fault>>

-----------------------------------------------------------------------------
\* The main thread waits for the client: in hasNext() for an answer to the
\* reader, in send() for room in the producer's queue, that is, for receipts.
\* Both come on thread t, which serves the connection and may be in a key call.

WaitForClient(t) ==
  /\ InLoop
  /\ pc' = [pc EXCEPT !["main"] = "blocked"]
  /\ awaits' = t
  /\ UNCHANGED <<owners, ref, tsfn, answer, returned, fault>>

CanAnswer(t) == pc[t] = "outside"

ClientAnswers ==
  /\ pc["main"] = "blocked" /\ CanAnswer(awaits)
  /\ pc' = [pc EXCEPT !["main"] = "outside"]
  /\ awaits' = "none"
  /\ UNCHANGED <<owners, ref, tsfn, answer, returned, fault>>

\* The main thread waits for a thread that waits for the main thread, or for a
\* key that never comes, whatever the client's other threads do.
Deadlocked ==
  pc["main"] = "blocked" /\ pc[awaits] = "waiting" /\ answer[awaits] \notin Results

\* Nothing is left to happen.
Terminated ==
  /\ Deadlocked \/ tsfn.state = "finalized"
  /\ UNCHANGED vars

Key(t) == Enter(t) \/ BlockingCall(t) \/ Return(t)

Next ==
  \/ SetCryptoKeyReader \/ CopyConfiguration \/ DropConfig \/ DropClient
  \/ CloseTsfn \/ FinalizeTsfn \/ RunCall
  \/ Enter("main") \/ CallInline
  \/ ClientAnswers
  \/ \E t \in Threads : Key(t) \/ WaitForClient(t)
  \/ Terminated

\* Threads go on; the program comes back to its event loop again and again, and
\* what waits there is not put off for ever by sends and waits for the client.
Fairness ==
  /\ SF_vars(RunCall) /\ SF_vars(CloseTsfn) /\ SF_vars(FinalizeTsfn)
  /\ SF_vars(ClientAnswers) /\ WF_vars(CallInline)
  /\ \A t \in Threads : WF_vars(BlockingCall(t)) /\ WF_vars(Return(t))

Spec == Init /\ [][Next]_vars /\ Fairness

-----------------------------------------------------------------------------
\* Properties.

\* Every variable has its type, and the wrapper's hold is the only one.
TypeOK ==
  /\ owners \subseteq {"config", "client"}
  /\ ref \in {"none", "held", "freed", "misfreed"}
  /\ tsfn \in [threads : {0, 1}, queue : Seq(Threads), state : States]
  /\ pc \in [Callers -> Steps]
  /\ awaits \in Threads \cup {"none"}
  /\ answer \in [Threads -> Results \cup {"none", "never"}]
  /\ returned \in [Callers -> Results \cup {"none", "never", "refused"}]
  /\ fault \in {"none", "wrapper"}

Queued == {tsfn.queue[i] : i \in DOMAIN tsfn.queue}

\* Although the callers have no hold of their own, the wrapper and its open
\* function are there as long as any of them is in executeCallback: a call that
\* the main thread has still to run finds the wrapper it captured and the
\* variables of a thread that waits for nothing else, none is pushed twice, and
\* no caller is told that the function is closed.
CallsOutlivedByWrapper ==
  /\ \A t \in Callers :
       pc[t] \in {"inside", "waiting"} =>
         "client" \in owners /\ ref = "held" /\ tsfn.threads = 1 /\ tsfn.state = "open"
  /\ \A t \in Threads : (pc[t] = "waiting") <=> (t \in Queued \/ answer[t] # "none")
  /\ Len(tsfn.queue) = Cardinality(Queued)
  /\ \A t \in Queued : answer[t] = "none"
  /\ \A t \in Callers : returned[t] # "refused"
  /\ fault = "none"

\* Neither side waits for ever.  A key call returns, on the main thread always,
\* on another thread unless the look-up of the method throws or the main thread
\* waits for a thread that waits for a key.  A wait of the main thread ends too,
\* whatever answer the thread that can end it gets, unless that very thread
\* needs the main thread for its key or waits for one that never comes.
KeyCallReturns ==
  /\ (pc["main"] = "inside") ~> InLoop
  /\ (pc["main"] = "blocked") ~> (InLoop \/ Deadlocked)
  /\ \A t \in Threads :
       (pc[t] = "inside") ~> (pc[t] = "outside" \/ answer[t] = "never" \/ Deadlocked)

\* When the last owner is gone the function closes, whichever thread it was on
\* and whatever the main thread waited for then.
KeyReaderReclaimed ==
  (ref \in {"freed", "misfreed"}) ~> (tsfn.state = "finalized")
=============================================================================
