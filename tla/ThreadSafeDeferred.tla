-------------------------- MODULE ThreadSafeDeferred --------------------------
(***************************************************************************)
(* The promise behind every asynchronous method of the binding.            *)
(*                                                                         *)
(* The main thread makes a deferred, hands a reference to it to the C++    *)
(* client and returns the promise to JavaScript.  The client answers on    *)
(* one of its own threads, or inline on the main thread before the         *)
(* asynchronous function returns; the answer writes a payload and a fate   *)
(* into the deferred without any lock and then releases the deferred's     *)
(* thread-safe function, whose finalizer, on the main thread, reads both   *)
(* and settles the promise.  The deferred owns itself until then.          *)
(***************************************************************************)
EXTENDS PulsarApi, ThreadSafeFunction

CONSTANTS Calls,    \* calls of asynchronous methods in one run of the program
          Methods   \* the methods they may call, records as in PulsarApi

VARIABLES
  main,     \* the call whose C++ method the main thread is in, or "loop"
  method,   \* [Calls -> Methods], the method called
  pc,       \* [Calls -> how far the call's deferred has come]
  runner,   \* [Calls -> the thread its answer runs on: "none", "main", "client"]
  answer,   \* [Calls -> what the client, or the validation, answered]
  fate,     \* ThreadSafeDeferred::fate
  payload,  \* ThreadSafeDeferred::createValueCb or errorMsg
  tsf,      \* ThreadSafeDeferred::tsf
  refs,     \* the owners of the deferred: "self" and the other shared_ptrs
  promise   \* the JavaScript promise

vars == <<main, method, pc, runner, answer, fate, payload, tsf, refs, promise>>

Fates == {"UNRESOLVED", "RESOLVED", "REJECTED"}
Steps == {"idle", "new", "issued", "deciding", "written", "fated", "released",
          "left", "thrown"}
Answers == {"ok", "error", "no list", "unsupported", "invalid"}
Owners == {"self", "local", "context", "callback"}
Settlements == {Settlement(m, a) : m \in Methods, a \in Answers}

ASSUME CallsAssumption == "loop" \notin Calls

\* "invalid" is never an answer of the client.
ASSUME MethodsAssumption == \A m \in Methods : m.answers \subseteq Answers \ {"invalid"}

NoPromise == [state |-> "none", value |-> "none"]
Pending == [state |-> "pending", value |-> "none"]
Thrown == [state |-> "thrown", value |-> "none"]

Init ==
  /\ main = "loop"
  /\ method \in [Calls -> Methods]
  /\ pc = [c \in Calls |-> "idle"]
  /\ runner = [c \in Calls |-> "none"]
  /\ answer = [c \in Calls |-> "none"]
  /\ fate = [c \in Calls |-> "UNRESOLVED"]
  /\ payload = [c \in Calls |-> "none"]
  /\ tsf = [c \in Calls |-> Absent]
  /\ refs = [c \in Calls |-> {}]
  /\ promise = [c \in Calls |-> NoPromise]

-----------------------------------------------------------------------------
\* Slips of the kind that the properties below are there to catch; no action
\* of the specification uses them.

\* IsDone that overlooks a rejection.
ForgetRejected(c) == fate[c] = "RESOLVED"

\* A callback that uses the deferred through a context it has deleted.
ForgetCopy(c) ==
  \E a \in method[c].answers, r \in {"main", "client"} :
    /\ pc[c] = "issued"
    /\ r = "main" => main = c
    /\ pc' = [pc EXCEPT ![c] = "deciding"]
    /\ answer' = [answer EXCEPT ![c] = a]
    /\ runner' = [runner EXCEPT ![c] = r]
    /\ refs' = [refs EXCEPT ![c] = @ \ {"context"}]
    /\ UNCHANGED <<main, method, fate, payload, tsf, promise>>

\* Resolve that releases before it writes the fate.
WriteAndRelease(c) ==
  /\ pc[c] = "deciding"
  /\ fate[c] = "UNRESOLVED"
  /\ payload' = [payload EXCEPT ![c] = Settlement(method[c], answer[c]).value]
  /\ tsf' = [tsf EXCEPT ![c] = Released(@)]
  /\ pc' = [pc EXCEPT ![c] = "written"]
  /\ UNCHANGED <<main, method, runner, answer, fate, refs, promise>>

\* Resolve that releases and never writes the fate.
ReleaseBeforeFate(c) ==
  /\ pc[c] = "written"
  /\ tsf' = [tsf EXCEPT ![c] = Released(@)]
  /\ pc' = [pc EXCEPT ![c] = "released"]
  /\ UNCHANGED <<main, method, runner, answer, fate, payload, refs, promise>>

\* Resolve that never releases.
ForgetRelease(c) ==
  /\ pc[c] = "fated"
  /\ pc' = [pc EXCEPT ![c] = "released"]
  /\ UNCHANGED <<main, method, runner, answer, fate, payload, tsf, refs, promise>>

-----------------------------------------------------------------------------
\* The main thread, in the method.

\* The arguments are refused before a deferred exists.
Refuse(c) ==
  /\ main = "loop" /\ pc[c] = "idle"
  /\ "refuse" \in method[c].entry
  /\ pc' = [pc EXCEPT ![c] = "thrown"]
  /\ promise' = [promise EXCEPT ![c] = Thrown]
  /\ UNCHANGED <<main, method, runner, answer, fate, payload, tsf, refs>>

\* ThreadSafeDeferred::New, with the fields' initial values already in place.
New(c) ==
  /\ main = "loop" /\ pc[c] = "idle"
  /\ main' = c
  /\ pc' = [pc EXCEPT ![c] = "new"]
  /\ tsf' = [tsf EXCEPT ![c] = Created(1)]
  /\ refs' = [refs EXCEPT ![c] = {"self", "local"}]
  /\ promise' = [promise EXCEPT ![c] = Pending]
  /\ UNCHANGED <<method, runner, answer, fate, payload>>

IsDone(c) == fate[c] \in {"RESOLVED", "REJECTED"}

\* The configuration throws: the local reference unwinds, nothing else happens.
Throw(c) ==
  /\ main = c /\ pc[c] = "new"
  /\ "throw" \in method[c].entry
  /\ main' = "loop"
  /\ pc' = [pc EXCEPT ![c] = "thrown"]
  /\ refs' = [refs EXCEPT ![c] = @ \ {"local"}]
  /\ promise' = [promise EXCEPT ![c] = Thrown]
  /\ UNCHANGED <<method, runner, answer, fate, payload, tsf>>

\* The configuration is rejected: Reject runs on the main thread.
Invalid(c) ==
  /\ main = c /\ pc[c] = "new"
  /\ "reject" \in method[c].entry
  /\ pc' = [pc EXCEPT ![c] = "deciding"]
  /\ runner' = [runner EXCEPT ![c] = "main"]
  /\ answer' = [answer EXCEPT ![c] = "invalid"]
  /\ UNCHANGED <<main, method, fate, payload, tsf, refs, promise>>

\* The context takes a reference and goes to the client's asynchronous function.
Issue(c) ==
  /\ main = c /\ pc[c] \in {"new", "left"}
  /\ ~IsDone(c)
  /\ pc' = [pc EXCEPT ![c] = "issued"]
  /\ refs' = [refs EXCEPT ![c] = @ \cup {"context"}]
  /\ UNCHANGED <<main, method, runner, answer, fate, payload, tsf, promise>>

\* return deferred->Promise(): after an inline answer has returned.
Return(c) ==
  /\ main = c
  /\ IF runner[c] = "main" THEN pc[c] = "left" /\ IsDone(c) ELSE pc[c] # "new"
  /\ main' = "loop"
  /\ refs' = [refs EXCEPT ![c] = @ \ {"local"}]
  /\ UNCHANGED <<method, pc, runner, answer, fate, payload, tsf, promise>>

-----------------------------------------------------------------------------
\* The client's callback, on one of its threads or inline on the main thread.

\* The callback copies the deferred out of its context and deletes the context.
Answer(c) ==
  \E a \in method[c].answers, r \in {"main", "client"} :
    /\ pc[c] = "issued"
    /\ r = "main" => main = c
    /\ pc' = [pc EXCEPT ![c] = "deciding"]
    /\ answer' = [answer EXCEPT ![c] = a]
    /\ runner' = [runner EXCEPT ![c] = r]
    /\ refs' = [refs EXCEPT ![c] = (@ \ {"context"}) \cup {"callback"}]
    /\ UNCHANGED <<main, method, fate, payload, tsf, promise>>

\* Resolve and Reject write the value or the message first, ...
WritePayload(c) ==
  /\ pc[c] = "deciding"
  /\ fate[c] = "UNRESOLVED"
  /\ payload' = [payload EXCEPT ![c] = Settlement(method[c], answer[c]).value]
  /\ pc' = [pc EXCEPT ![c] = "written"]
  /\ UNCHANGED <<main, method, runner, answer, fate, tsf, refs, promise>>

\* ... then the fate, ...
WriteFate(c) ==
  /\ pc[c] = "written"
  /\ fate' = [fate EXCEPT ![c] = IF answer[c] \in method[c].resolves
                                 THEN "RESOLVED" ELSE "REJECTED"]
  /\ pc' = [pc EXCEPT ![c] = "fated"]
  /\ UNCHANGED <<main, method, runner, answer, payload, tsf, refs, promise>>

\* ... and release the thread-safe function last.
Release(c) ==
  /\ pc[c] = "fated"
  /\ tsf' = [tsf EXCEPT ![c] = Released(@)]
  /\ pc' = [pc EXCEPT ![c] = "released"]
  /\ UNCHANGED <<main, method, runner, answer, fate, payload, refs, promise>>

\* The callback returns and drops its reference, if it has one.
Leave(c) ==
  /\ pc[c] = "released"
  /\ pc' = [pc EXCEPT ![c] = "left"]
  /\ refs' = [refs EXCEPT ![c] = @ \ {"callback"}]
  /\ UNCHANGED <<main, method, runner, answer, fate, payload, tsf, promise>>

-----------------------------------------------------------------------------
\* The main thread, in the event loop.

CloseTsf(c) ==
  /\ main = "loop" /\ CanClose(tsf[c])
  /\ tsf' = [tsf EXCEPT ![c] = Closing(@)]
  /\ UNCHANGED <<main, method, pc, runner, answer, fate, payload, refs, promise>>

\* The finalizer: settle the promise as the fate says, then drop "self".
Finalize(c) ==
  /\ main = "loop" /\ CanFinalize(tsf[c])
  /\ promise' = [promise EXCEPT ![c] =
       [state |-> IF fate[c] = "RESOLVED" THEN "resolved" ELSE "rejected",
        value |-> payload[c]]]
  /\ tsf' = [tsf EXCEPT ![c] = Finalized(@)]
  /\ refs' = [refs EXCEPT ![c] = @ \ {"self"}]
  /\ UNCHANGED <<main, method, pc, runner, answer, fate, payload>>

\* Every call has come to its end: the program may stop.
Terminated ==
  /\ main = "loop"
  /\ \A c \in Calls : \/ pc[c] = "thrown"
                      \/ pc[c] = "left" /\ tsf[c].state = "finalized"
  /\ UNCHANGED vars

CallStep(c) ==
  \/ Refuse(c) \/ New(c) \/ Throw(c) \/ Invalid(c) \/ Issue(c) \/ Return(c)
  \/ Answer(c) \/ WritePayload(c) \/ WriteFate(c) \/ Release(c) \/ Leave(c)
  \/ CloseTsf(c) \/ Finalize(c)

Next == Terminated \/ \E c \in Calls : CallStep(c)

\* The main thread runs the method it is in and its event loop; a callback
\* that has begun runs on; the client answers a prompt method.
Fairness ==
  \A c \in Calls :
    /\ WF_vars(Throw(c) \/ Invalid(c) \/ Issue(c) \/ Return(c))
    /\ WF_vars(WritePayload(c) \/ WriteFate(c) \/ Release(c) \/ Leave(c))
    /\ WF_vars(method[c].prompt = "yes" /\ Answer(c))
    /\ WF_vars(CloseTsf(c))
    /\ WF_vars(Finalize(c))

Spec == Init /\ [][Next]_vars /\ Fairness

-----------------------------------------------------------------------------
\* Properties.

Tsfns == [threads : {0, 1}, queue : {<<>>}, state : States]

\* Every variable has its type.
TypeOK ==
  /\ main \in Calls \cup {"loop"}
  /\ method \in [Calls -> Methods]
  /\ pc \in [Calls -> Steps]
  /\ runner \in [Calls -> {"none", "main", "client"}]
  /\ answer \in [Calls -> {"none"} \cup Answers]
  /\ fate \in [Calls -> Fates]
  /\ payload \in [Calls -> {"none"} \cup {s.value : s \in Settlements}]
  /\ tsf \in [Calls -> Tsfns]
  /\ refs \in [Calls -> SUBSET Owners]
  /\ promise \in [Calls -> {NoPromise, Pending, Thrown} \cup Settlements]

\* Whatever the interleaving of the answer with the finalizer, a promise that
\* is settled is settled as its method's contract says for that answer: the
\* finalizer never runs on a half-written fate or payload.
SettledAsAnswered ==
  \A c \in Calls : tsf[c].state = "finalized" =>
    promise[c] = Settlement(method[c], answer[c])

\* Resolve and Reject never find the deferred already decided (they would
\* throw a C string on a thread of the client): a call whose configuration
\* was rejected never goes on to ask the client.
NeverDecidedTwice ==
  \A c \in Calls : pc[c] = "deciding" => /\ fate[c] = "UNRESOLVED"
                                         /\ tsf[c].threads = 1

\* Whoever still works on a deferred finds it alive, and it is freed when the
\* last of them is through: the finalizer's `this` is kept by "self" until it
\* has run, the callback's by its copy even after "self" is gone.
OwnedWhileUsed ==
  \A c \in Calls :
    /\ tsf[c].state \in {"open", "closing"} => "self" \in refs[c]
    /\ pc[c] \in {"deciding", "written", "fated", "released"} =>
         refs[c] \cap {"callback", "local"} # {}
    /\ pc[c] = "left" /\ tsf[c].state = "finalized" /\ main # c => refs[c] = {}

\* The comment in the finalizer: no synchronization is needed because the
\* other thread cannot modify the deferred after it called Resolve or Reject.
NoWriteAfterRelease ==
  [][\A c \in Calls : fate'[c] # fate[c] \/ payload'[c] # payload[c]
                        => tsf[c].state = "open" /\ tsf[c].threads = 1]_vars

\* A call that got past its arguments and that the client answers is settled,
\* or threw, in the end; a caller that awaits it is not left waiting.
CallsSettle ==
  \A c \in Calls :
    (pc[c] = "new" /\ method[c].prompt = "yes") ~>
      (pc[c] = "thrown" \/ promise[c].state \in {"resolved", "rejected"})

\* The deferred is an asynchronous promise in the sense of AsyncPromise.
Abstract == INSTANCE AsyncPromise WITH
  decision <- [c \in Calls |-> IF answer[c] = "none" THEN NoPromise
                               ELSE Settlement(method[c], answer[c])]
ImplementsAsyncPromise == Abstract!Spec
=============================================================================
