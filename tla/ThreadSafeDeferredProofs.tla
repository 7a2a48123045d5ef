----------------------- MODULE ThreadSafeDeferredProofs -----------------------
(***************************************************************************)
(* Proofs about ThreadSafeDeferred for any number of concurrent calls and  *)
(* any methods.  The properties of ThreadSafeDeferred follow from an       *)
(* inductive invariant that says, for each call by itself, what its        *)
(* deferred looks like at each step of its answer.                         *)
(***************************************************************************)
EXTENDS ThreadSafeDeferred, TLAPS

\* What Resolve or Reject makes of an answer.
FateOf(c) == IF answer[c] \in method[c].resolves THEN "RESOLVED" ELSE "REJECTED"

Deciding == {"deciding", "written", "fated", "released"}

\* The fields that the answer writes, step by step.
FieldsInv(c) ==
  /\ pc[c] \in {"idle", "new", "issued", "thrown"} =>
       answer[c] = "none" /\ runner[c] = "none"
  /\ pc[c] \in Deciding \cup {"left"} => answer[c] # "none" /\ runner[c] # "none"
  /\ pc[c] \in {"idle", "new", "issued", "thrown", "deciding", "written"} =>
       fate[c] = "UNRESOLVED"
  /\ pc[c] \in {"written", "fated", "released", "left"} =>
       payload[c] = Settlement(method[c], answer[c]).value
  /\ pc[c] \in {"fated", "released", "left"} => fate[c] = FateOf(c)

\* The thread-safe function is released by the answer and by nothing else.
FunctionInv(c) ==
  /\ pc[c] = "idle" => tsf[c].state = "none"
  /\ pc[c] = "thrown" => tsf[c].state \in {"none", "open"}
  /\ pc[c] = "thrown" /\ tsf[c].state = "open" => tsf[c].threads = 1
  /\ pc[c] \in {"new", "issued", "deciding", "written", "fated"} =>
       tsf[c].state = "open" /\ tsf[c].threads = 1
  /\ pc[c] \in {"released", "left"} => tsf[c].state # "none" /\ tsf[c].threads = 0

\* Who owns the deferred.
OwnersInv(c) ==
  /\ "self" \in refs[c] <=> tsf[c].state \in {"open", "closing"}
  /\ "local" \in refs[c] <=> main = c
  /\ "context" \in refs[c] <=> pc[c] = "issued"
  /\ "callback" \in refs[c] <=> pc[c] \in Deciding /\ answer[c] # "invalid"
  /\ main = c => pc[c] \notin {"idle", "thrown"}
  /\ pc[c] = "new" => main = c
  /\ runner[c] = "main" /\ pc[c] \in Deciding => main = c
  /\ answer[c] = "invalid" => runner[c] = "main"

\* What the caller has been told.
PromiseInv(c) ==
  /\ pc[c] = "idle" => promise[c] = NoPromise
  /\ pc[c] = "thrown" => promise[c] = Thrown
  /\ pc[c] \notin {"idle", "thrown"} /\ tsf[c].state # "finalized" =>
       promise[c] = Pending
  /\ tsf[c].state = "finalized" => promise[c] = Settlement(method[c], answer[c])

CallInv(c) == FieldsInv(c) /\ FunctionInv(c) /\ OwnersInv(c) /\ PromiseInv(c)

IInv == TypeOK /\ \A c \in Calls : CallInv(c)

-----------------------------------------------------------------------------
\* A settlement of a method's answer is one of the settlements there are.
LEMMA SettlementType ==
  ASSUME NEW m \in Methods, NEW a \in Answers
  PROVE  /\ Settlement(m, a) \in Settlements
         /\ Settlement(m, a).value \in {s.value : s \in Settlements}
BY DEF Settlements

\* Every variable keeps its type.
LEMMA TypeStep ==
  ASSUME TypeOK, \A c \in Calls : CallInv(c), NEW c \in Calls, CallStep(c)
  PROVE  TypeOK'
<1> USE DEF TypeOK, Tsfns, States
<1>1. CASE Refuse(c) BY <1>1 DEF Refuse, Steps
<1>2. CASE New(c) BY <1>2 DEF New, Steps, Created, Owners
<1>3. CASE Throw(c) BY <1>3 DEF Throw, Steps
<1>4. CASE Invalid(c) BY <1>4 DEF Invalid, Steps, Answers
<1>5. CASE Issue(c) BY <1>5 DEF Issue, Steps, Owners
<1>6. CASE Return(c) BY <1>6 DEF Return
<1>7. CASE Answer(c) BY <1>7, MethodsAssumption DEF Answer, Steps, Owners
<1>8. CASE WritePayload(c)
  <2>1. answer[c] \in Answers
    BY <1>8 DEF WritePayload, CallInv, FieldsInv, Deciding
  <2> QED BY <1>8, <2>1, SettlementType DEF WritePayload, Steps
<1>9. CASE WriteFate(c) BY <1>9 DEF WriteFate, Steps, Fates
<1>10. CASE Release(c)
  <2>1. tsf[c] \in Tsfns /\ tsf[c].threads = 1
    BY <1>10 DEF Release, CallInv, FunctionInv
  <2>2. Released(tsf[c]) = [tsf[c] EXCEPT !.threads = 0]
    BY <2>1 DEF Released
  <2>3. Released(tsf[c]) \in Tsfns BY <2>1, <2>2
  <2> QED BY <1>10, <2>3 DEF Release, Steps
<1>11. CASE Leave(c) BY <1>11 DEF Leave, Steps
<1>12. CASE CloseTsf(c) BY <1>12 DEF CloseTsf, Closing
<1>13. CASE Finalize(c)
  <2>1. pc[c] \in {"released", "left"} /\ answer[c] \in Answers
    BY <1>13 DEF Finalize, CanFinalize, CallInv, FieldsInv, FunctionInv, Steps, Deciding
  <2>2. promise'[c] = Settlement(method[c], answer[c])
    BY <1>13, <2>1 DEF Finalize, CallInv, FieldsInv, FateOf, Settlement
  <2>3. promise' \in [Calls -> {NoPromise, Pending, Thrown} \cup Settlements]
    BY <1>13, <2>1, <2>2, SettlementType DEF Finalize
  <2> QED BY <1>13, <2>3 DEF Finalize, Finalized
<1> QED
  BY <1>1, <1>2, <1>3, <1>4, <1>5, <1>6, <1>7, <1>8, <1>9, <1>10, <1>11, <1>12, <1>13
  DEF CallStep

\* A step of one call leaves the deferred of every other call as it is: only
\* the main thread is shared.
LEMMA OtherCalls ==
  ASSUME TypeOK, \A d \in Calls : CallInv(d),
         NEW c \in Calls, CallStep(c), NEW d \in Calls, d # c
  PROVE  CallInv(d)'
<1>1. /\ method'[d] = method[d] /\ pc'[d] = pc[d] /\ runner'[d] = runner[d]
      /\ answer'[d] = answer[d] /\ fate'[d] = fate[d] /\ payload'[d] = payload[d]
      /\ tsf'[d] = tsf[d] /\ refs'[d] = refs[d] /\ promise'[d] = promise[d]
  BY DEF CallStep, TypeOK, Refuse, New, Throw, Invalid, Issue, Return, Answer,
         WritePayload, WriteFate, Release, Leave, CloseTsf, Finalize
<1>2. main' = main \/ (main = "loop" /\ main' = c) \/ (main = c /\ main' = "loop")
  BY DEF CallStep, Refuse, New, Throw, Invalid, Issue, Return, Answer,
         WritePayload, WriteFate, Release, Leave, CloseTsf, Finalize
<1>3. main' = d <=> main = d BY <1>2, CallsAssumption
<1>4. FieldsInv(d)' BY <1>1 DEF CallInv, FieldsInv, FateOf, Settlement
<1>5. FunctionInv(d)' BY <1>1 DEF CallInv, FunctionInv
<1>6. OwnersInv(d)' BY <1>1, <1>3 DEF CallInv, OwnersInv
<1>7. PromiseInv(d)' BY <1>1 DEF CallInv, PromiseInv, Settlement
<1> QED BY <1>4, <1>5, <1>6, <1>7 DEF CallInv

\* A step keeps the invariant of its own call.
LEMMA OwnCall ==
  ASSUME TypeOK, \A d \in Calls : CallInv(d), NEW c \in Calls, CallStep(c)
  PROVE  CallInv(c)'
<1> USE CallsAssumption, MethodsAssumption
    DEF TypeOK, CallInv, FieldsInv, FunctionInv, OwnersInv, PromiseInv, Deciding
<1>1. CASE Refuse(c)
  BY <1>1 DEF Refuse, Steps, Tsfns, States, FateOf, Settlement
<1>2. CASE New(c)
  BY <1>2 DEF New, Created, Steps, Tsfns, States, FateOf, Settlement
<1>3. CASE Throw(c)
  BY <1>3 DEF Throw, Steps, Tsfns, States, FateOf, Settlement
<1>4. CASE Invalid(c)
  BY <1>4 DEF Invalid, Steps, Tsfns, States, FateOf, Settlement
<1>5. CASE Issue(c)
  BY <1>5 DEF Issue, IsDone, Steps, Tsfns, States, FateOf, Settlement
<1>6. CASE Return(c)
  BY <1>6 DEF Return, IsDone, Steps, Tsfns, States, FateOf, Settlement
<1>7. CASE Answer(c)
  <2>1. PICK a \in method[c].answers, r \in {"main", "client"} : Answer(c)!(a, r)
    BY <1>7 DEF Answer
  <2>2. a \notin {"none", "invalid"}
    <3> HIDE DEF CallInv, FieldsInv, FunctionInv, OwnersInv, PromiseInv
    <3>1. method[c] \in Methods OBVIOUS
    <3>2. a \in Answers \ {"invalid"} BY <2>1, <3>1
    <3> QED BY <3>2 DEF Answers
  <2>3. FieldsInv(c)' BY <2>1, <2>2 DEF FateOf, Settlement
  <2>4. FunctionInv(c)' BY <2>1
  <2>5. OwnersInv(c)' BY <2>1, <2>2
  <2>6. PromiseInv(c)' BY <2>1, <2>2 DEF Tsfns
  <2> QED BY <2>3, <2>4, <2>5, <2>6
<1>8. CASE WritePayload(c)
  BY <1>8 DEF WritePayload, Steps, Tsfns, States, FateOf, Settlement
<1>9. CASE WriteFate(c)
  BY <1>9 DEF WriteFate, Steps, Tsfns, States, FateOf, Settlement
<1>10. CASE Release(c)
  BY <1>10 DEF Release, Released, Steps, Tsfns, States, FateOf, Settlement
<1>11. CASE Leave(c)
  BY <1>11 DEF Leave, Steps, Tsfns, States, FateOf, Settlement
<1>12. CASE CloseTsf(c)
  BY <1>12 DEF CloseTsf, CanClose, Closing, Steps, Tsfns, States, FateOf, Settlement
<1>13. CASE Finalize(c)
  BY <1>13 DEF Finalize, CanFinalize, Finalized, Steps, Tsfns, States, FateOf, Settlement
<1> QED
  BY <1>1, <1>2, <1>3, <1>4, <1>5, <1>6, <1>7, <1>8, <1>9, <1>10, <1>11, <1>12, <1>13
  DEF CallStep

-----------------------------------------------------------------------------
LEMMA InitInv == Init => IInv
<1> SUFFICES ASSUME Init PROVE IInv OBVIOUS
<1>1. TypeOK
  BY DEF Init, TypeOK, Steps, Fates, Tsfns, States, Absent, Owners
<1>2. \A c \in Calls : CallInv(c)
  BY CallsAssumption DEF Init, CallInv, FieldsInv, FunctionInv, OwnersInv, PromiseInv,
     Deciding, Absent
<1> QED BY <1>1, <1>2 DEF IInv

LEMMA NextInv == IInv /\ [Next]_vars => IInv'
<1> SUFFICES ASSUME IInv, [Next]_vars PROVE IInv' OBVIOUS
<1>1. CASE \E c \in Calls : CallStep(c)
  <2>1. PICK c \in Calls : CallStep(c) BY <1>1
  <2>2. TypeOK' BY <2>1, TypeStep DEF IInv
  <2>3. \A d \in Calls : CallInv(d)' BY <2>1, OwnCall, OtherCalls DEF IInv
  <2> QED BY <2>2, <2>3 DEF IInv
<1>2. CASE UNCHANGED vars
  <2>1. TypeOK' BY <1>2 DEF IInv, TypeOK, vars
  <2>2. \A d \in Calls : CallInv(d)'
    BY <1>2 DEF IInv, CallInv, FieldsInv, FunctionInv, OwnersInv, PromiseInv, vars,
       FateOf, Settlement
  <2> QED BY <2>1, <2>2 DEF IInv
<1> QED BY <1>1, <1>2 DEF Next, Terminated

\* The inductive invariant holds of every reachable state.
THEOREM Invariance == Spec => []IInv
BY InitInv, NextInv, PTL DEF Spec

\* Every variable of every deferred has its type, for any number of calls.
THEOREM TypeCorrect == Spec => []TypeOK
<1>1. IInv => TypeOK BY DEF IInv
<1> QED BY <1>1, Invariance, PTL

\* ThreadSafeDeferred's finalizer settles a promise the way the method's
\* contract says for the client's answer, in every interleaving of any calls.
THEOREM SettledCorrectly == Spec => []SettledAsAnswered
<1>1. IInv => SettledAsAnswered
  BY DEF IInv, CallInv, PromiseInv, SettledAsAnswered
<1> QED BY <1>1, Invariance, PTL

\* Resolve and Reject are called once for each deferred at most.
THEOREM DecidedOnce == Spec => []NeverDecidedTwice
<1>1. IInv => NeverDecidedTwice
  BY DEF IInv, CallInv, FieldsInv, FunctionInv, NeverDecidedTwice
<1> QED BY <1>1, Invariance, PTL

\* The shared_ptr owners keep a deferred alive for whoever uses it, and free it
\* when the answer, the method and the finalizer are through.
THEOREM Owned == Spec => []OwnedWhileUsed
<1>1. ASSUME IInv, NEW c \in Calls, pc[c] \in Deciding
      PROVE  refs[c] \cap {"callback", "local"} # {}
  BY <1>1 DEF IInv, CallInv, OwnersInv
<1>2. ASSUME IInv, NEW c \in Calls,
             pc[c] = "left", tsf[c].state = "finalized", main # c
      PROVE  refs[c] = {}
  BY <1>2 DEF IInv, TypeOK, CallInv, OwnersInv, Deciding, Owners
<1>3. ASSUME IInv, NEW c \in Calls, tsf[c].state \in {"open", "closing"}
      PROVE  "self" \in refs[c]
  BY <1>3 DEF IInv, CallInv, OwnersInv
<1>4. IInv => OwnedWhileUsed
  BY <1>1, <1>2, <1>3 DEF OwnedWhileUsed, Deciding
<1> QED BY <1>4, Invariance, PTL

\* What the comment in the finalizer relies on: fate and payload are written
\* only while the answer still holds the thread-safe function.
THEOREM ReleaseIsLast == Spec => NoWriteAfterRelease
<1> DEFINE A == \A c \in Calls : fate'[c] # fate[c] \/ payload'[c] # payload[c]
                  => tsf[c].state = "open" /\ tsf[c].threads = 1
<1>1. IInv /\ [Next]_vars => [A]_vars
  <2> SUFFICES ASSUME IInv, [Next]_vars, NEW c \in Calls,
                      fate'[c] # fate[c] \/ payload'[c] # payload[c]
               PROVE  tsf[c].state = "open" /\ tsf[c].threads = 1
    OBVIOUS
  <2>1. pc[c] \in {"deciding", "written"}
    BY DEF Next, Terminated, CallStep, vars, IInv, TypeOK, Refuse, New, Throw, Invalid,
       Issue, Return, Answer, WritePayload, WriteFate, Release, Leave, CloseTsf, Finalize
  <2> QED BY <2>1 DEF IInv, CallInv, FunctionInv
<1>2. Spec => [][A]_vars BY <1>1, Invariance, PTL DEF Spec
<1> QED BY <1>2 DEF NoWriteAfterRelease

-----------------------------------------------------------------------------
\* The refinement.  Decision(c) is what the answer means for the caller.
Decision == [c \in Calls |-> IF answer[c] = "none" THEN NoPromise
                             ELSE Settlement(method[c], answer[c])]

\* The three states of a promise that is not settled are told apart from each
\* other and from every settlement.
LEMMA Distinct ==
  ASSUME NEW m, NEW a
  PROVE  /\ NoPromise # Pending
         /\ Settlement(m, a) # NoPromise
<1>1. NoPromise.state = "none" /\ Pending.state = "pending" BY DEF NoPromise, Pending
<1>2. Settlement(m, a).state \in {"resolved", "rejected"} BY DEF Settlement
<1> QED BY <1>1, <1>2

\* The steps that the caller cannot see leave the promise and the decision alone.
LEMMA Invisible ==
  ASSUME UNCHANGED <<method, answer, promise>>
  PROVE  UNCHANGED Abstract!vars
BY DEF Abstract!vars, Settlement

\* A validation or an answer decides: c gets the settlement of answer a.
LEMMA Decides ==
  ASSUME IInv, NEW c \in Calls, NEW a \in Answers,
         answer[c] = "none", promise[c] = Pending,
         answer' = [answer EXCEPT ![c] = a], UNCHANGED <<method, promise>>
  PROVE  Abstract!Decide(c)
<1> DEFINE s == Settlement(method[c], a)
<1>1. method[c] \in Methods BY DEF IInv, TypeOK
<1>2. s \in Settlements BY <1>1, SettlementType
<1>3. a # "none" BY DEF Answers
<1>4. Decision[c] = NoPromise BY DEF Decision
<1>5. Decision' = [Decision EXCEPT ![c] = s]
  <2>1. \A d \in Calls : Decision'[d] = [Decision EXCEPT ![c] = s][d]
    BY <1>3 DEF Decision, IInv, TypeOK, Settlement
  <2> QED BY <2>1 DEF Decision
<1> QED BY <1>2, <1>4, <1>5
  DEF Abstract!Decide, Abstract!Pending, Abstract!NoPromise, Decision, Pending, NoPromise

\* Each step of a deferred is a step of its abstract promise, or invisible.
LEMMA StepRefines ==
  ASSUME IInv, NEW c \in Calls, CallStep(c)
  PROVE  Abstract!Next \/ UNCHANGED Abstract!vars
<1> USE DEF Abstract!NoPromise, Abstract!Pending, Abstract!Thrown
<1>1. CASE Refuse(c)
  <2>1. promise[c] = NoPromise BY <1>1 DEF Refuse, IInv, CallInv, PromiseInv
  <2>2. Abstract!Refuse(c)
    BY <1>1, <2>1 DEF Refuse, Abstract!Refuse, NoPromise, Thrown, Settlement
  <2> QED BY <2>2 DEF Abstract!Next
<1>2. CASE New(c)
  <2>1. promise[c] = NoPromise BY <1>2 DEF New, IInv, CallInv, PromiseInv
  <2>2. Abstract!Begin(c)
    BY <1>2, <2>1 DEF New, Abstract!Begin, NoPromise, Pending, Settlement
  <2> QED BY <2>2 DEF Abstract!Next
<1>3. CASE Throw(c)
  <2>1. promise[c] = Pending /\ answer[c] = "none"
    BY <1>3 DEF Throw, IInv, CallInv, PromiseInv, FieldsInv, FunctionInv
  <2>2. Abstract!Throw(c)
    BY <1>3, <2>1 DEF Throw, Abstract!Throw, Pending, NoPromise, Thrown, Settlement
  <2> QED BY <2>2 DEF Abstract!Next
<1>4. CASE Invalid(c)
  <2>1. promise[c] = Pending /\ answer[c] = "none"
    BY <1>4 DEF Invalid, IInv, CallInv, PromiseInv, FieldsInv, FunctionInv
  <2>2. Abstract!Decide(c) BY <1>4, <2>1, Decides DEF Invalid, Answers
  <2> QED BY <2>2 DEF Abstract!Next
<1>5. CASE Answer(c)
  <2>1. PICK a \in method[c].answers, r \in {"main", "client"} : Answer(c)!(a, r)
    BY <1>5 DEF Answer
  <2>2. promise[c] = Pending /\ answer[c] = "none"
    BY <2>1 DEF IInv, CallInv, PromiseInv, FieldsInv, FunctionInv
  <2>3. a \in Answers BY MethodsAssumption DEF IInv, TypeOK
  <2>4. Abstract!Decide(c) BY <2>1, <2>2, <2>3, Decides
  <2> QED BY <2>4 DEF Abstract!Next
<1>6. CASE Finalize(c)
  <2>1. pc[c] \in {"released", "left"}
    BY <1>6 DEF Finalize, CanFinalize, IInv, TypeOK, CallInv, FunctionInv, Steps
  <2>2. promise[c] = Pending /\ answer[c] # "none"
    BY <1>6, <2>1 DEF Finalize, CanFinalize, IInv, CallInv, PromiseInv, FieldsInv, Deciding
  <2>3. promise'[c] = Settlement(method[c], answer[c])
    BY <1>6, <2>1 DEF Finalize, IInv, TypeOK, CallInv, FieldsInv, FateOf, Settlement
  <2>4. Decision[c] = promise'[c] /\ Decision[c] # NoPromise
    BY <2>2, <2>3, Distinct DEF Decision
  <2>5. Decision' = Decision BY <1>6 DEF Finalize, Decision, Settlement
  <2>6. promise' = [promise EXCEPT ![c] = Decision[c]]
    BY <1>6, <2>4 DEF Finalize, IInv, TypeOK
  <2>7. Abstract!Settle(c)
    BY <2>2, <2>4, <2>5, <2>6 DEF Abstract!Settle, Decision, Pending, NoPromise
  <2> QED BY <2>7 DEF Abstract!Next
<1>7. CASE Issue(c) BY <1>7, Invisible DEF Issue
<1>8. CASE Return(c) BY <1>8, Invisible DEF Return
<1>9. CASE WritePayload(c) BY <1>9, Invisible DEF WritePayload
<1>10. CASE WriteFate(c) BY <1>10, Invisible DEF WriteFate
<1>11. CASE Release(c) BY <1>11, Invisible DEF Release
<1>12. CASE Leave(c) BY <1>12, Invisible DEF Leave
<1>13. CASE CloseTsf(c) BY <1>13, Invisible DEF CloseTsf
<1> QED
  BY <1>1, <1>2, <1>3, <1>4, <1>5, <1>6, <1>7, <1>8, <1>9, <1>10, <1>11, <1>12, <1>13
  DEF CallStep

\* Whatever the threads do, the caller sees an asynchronous promise: it is made
\* once, decided once, and settled once, as decided.
THEOREM Refinement == Spec => Abstract!Contract
<1>1. Init => Abstract!Init
  BY DEF Init, Abstract!Init, Abstract!NoPromise, NoPromise
<1>2. IInv /\ [Next]_vars => [Abstract!Next]_(Abstract!vars)
  <2>1. ASSUME IInv, UNCHANGED vars PROVE UNCHANGED Abstract!vars
    BY <2>1, Invisible DEF vars
  <2>2. ASSUME IInv, NEW c \in Calls, CallStep(c)
        PROVE  Abstract!Next \/ UNCHANGED Abstract!vars
    BY <2>2, StepRefines
  <2> QED BY <2>1, <2>2 DEF Next, Terminated
<1> QED BY <1>1, <1>2, Invariance, PTL DEF Spec, Abstract!Contract
=============================================================================
