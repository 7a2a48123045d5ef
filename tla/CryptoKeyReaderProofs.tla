------------------------ MODULE CryptoKeyReaderProofs ------------------------
(***************************************************************************)
(* Proofs about CryptoKeyReader for any finite number of threads, and      *)
(* queues of any length.                                                   *)
(***************************************************************************)
EXTENDS CryptoKeyReader, FiniteSetTheorems, TLAPS

\* The elements of a queue, and a queue in which none is twice.
Elements(s) == {s[i] : i \in DOMAIN s}
Distinct(s) == \A i, j \in DOMAIN s : s[i] = s[j] => i = j

\* The owners of the wrapper are what its reference and its hold are there for.
OwnersInv ==
  /\ owners # {} => ref = "held" /\ tsfn.threads = 1 /\ tsfn.state = "open"
  /\ owners = {} => tsfn.threads = 0

\* Who asks for a key asks the producer or consumer that has the wrapper.
CallerInv(t) ==
  /\ pc[t] \in {"inside", "waiting"} => "client" \in owners
  /\ returned[t] # "refused"

\* A thread that waits is queued or answered, and not both.
ThreadInv(t) ==
  /\ (pc[t] = "waiting") <=> (t \in Queued \/ answer[t] # "none")
  /\ t \in Queued => answer[t] = "none"

IInv == /\ TypeOK
        /\ OwnersInv
        /\ \A t \in Callers : CallerInv(t)
        /\ \A t \in Threads : ThreadInv(t)
        /\ Distinct(tsfn.queue)
        /\ fault = "none"

-----------------------------------------------------------------------------
\* Queues.

\* A call at the end of a queue.
LEMMA Appended ==
  ASSUME NEW S, NEW s \in Seq(S), NEW x \in S
  PROVE  /\ Append(s, x) \in Seq(S)
         /\ Elements(Append(s, x)) = Elements(s) \cup {x}
         /\ Distinct(s) /\ x \notin Elements(s) => Distinct(Append(s, x))
<1>1. /\ DOMAIN Append(s, x) = 1 .. Len(s) + 1 /\ DOMAIN s = 1 .. Len(s) /\ Len(s) \in Nat
      /\ \A i \in DOMAIN s : Append(s, x)[i] = s[i]
      /\ Append(s, x)[Len(s) + 1] = x
  OBVIOUS
<1>2. ASSUME NEW y \in Elements(Append(s, x)) PROVE y \in Elements(s) \cup {x}
  <2>1. PICK i \in DOMAIN Append(s, x) : y = Append(s, x)[i] BY <1>2 DEF Elements
  <2> QED BY <1>1, <2>1 DEF Elements
<1>3. ASSUME NEW y \in Elements(s) PROVE y \in Elements(Append(s, x))
  <2>1. PICK i \in DOMAIN s : y = s[i] BY <1>3 DEF Elements
  <2> QED BY <1>1, <2>1 DEF Elements
<1>4. x \in Elements(Append(s, x))
  <2>1. Len(s) + 1 \in DOMAIN Append(s, x) BY <1>1
  <2> QED BY <1>1, <2>1 DEF Elements
<1>5. Distinct(s) /\ x \notin Elements(s) => Distinct(Append(s, x))
  BY <1>1 DEF Distinct, Elements
<1> QED BY <1>2, <1>3, <1>4, <1>5

\* The first call is taken from a queue.
LEMMA Tailed ==
  ASSUME NEW S, NEW s \in Seq(S), s # <<>>, Distinct(s)
  PROVE  /\ Tail(s) \in Seq(S) /\ Distinct(Tail(s))
         /\ Head(s) \in S /\ Head(s) \in Elements(s)
         /\ Elements(Tail(s)) = Elements(s) \ {Head(s)}
<1>1. /\ Len(s) \in Nat \ {0} /\ DOMAIN s = 1 .. Len(s) /\ Head(s) = s[1]
      /\ DOMAIN Tail(s) = 1 .. Len(s) - 1 /\ Tail(s) \in Seq(S)
      /\ \A i \in DOMAIN Tail(s) : Tail(s)[i] = s[i + 1]
  OBVIOUS
<1>2. Head(s) \in S /\ Head(s) \in Elements(s) BY <1>1 DEF Elements
<1>3. Distinct(Tail(s))
  <2> SUFFICES ASSUME NEW i \in DOMAIN Tail(s), NEW j \in DOMAIN Tail(s), Tail(s)[i] = Tail(s)[j]
               PROVE  i = j
    BY DEF Distinct
  <2>1. i + 1 \in DOMAIN s /\ j + 1 \in DOMAIN s /\ s[i + 1] = s[j + 1] BY <1>1
  <2>2. i + 1 = j + 1 BY <2>1 DEF Distinct
  <2> QED BY <1>1, <2>2
<1>4. ASSUME NEW y \in Elements(Tail(s)) PROVE y \in Elements(s) \ {Head(s)}
  <2>1. PICK i \in DOMAIN Tail(s) : y = Tail(s)[i] BY <1>4 DEF Elements
  <2>2. i + 1 \in DOMAIN s /\ i + 1 # 1 /\ y = s[i + 1] /\ 1 \in DOMAIN s BY <1>1, <2>1
  <2> QED BY <1>1, <2>2 DEF Elements, Distinct
<1>5. ASSUME NEW y \in Elements(s), y # Head(s) PROVE y \in Elements(Tail(s))
  <2>1. PICK i \in DOMAIN s : y = s[i] BY <1>5 DEF Elements
  <2>2. i - 1 \in DOMAIN Tail(s) /\ Tail(s)[i - 1] = y BY <1>1, <1>5, <2>1
  <2> QED BY <2>2 DEF Elements
<1> QED BY <1>1, <1>2, <1>3, <1>4, <1>5

\* A queue in which no call is twice is as long as it has calls.
LEMMA DistinctLength ==
  ASSUME NEW S, NEW s \in Seq(S), Distinct(s)
  PROVE  Len(s) = Cardinality(Elements(s))
<1>1. Len(s) \in Nat /\ DOMAIN s = 1 .. Len(s) OBVIOUS
<1>2. IsFiniteSet(1 .. Len(s)) /\ Cardinality(1 .. Len(s)) = Len(s)
  BY <1>1, FS_Interval
<1> DEFINE f == [i \in 1 .. Len(s) |-> s[i]]
<1>3. f \in Bijection(1 .. Len(s), Elements(s))
  BY <1>1 DEF Bijection, Injection, IsInjective, Surjection, Elements, Distinct
<1>4. ExistsBijection(1 .. Len(s), Elements(s))
  BY <1>3 DEF ExistsBijection
<1> QED BY <1>2, <1>4, FS_Bijection

-----------------------------------------------------------------------------
\* The steps.

LEMMA InitIInv == Init => IInv
<1> SUFFICES ASSUME Init PROVE IInv OBVIOUS
<1> USE DEF Init
<1>1. tsfn.threads = 0 /\ tsfn.queue = <<>> /\ tsfn.state = "none" BY DEF Absent
<1>2. <<>> \in Seq(Threads) /\ DOMAIN <<>> = {} OBVIOUS
<1>3. TypeOK BY <1>2 DEF TypeOK, Absent, States, Steps
<1>4. OwnersInv BY <1>1 DEF OwnersInv
<1>5. \A t \in Callers : CallerInv(t) BY DEF CallerInv
<1>6. Queued = {} BY <1>1, <1>2 DEF Queued
<1>7. \A t \in Threads : ThreadInv(t) BY <1>6 DEF ThreadInv, Callers
<1> QED BY <1>1, <1>2, <1>3, <1>4, <1>5, <1>7 DEF IInv, Distinct

\* GetCCryptoKeyReader and the copy of the configuration.
LEMMA MakeStep ==
  ASSUME IInv, SetCryptoKeyReader \/ CopyConfiguration
  PROVE  IInv'
<1> USE DEF IInv
<1>1. CASE SetCryptoKeyReader
  <2> USE <1>1 DEF SetCryptoKeyReader
  <2>1. /\ tsfn.queue = <<>> /\ owners = {}
        /\ tsfn'.threads = 1 /\ tsfn'.queue = <<>> /\ tsfn'.state = "open"
        /\ tsfn' \in [threads : {0, 1}, queue : Seq(Threads), state : States]
    BY DEF Absent, NewTsfn, Created, States, OwnersInv
  <2>2. Queued' = Queued BY <2>1 DEF Queued
  <2>3. TypeOK' BY <2>1 DEF TypeOK
  <2>4. OwnersInv' BY <2>1 DEF OwnersInv
  <2>5. \A t \in Callers : CallerInv(t)' BY <2>1 DEF CallerInv
  <2>6. \A t \in Threads : ThreadInv(t)' BY <2>2 DEF ThreadInv
  <2> QED BY <2>1, <2>3, <2>4, <2>5, <2>6
<1>2. CASE CopyConfiguration
  <2> USE <1>2 DEF CopyConfiguration
  <2>1. TypeOK' BY DEF TypeOK
  <2>2. OwnersInv' BY DEF OwnersInv
  <2>3. \A t \in Callers : CallerInv(t)' BY DEF CallerInv
  <2>4. \A t \in Threads : ThreadInv(t)' BY DEF ThreadInv, Queued
  <2> QED BY <2>1, <2>2, <2>3, <2>4
<1> QED BY <1>1, <1>2

\* An owner drops the wrapper, on whichever thread; the producer or consumer
\* only when no thread is in it.
LEMMA DropStep ==
  ASSUME IInv, NEW owner \in {"config", "client"}, NEW place \in {"main", "client"},
         Drop(owner, place),
         owner = "client" => \A t \in Callers : pc[t] \in {"outside", "blocked"}
  PROVE  IInv'
<1> USE DEF IInv
<1>1. /\ owner \in owners /\ owners' = owners \ {owner}
      /\ UNCHANGED <<pc, awaits, answer, returned, fault>>
  BY DEF Drop
<1>2. /\ tsfn \in [threads : {0, 1}, queue : Seq(Threads), state : States]
      /\ tsfn.threads = 1
  BY <1>1 DEF TypeOK, OwnersInv
<1>3. /\ tsfn' \in [threads : {0, 1}, queue : Seq(Threads), state : States]
      /\ tsfn'.queue = tsfn.queue
      /\ IF owners' = {} THEN tsfn'.threads = 0 /\ ref' \in {"freed", "misfreed"}
         ELSE tsfn' = tsfn /\ ref' = ref
  <2>1. CASE owners = {owner}
    <3>1. tsfn' = [tsfn EXCEPT !.threads = 0] /\ ref' \in {"freed", "misfreed"}
      BY <1>2, <2>1 DEF Drop, Destroy, ReleaseHold, Released
    <3> QED BY <1>1, <1>2, <2>1, <3>1
  <2>2. CASE owners # {owner} BY <1>1, <1>2, <2>2 DEF Drop
  <2> QED BY <2>1, <2>2
<1>4. Queued' = Queued BY <1>3 DEF Queued
<1>5. TypeOK' BY <1>1, <1>3 DEF TypeOK
<1>6. OwnersInv' BY <1>1, <1>3 DEF OwnersInv
<1>7. \A t \in Callers : CallerInv(t)' BY <1>1 DEF CallerInv, TypeOK
<1>8. \A t \in Threads : ThreadInv(t)' BY <1>1, <1>4 DEF ThreadInv
<1> QED BY <1>1, <1>3, <1>5, <1>6, <1>7, <1>8

\* The event loop closes the function and runs its finalizer.
LEMMA CloseStep ==
  ASSUME IInv, CloseTsfn \/ FinalizeTsfn
  PROVE  IInv'
<1> USE DEF IInv
<1>1. UNCHANGED <<owners, ref, pc, awaits, answer, returned, fault>> BY DEF CloseTsfn, FinalizeTsfn
<1>2. tsfn \in [threads : {0, 1}, queue : Seq(Threads), state : States] BY DEF TypeOK
<1>3. /\ tsfn' \in [threads : {0, 1}, queue : Seq(Threads), state : States]
      /\ tsfn'.queue = tsfn.queue /\ tsfn'.threads = tsfn.threads /\ owners = {}
  <2>1. CASE CloseTsfn
    BY <1>2, <2>1 DEF CloseTsfn, CanClose, Closing, States, OwnersInv
  <2>2. CASE FinalizeTsfn
    BY <1>2, <2>2 DEF FinalizeTsfn, CanFinalize, Finalized, States, OwnersInv
  <2> QED BY <2>1, <2>2
<1>4. Queued' = Queued BY <1>3 DEF Queued
<1>5. TypeOK' BY <1>1, <1>3 DEF TypeOK
<1>6. OwnersInv' BY <1>1, <1>3 DEF OwnersInv
<1>7. \A t \in Callers : CallerInv(t)' BY <1>1 DEF CallerInv
<1>8. \A t \in Threads : ThreadInv(t)' BY <1>1, <1>4 DEF ThreadInv
<1> QED BY <1>1, <1>3, <1>5, <1>6, <1>7, <1>8

\* A thread asks, the main thread calls at once, waits or is answered: nothing
\* is pushed or taken.
LEMMA MainStep ==
  ASSUME IInv,
         \/ \E t \in Callers : Enter(t)
         \/ \E t \in Threads : WaitForClient(t)
         \/ CallInline \/ ClientAnswers
  PROVE  IInv'
<1> USE DEF IInv
<1>1. UNCHANGED <<owners, ref, tsfn, answer, fault>>
  BY DEF Enter, CallInline, WaitForClient, ClientAnswers
<1>2. "main" \in Callers /\ "main" \notin Threads /\ Threads \subseteq Callers
  BY ThreadsAssumption DEF Callers
<1>3. /\ pc' \in [Callers -> Steps] /\ awaits' \in Threads \cup {"none"}
      /\ returned' \in [Callers -> Results \cup {"none", "never"}]
      /\ \A t \in Callers : pc'[t] \in {"inside", "waiting"} => "client" \in owners
      /\ \A t \in Threads : pc'[t] = "waiting" <=> pc[t] = "waiting"
  <2>1. \A t \in Callers : returned[t] \in Results \cup {"none", "never"}
    BY DEF TypeOK, CallerInv
  <2>2. returned \in [Callers -> Results \cup {"none", "never"}]
    BY <2>1 DEF TypeOK
  <2>3. CASE \E t \in Callers : Enter(t)
    BY <1>2, <2>2, <2>3 DEF Enter, CallerInv, TypeOK, Steps
  <2>4. CASE CallInline
    <3>1. PICK b \in Behaviours : returned' = [returned EXCEPT !["main"] = CallJsMethod(b)]
      BY <2>4 DEF CallInline
    <3>2. CallJsMethod(b) \in Results \cup {"none", "never"}
      BY DEF CallJsMethod, Behaviours, Results
    <3> QED BY <1>2, <2>2, <2>4, <3>1, <3>2 DEF CallInline, CallerInv, TypeOK, Steps
  <2>5. CASE ClientAnswers \/ \E t \in Threads : WaitForClient(t)
    BY <1>2, <2>2, <2>5 DEF WaitForClient, ClientAnswers, InLoop, CallerInv, TypeOK, Steps
  <2> QED BY <2>3, <2>4, <2>5
<1>4. TypeOK' BY <1>1, <1>3 DEF TypeOK
<1>5. OwnersInv' BY <1>1 DEF OwnersInv
<1>6. \A t \in Callers : CallerInv(t)' BY <1>1, <1>3 DEF CallerInv, Results
<1>7. \A t \in Threads : ThreadInv(t)' BY <1>1, <1>3 DEF ThreadInv, Queued
<1> QED BY <1>1, <1>4, <1>5, <1>6, <1>7

\* A thread pushes its call: the function is open.
LEMMA PushStep ==
  ASSUME IInv, NEW t \in Threads, BlockingCall(t)
  PROVE  IInv'
<1> USE DEF IInv
<1>1. t \in Callers /\ pc[t] = "inside" BY DEF BlockingCall, Callers
<1>2. "client" \in owners /\ tsfn.state = "open" /\ tsfn.threads = 1 /\ ref = "held"
  BY <1>1 DEF CallerInv, OwnersInv
<1>3. /\ tsfn' = Pushed(tsfn, t)
      /\ pc' = [pc EXCEPT ![t] = "waiting"]
      /\ returned' = [returned EXCEPT ![t] = "none"]
      /\ UNCHANGED <<owners, ref, awaits, answer, fault>>
  BY <1>2 DEF BlockingCall
<1>4. tsfn \in [threads : {0, 1}, queue : Seq(Threads), state : States] BY DEF TypeOK
<1>5. /\ tsfn'.queue = Append(tsfn.queue, t)
      /\ tsfn'.threads = tsfn.threads /\ tsfn'.state = tsfn.state
  BY <1>3, <1>4 DEF Pushed
<1>6. t \notin Elements(tsfn.queue)
  BY <1>1 DEF ThreadInv, Queued, Elements
<1>7. /\ Append(tsfn.queue, t) \in Seq(Threads)
      /\ Elements(Append(tsfn.queue, t)) = Elements(tsfn.queue) \cup {t}
      /\ Distinct(Append(tsfn.queue, t))
  BY <1>4, <1>6, Appended
<1>8. tsfn' \in [threads : {0, 1}, queue : Seq(Threads), state : States]
  BY <1>3, <1>4, <1>7 DEF Pushed
<1>9. Queued' = Queued \cup {t} BY <1>5, <1>7 DEF Queued, Elements
<1>10. TypeOK' BY <1>3, <1>8 DEF TypeOK, Steps
<1>11. OwnersInv' BY <1>3, <1>5 DEF OwnersInv
<1>12. \A u \in Callers : CallerInv(u)' BY <1>2, <1>3 DEF CallerInv, TypeOK
<1>13. \A u \in Threads : ThreadInv(u)'
  <2>1. answer[t] = "none" BY <1>1 DEF ThreadInv
  <2> QED BY <1>1, <1>3, <1>9, <2>1 DEF ThreadInv, TypeOK, Callers
<1> QED BY <1>3, <1>5, <1>7, <1>10, <1>11, <1>12, <1>13

\* The main thread runs the first call: its thread waits, and has the wrapper.
LEMMA RunStep ==
  ASSUME IInv, RunCall
  PROVE  IInv'
<1> USE DEF IInv
<1>1. tsfn \in [threads : {0, 1}, queue : Seq(Threads), state : States] BY DEF TypeOK
<1>2. tsfn.queue \in Seq(Threads) /\ tsfn.queue # <<>> /\ tsfn.state = "open"
  BY <1>1 DEF RunCall, CanDispatch
<1>3. PICK u : u = Head(tsfn.queue) OBVIOUS
<1>4. /\ Tail(tsfn.queue) \in Seq(Threads) /\ Distinct(Tail(tsfn.queue))
      /\ u \in Threads /\ u \in Elements(tsfn.queue)
      /\ Elements(Tail(tsfn.queue)) = Elements(tsfn.queue) \ {u}
  BY <1>2, <1>3, Tailed
<1>5. u \in Queued /\ u \in Callers /\ pc[u] = "waiting"
  BY <1>4 DEF ThreadInv, Queued, Elements, Callers
<1>6. "client" \in owners /\ tsfn.threads = 1
  BY <1>5 DEF CallerInv, OwnersInv
<1>7. UNCHANGED <<owners, ref, pc, awaits, returned, fault>>
  BY <1>6 DEF RunCall
<1>8. /\ tsfn' \in [threads : {0, 1}, queue : Seq(Threads), state : States]
      /\ tsfn'.queue = Tail(tsfn.queue)
      /\ tsfn'.threads = tsfn.threads /\ tsfn'.state = tsfn.state
  <2>1. tsfn' = [tsfn EXCEPT !.queue = Tail(tsfn.queue), !.state = tsfn.state]
    BY <1>6 DEF RunCall, Dispatched
  <2> QED BY <1>1, <1>4, <2>1
<1>9. Queued' = Queued \ {u} BY <1>4, <1>8 DEF Queued, Elements
<1>10. PICK b \in Behaviours : answer' = [answer EXCEPT ![u] = CallJsMethod(b)]
  BY <1>3 DEF RunCall
<1>11. CallJsMethod(b) \in Results \cup {"never"} /\ CallJsMethod(b) # "none"
  BY DEF CallJsMethod, Behaviours, Results
<1>12. TypeOK' BY <1>7, <1>8, <1>10, <1>11 DEF TypeOK
<1>13. OwnersInv' BY <1>7, <1>8 DEF OwnersInv
<1>14. \A t \in Callers : CallerInv(t)' BY <1>7 DEF CallerInv
<1>15. \A t \in Threads : ThreadInv(t)'
  BY <1>4, <1>5, <1>7, <1>9, <1>10, <1>11 DEF ThreadInv, TypeOK
<1> QED BY <1>4, <1>7, <1>8, <1>12, <1>13, <1>14, <1>15

\* A thread that was answered goes on.
LEMMA ReturnStep ==
  ASSUME IInv, NEW t \in Threads, Return(t)
  PROVE  IInv'
<1> USE DEF IInv, Return
<1>1. t \in Callers /\ t \notin Queued /\ Queued' = Queued
  BY DEF Callers, ThreadInv, Queued, Results
<1>2. TypeOK' BY DEF TypeOK, Steps
<1>3. OwnersInv' BY DEF OwnersInv
<1>4. \A u \in Callers : CallerInv(u)' BY DEF CallerInv, TypeOK, Results
<1>5. \A u \in Threads : ThreadInv(u)' BY <1>1 DEF ThreadInv, TypeOK, Callers
<1> QED BY <1>2, <1>3, <1>4, <1>5

LEMMA NextIInv == IInv /\ [Next]_vars => IInv'
<1> SUFFICES ASSUME IInv, [Next]_vars PROVE IInv' OBVIOUS
<1>1. CASE SetCryptoKeyReader \/ CopyConfiguration BY <1>1, MakeStep
<1>2. CASE DropConfig \/ DropClient BY <1>2, DropStep DEF DropConfig, DropClient
<1>3. CASE CloseTsfn \/ FinalizeTsfn BY <1>3, CloseStep
<1>4. CASE RunCall BY <1>4, RunStep
<1>5. CASE Enter("main") \/ CallInline \/ ClientAnswers
  BY <1>5, MainStep DEF Callers
<1>6. ASSUME NEW t \in Threads, Key(t) \/ WaitForClient(t) PROVE IInv'
  BY <1>6, MainStep, PushStep, ReturnStep DEF Key, Callers
<1>7. CASE UNCHANGED vars
  BY <1>7 DEF vars, IInv, TypeOK, OwnersInv, CallerInv, ThreadInv, Queued
<1> QED BY <1>1, <1>2, <1>3, <1>4, <1>5, <1>6, <1>7 DEF Next, Terminated

-----------------------------------------------------------------------------
\* The inductive invariant holds in every state.
THEOREM Invariance == Spec => []IInv
BY InitIInv, NextIInv, PTL DEF Spec

\* The variables of the wrapper have their types, and its function never has
\* another hold than the one of the wrapper (CryptoKeyReader.cc).
THEOREM TypeCorrect == Spec => []TypeOK
<1>1. IInv => TypeOK BY DEF IInv
<1> QED BY <1>1, Invariance, PTL

\* Whoever is in executeCallback finds the wrapper and its open function, every
\* call that is queued is that of one thread that waits for nothing else, no
\* caller is refused, and no call runs with a wrapper that was deleted, although
\* no caller has a hold (executeCallback and ~CryptoKeyReaderWrapper).
THEOREM WrapperOutlivesCalls == Spec => []CallsOutlivedByWrapper
<1>1. IInv => CallsOutlivedByWrapper
  <2> SUFFICES ASSUME IInv PROVE CallsOutlivedByWrapper OBVIOUS
  <2> USE DEF IInv
  <2>1. \A t \in Callers :
          pc[t] \in {"inside", "waiting"} =>
            "client" \in owners /\ ref = "held" /\ tsfn.threads = 1 /\ tsfn.state = "open"
    BY DEF CallerInv, OwnersInv
  <2>2. tsfn.queue \in Seq(Threads) BY DEF TypeOK
  <2>3. Len(tsfn.queue) = Cardinality(Queued)
    BY <2>2, DistinctLength DEF Queued, Elements
  <2>4. \A t \in Queued : t \in Threads
    BY <2>2 DEF Queued
  <2> QED BY <2>1, <2>3, <2>4 DEF CallsOutlivedByWrapper, ThreadInv, CallerInv
<1> QED BY <1>1, Invariance, PTL
=============================================================================
