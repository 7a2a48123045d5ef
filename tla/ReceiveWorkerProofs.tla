------------------------- MODULE ReceiveWorkerProofs -------------------------
(***************************************************************************)
(* Proofs about ReceiveWorker for any finite number of calls, any pool and *)
(* any timeouts.                                                           *)
(***************************************************************************)
EXTENDS ReceiveWorker, FiniteSetTheorems, TLAPS

\* The elements of a queue, and a queue in which none is twice.
Elements(s) == {s[i] : i \in DOMAIN s}
Distinct(s) == \A i, j \in DOMAIN s : s[i] = s[j] => i = j

\* The messages that have arrived.
Arrived == 1 .. arrived

\* Every variable that a step may change has its type.
TypeOK ==
  /\ endpoint \in [Calls -> Endpoints]
  /\ pc \in [Calls -> Steps]
  /\ queue \in Seq(Calls) /\ done \in Seq(Calls)
  /\ outcome \in [Calls -> {"none", "ok", "error"}]
  /\ message \in [Calls -> Arrived \cup {Null, Junk}]
  /\ promise \in [Calls -> {"none", "pending", "resolved", "rejected"}]
  /\ owners \in [Endpoints -> SUBSET (Calls \cup {"wrapper"})]
  /\ client \in [Endpoints -> {"open", "closed"}]
  /\ inbox \in [Endpoints -> Seq(Arrived)]
  /\ arrived \in Nat
  /\ fault \in {"none", "consumer", "reader"}

\* A worker is in one queue at most, and there once, at its stage.
QueueInv ==
  /\ Distinct(queue) /\ \A c \in Elements(queue) : pc[c] = "queued"
  /\ Distinct(done) /\ \A c \in Elements(done) : pc[c] = "done"

\* What a worker has found and told at its stage, and what it keeps.
WorkerInv(c) ==
  /\ pc[c] \in {"idle", "queued", "executing"} => message[c] = Null /\ outcome[c] = "none"
  /\ promise[c] \in {"resolved", "rejected"} => pc[c] = "deleted"
  /\ promise[c] = "rejected" => outcome[c] # "ok"
  /\ message[c] \in Arrived => outcome[c] = "ok"
  /\ message[c] = Junk => endpoint[c] = "reader"
  /\ pc[c] \in {"queued", "executing", "done"} => c \in owners[endpoint[c]]

\* Where a message is: in one inbox, once, or with one call.
Waiting(m, e) == m \in Elements(inbox[e])
PlaceInv(m) ==
  /\ (\E e \in Endpoints : Waiting(m, e)) \/ (\E c \in Calls : message[c] = m)
  /\ \A e, f \in Endpoints : Waiting(m, e) /\ Waiting(m, f) => e = f
  /\ \A c, d \in Calls : message[c] = m /\ message[d] = m => c = d
  /\ \A e \in Endpoints, c \in Calls : ~(Waiting(m, e) /\ message[c] = m)

IInv ==
  /\ TypeOK
  /\ QueueInv
  /\ \A c \in Calls : WorkerInv(c)
  /\ \A e \in Endpoints : Distinct(inbox[e])
  /\ \A m \in Arrived : PlaceInv(m)
  /\ fault # "consumer"

-----------------------------------------------------------------------------
\* Queues.

LEMMA Appended ==
  ASSUME NEW S, NEW s \in Seq(S), NEW x
  PROVE  /\ x \in S => Append(s, x) \in Seq(S)
         /\ Elements(Append(s, x)) = Elements(s) \cup {x}
         /\ Distinct(s) /\ x \notin Elements(s) => Distinct(Append(s, x))
<1>1. /\ DOMAIN Append(s, x) = 1 .. Len(s) + 1 /\ DOMAIN s = 1 .. Len(s) /\ Len(s) \in Nat
      /\ \A i \in DOMAIN s : Append(s, x)[i] = s[i]
      /\ Append(s, x)[Len(s) + 1] = x
  OBVIOUS
<1>2. Elements(Append(s, x)) = Elements(s) \cup {x}
  <2>1. ASSUME NEW y \in Elements(Append(s, x)) PROVE y \in Elements(s) \cup {x}
    <3>1. PICK i \in DOMAIN Append(s, x) : y = Append(s, x)[i] BY <2>1 DEF Elements
    <3> QED BY <1>1, <3>1 DEF Elements
  <2>2. ASSUME NEW y \in Elements(s) PROVE y \in Elements(Append(s, x))
    <3>1. PICK i \in DOMAIN s : y = s[i] BY <2>2 DEF Elements
    <3> QED BY <1>1, <3>1 DEF Elements
  <2>3. x \in Elements(Append(s, x))
    <3>1. Len(s) + 1 \in DOMAIN Append(s, x) BY <1>1
    <3> QED BY <1>1, <3>1 DEF Elements
  <2> QED BY <2>1, <2>2, <2>3
<1>3. Distinct(s) /\ x \notin Elements(s) => Distinct(Append(s, x))
  BY <1>1 DEF Distinct, Elements
<1> QED BY <1>2, <1>3

LEMMA Tailed ==
  ASSUME NEW S, NEW s \in Seq(S), s # <<>>, Distinct(s)
  PROVE  /\ Tail(s) \in Seq(S) /\ Distinct(Tail(s))
         /\ Head(s) \in S /\ Head(s) \in Elements(s)
         /\ Elements(Tail(s)) = Elements(s) \ {Head(s)}
<1>1. /\ Len(s) \in Nat \ {0} /\ DOMAIN s = 1 .. Len(s) /\ Head(s) = s[1]
      /\ DOMAIN Tail(s) = 1 .. Len(s) - 1 /\ Tail(s) \in Seq(S)
      /\ \A i \in DOMAIN Tail(s) : Tail(s)[i] = s[i + 1]
  OBVIOUS
<1>2. Head(s) \in S /\ Head(s) \in Elements(s) BY <1>1 DEF Elements
<1>3. Distinct(Tail(s))
  <2> SUFFICES ASSUME NEW i \in DOMAIN Tail(s), NEW j \in DOMAIN Tail(s), Tail(s)[i] = Tail(s)[j]
               PROVE  i = j
    BY DEF Distinct
  <2>1. i + 1 \in DOMAIN s /\ j + 1 \in DOMAIN s /\ s[i + 1] = s[j + 1] BY <1>1
  <2>2. i + 1 = j + 1 BY <2>1 DEF Distinct
  <2> QED BY <1>1, <2>2
<1>4. ASSUME NEW y \in Elements(Tail(s)) PROVE y \in Elements(s) \ {Head(s)}
  <2>1. PICK i \in DOMAIN Tail(s) : y = Tail(s)[i] BY <1>4 DEF Elements
  <2>2. i + 1 \in DOMAIN s /\ i + 1 # 1 /\ y = s[i + 1] /\ 1 \in DOMAIN s BY <1>1, <2>1
  <2> QED BY <1>1, <2>2 DEF Elements, Distinct
<1>5. ASSUME NEW y \in Elements(s), y # Head(s) PROVE y \in Elements(Tail(s))
  <2>1. PICK i \in DOMAIN s : y = s[i] BY <1>5 DEF Elements
  <2>2. i - 1 \in DOMAIN Tail(s) /\ Tail(s)[i - 1] = y BY <1>1, <1>5, <2>1
  <2> QED BY <2>2 DEF Elements
<1> QED BY <1>1, <1>2, <1>3, <1>4, <1>5
-----------------------------------------------------------------------------
\* The steps.

\* Receive and ReadNext.
LEMMA QueueStep ==
  ASSUME IInv, NEW c \in Calls, Queue(c)
  PROVE  IInv'
<1> USE DEF IInv, TypeOK, Steps, Arrived
<1>1. c \notin Elements(queue) BY DEF Queue, QueueInv
<1>2. /\ queue' \in Seq(Calls) /\ Distinct(queue')
      /\ Elements(queue') = Elements(queue) \cup {c}
  BY <1>1, Appended DEF Queue, QueueInv
<1>3. TypeOK' BY <1>2 DEF Queue
<1>4. QueueInv' BY <1>2 DEF Queue, QueueInv
<1>5. \A d \in Calls : WorkerInv(d)' BY DEF Queue, WorkerInv
<1>6. \A m \in Arrived : PlaceInv(m)' BY DEF Queue, PlaceInv, Waiting
<1> QED BY <1>3, <1>4, <1>5, <1>6 DEF Queue

\* A thread of the pool takes a worker.
LEMMA StartStep ==
  ASSUME IInv, Start
  PROVE  IInv'
<1> USE DEF IInv, TypeOK, Steps, Arrived
<1> DEFINE c == Head(queue)
<1>1. /\ queue' \in Seq(Calls) /\ Distinct(queue')
      /\ c \in Calls /\ c \in Elements(queue)
      /\ Elements(queue') = Elements(queue) \ {c}
  BY Tailed DEF Start, QueueInv
<1>2. pc[c] = "queued" BY <1>1 DEF QueueInv
<1> HIDE DEF c
<1>3. pc' = [pc EXCEPT ![c] = "executing"] BY DEF Start, c
<1>4. TypeOK' BY <1>1, <1>3 DEF Start
<1>5. QueueInv' BY <1>1, <1>2, <1>3 DEF Start, QueueInv
<1>6. \A d \in Calls : WorkerInv(d)' BY <1>1, <1>2, <1>3 DEF Start, WorkerInv
<1>7. \A m \in Arrived : PlaceInv(m)' BY DEF Start, PlaceInv, Waiting
<1> QED BY <1>4, <1>5, <1>6, <1>7 DEF Start

\* The main thread settles the promise of a worker and deletes it.
LEMMA CompleteStep ==
  ASSUME IInv, Complete
  PROVE  IInv'
<1> USE DEF IInv, TypeOK, Steps, Arrived, Endpoints
<1> DEFINE c == Head(done)
<1>1. /\ done' \in Seq(Calls) /\ Distinct(done')
      /\ c \in Calls /\ c \in Elements(done)
      /\ Elements(done') = Elements(done) \ {c}
  BY Tailed DEF Complete, QueueInv
<1>2. pc[c] = "done" BY <1>1 DEF QueueInv
<1> HIDE DEF c
<1>3. /\ pc' = [pc EXCEPT ![c] = "deleted"]
      /\ promise' = [promise EXCEPT ![c] = IF outcome[c] = "ok" THEN "resolved" ELSE "rejected"]
      /\ owners' = [owners EXCEPT ![endpoint[c]] = @ \ {c}]
      /\ fault' = IF message[c] = Junk THEN endpoint[c] ELSE fault
      /\ UNCHANGED <<endpoint, queue, outcome, message, client, inbox, arrived>>
  BY DEF Complete, SettlePromise, c
<1>4. TypeOK' BY <1>1, <1>3
<1>5. QueueInv' BY <1>1, <1>2, <1>3 DEF QueueInv
<1>6. \A d \in Calls : WorkerInv(d)' BY <1>1, <1>2, <1>3 DEF WorkerInv
<1>7. \A m \in Arrived : PlaceInv(m)' BY <1>3 DEF PlaceInv, Waiting
<1>8. fault' # "consumer" BY <1>1, <1>3 DEF WorkerInv
<1> QED BY <1>3, <1>4, <1>5, <1>6, <1>7, <1>8

\* close(), and the collector.
LEMMA EndpointStep ==
  ASSUME IInv, NEW e \in Endpoints, Close(e) \/ Collect(e)
  PROVE  IInv'
<1> USE DEF IInv, TypeOK, workers
<1>1. UNCHANGED <<endpoint, pc, queue, done, outcome, message, promise, inbox, arrived, fault>>
  BY DEF Close, Collect
<1>2. client' \in [Endpoints -> {"open", "closed"}]
      /\ owners' \in [Endpoints -> SUBSET (Calls \cup {"wrapper"})]
  <2>1. CASE Close(e) BY <2>1 DEF Close
  <2>2. CASE Collect(e) BY <2>2 DEF Collect
  <2> QED BY <2>1, <2>2
<1>3. \A c \in Calls : c \in owners[endpoint[c]] => c \in owners'[endpoint[c]]
  <2>1. CASE Close(e) BY <2>1 DEF Close
  <2>2. CASE Collect(e) BY <2>2, PoolAssumption DEF Collect
  <2> QED BY <2>1, <2>2
<1>4. TypeOK' /\ QueueInv' BY <1>1, <1>2 DEF QueueInv, Arrived
<1>5. \A c \in Calls : WorkerInv(c)' BY <1>1, <1>3 DEF WorkerInv, Arrived
<1>6. \A m \in Arrived : PlaceInv(m)' BY <1>1 DEF PlaceInv, Waiting
<1> QED BY <1>1, <1>4, <1>5, <1>6 DEF Arrived

\* A message comes: it is a new one, and in one inbox.
LEMMA ArriveStep ==
  ASSUME IInv, NEW e \in Endpoints, Arrive(e)
  PROVE  IInv'
<1> USE DEF IInv, TypeOK, Steps
<1> DEFINE new == arrived + 1
<1>1. /\ UNCHANGED <<endpoint, pc, queue, done, outcome, message, promise, owners, client, fault>>
      /\ arrived' = new
      /\ inbox' = [inbox EXCEPT ![e] = Append(@, new)]
  BY DEF Arrive, workers
<1>2. Arrived' = Arrived \cup {new} /\ new \notin Arrived /\ new \in Nat
  BY <1>1 DEF Arrived
<1>3. \A f \in Endpoints : inbox[f] \in Seq(Arrived') /\ inbox[f] \in Seq(Arrived)
                           /\ Elements(inbox[f]) \subseteq Arrived
  BY <1>2 DEF Elements
<1>4. /\ Append(inbox[e], new) \in Seq(Arrived') /\ Distinct(Append(inbox[e], new))
      /\ Elements(Append(inbox[e], new)) = Elements(inbox[e]) \cup {new}
  BY <1>2, <1>3, Appended
<1>5. TypeOK' BY <1>1, <1>2, <1>3, <1>4
<1>6. QueueInv' BY <1>1 DEF QueueInv
<1>7. \A c \in Calls : message[c] # new /\ message'[c] = message[c]
  <2>1. new \notin Arrived \cup {Null, Junk} BY <1>2 DEF Null, Junk
  <2> QED BY <1>1, <2>1
<1>8. \A c \in Calls : WorkerInv(c)' BY <1>1, <1>2, <1>7 DEF WorkerInv
<1>9. \A f \in Endpoints : Distinct(inbox'[f])
  BY <1>1, <1>4
<1>10. \A m, f : f \in Endpoints => (Waiting(m, f)' <=> Waiting(m, f) \/ (f = e /\ m = new))
  BY <1>1, <1>4 DEF Waiting
<1>11. \A m \in Arrived' : PlaceInv(m)'
  <2>1. \A m \in Arrived : PlaceInv(m)' BY <1>2, <1>7, <1>10 DEF PlaceInv
  <2>2. ASSUME NEW m, m = new PROVE PlaceInv(m)'
    <3>1. \A f \in Endpoints : Waiting(m, f)' <=> f = e
      BY <1>2, <1>3, <1>10, <2>2 DEF Waiting
    <3>2. \A c \in Calls : message'[c] # m BY <1>7, <2>2
    <3> QED BY <3>1, <3>2 DEF PlaceInv
  <2> QED BY <1>2, <2>1, <2>2
<1> QED BY <1>1, <1>5, <1>6, <1>8, <1>9, <1>11

\* Execute ends, with a message or without.
LEMMA ExecutedQueues ==
  ASSUME IInv, NEW c \in Calls, pc[c] = "executing", NEW r \in {"ok", "error"},
         Executed(c, r), UNCHANGED queue
  PROVE  /\ QueueInv' /\ done' \in Seq(Calls)
         /\ pc' \in [Calls -> Steps] /\ outcome' \in [Calls -> {"none", "ok", "error"}]
<1> USE DEF IInv, TypeOK, Steps
<1>1. c \notin Elements(done) /\ c \notin Elements(queue) BY DEF QueueInv
<1>2. /\ done' \in Seq(Calls) /\ Distinct(done')
      /\ Elements(done') = Elements(done) \cup {c}
  BY <1>1, Appended DEF Executed, QueueInv
<1>3. QueueInv' BY <1>1, <1>2 DEF Executed, QueueInv
<1> QED BY <1>2, <1>3 DEF Executed

LEMMA TakeStep ==
  ASSUME IInv, NEW c \in Calls, Take(c)
  PROVE  IInv'
<1> USE DEF IInv, TypeOK, Arrived
<1> DEFINE e == endpoint[c]
           taken == Head(inbox[e])
<1>1. e \in Endpoints /\ inbox[e] \in Seq(Arrived) /\ inbox[e] # <<>> BY DEF Take
<1>2. /\ Tail(inbox[e]) \in Seq(Arrived) /\ Distinct(Tail(inbox[e]))
      /\ taken \in Arrived /\ taken \in Elements(inbox[e])
      /\ Elements(Tail(inbox[e])) = Elements(inbox[e]) \ {taken}
  BY <1>1, Tailed
<1>3. /\ pc[c] = "executing" /\ Executed(c, "ok")
      /\ message' = [message EXCEPT ![c] = taken]
      /\ inbox' = [inbox EXCEPT ![e] = Tail(@)]
      /\ UNCHANGED <<endpoint, queue, promise, owners, client, arrived, fault>>
  BY DEF Take
<1> HIDE DEF e, taken
<1>4. TypeOK' BY <1>1, <1>2, <1>3, ExecutedQueues
<1>5. QueueInv' BY <1>3, ExecutedQueues
<1>6. \A d \in Calls : WorkerInv(d)'
  BY <1>2, <1>3 DEF WorkerInv, Executed, Steps, Junk, Null
<1>7. \A f \in Endpoints : Distinct(inbox'[f]) BY <1>2, <1>3
<1>8. \A m, f : f \in Endpoints => (Waiting(m, f)' <=> Waiting(m, f) /\ ~(f = e /\ m = taken))
  BY <1>1, <1>2, <1>3 DEF Waiting
<1>9. \A f \in Endpoints : Waiting(taken, f) => f = e
  BY <1>1, <1>2 DEF PlaceInv, Waiting
<1>10. \A d \in Calls : message[d] # taken BY <1>1, <1>2 DEF PlaceInv, Waiting
<1>11. \A d \in Calls : message'[d] = IF d = c THEN taken ELSE message[d] BY <1>3
<1>12. message[c] = Null /\ Null \notin Arrived BY <1>3 DEF WorkerInv, Null
<1>13. \A m \in Arrived : PlaceInv(m)'
  <2> SUFFICES ASSUME NEW m \in Arrived PROVE PlaceInv(m)' OBVIOUS
  <2>1. CASE m = taken BY <1>8, <1>9, <1>10, <1>11, <2>1 DEF PlaceInv
  <2>2. CASE m # taken
    <3>1. \A f \in Endpoints : Waiting(m, f)' <=> Waiting(m, f) BY <1>8, <2>2
    <3>2. \A d \in Calls : message'[d] = m <=> message[d] = m BY <1>11, <1>12, <2>2
    <3> QED BY <3>1, <3>2 DEF PlaceInv
  <2> QED BY <2>1, <2>2
<1> QED BY <1>3, <1>4, <1>5, <1>6, <1>7, <1>13

LEMMA FailStep ==
  ASSUME IInv, NEW c \in Calls, TimeOut(c) \/ FailClosed(c)
  PROVE  IInv'
<1> USE DEF IInv, TypeOK, Arrived
<1>1. PICK m \in Unset(c) : message' = [message EXCEPT ![c] = m]
  BY DEF TimeOut, FailClosed
<1>2. /\ pc[c] = "executing" /\ Executed(c, "error")
      /\ UNCHANGED <<endpoint, queue, promise, owners, client, inbox, arrived, fault>>
  BY DEF TimeOut, FailClosed
<1>3. m \in {Null, Junk} /\ m \notin Arrived /\ (m = Junk => endpoint[c] = "reader")
  BY <1>1 DEF Unset, Null, Junk, Endpoints
<1>4. message[c] = Null /\ Null \notin Arrived BY <1>2 DEF WorkerInv, Null
<1>5. TypeOK' BY <1>1, <1>2, <1>3, ExecutedQueues
<1>6. QueueInv' BY <1>2, ExecutedQueues
<1>7. \A d \in Calls : WorkerInv(d)'
  BY <1>1, <1>2, <1>3 DEF WorkerInv, Executed, Steps
<1>8. \A n \in Arrived, d \in Calls : message'[d] = n <=> message[d] = n
  BY <1>1, <1>3, <1>4
<1>9. \A n \in Arrived : PlaceInv(n)' BY <1>2, <1>8 DEF PlaceInv, Waiting
<1> QED BY <1>2, <1>5, <1>6, <1>7, <1>9

-----------------------------------------------------------------------------
LEMMA InitInv == Init => IInv
<1> SUFFICES ASSUME Init PROVE IInv OBVIOUS
<1> USE DEF Init
<1>1. Arrived = {} BY DEF Arrived
<1>2. Elements(<<>>) = {} /\ Distinct(<<>>) BY DEF Elements, Distinct
<1>3. TypeOK BY <1>1 DEF TypeOK, Steps, Endpoints
<1>4. QueueInv BY <1>2 DEF QueueInv
<1>5. \A c \in Calls : WorkerInv(c) BY <1>1 DEF WorkerInv, Null, Junk
<1> QED BY <1>1, <1>2, <1>3, <1>4, <1>5 DEF IInv

LEMMA NextInv == IInv /\ [Next]_vars => IInv'
<1> SUFFICES ASSUME IInv, [Next]_vars PROVE IInv' OBVIOUS
<1>1. CASE UNCHANGED vars
  BY <1>1 DEF vars, workers, IInv, TypeOK, QueueInv, WorkerInv, PlaceInv, Waiting, Arrived
<1> QED
  BY <1>1, QueueStep, StartStep, CompleteStep, EndpointStep, ArriveStep, TakeStep, FailStep
  DEF Next, Execute, Terminated

\* The inductive invariant holds of every reachable state.
THEOREM Invariance == Spec => []IInv
BY InitInv, NextInv, PTL DEF Spec

\* A message is in one place: the client's queue, or the call that it was given
\* to, which does not reject.
THEOREM MessagesKept == Spec => []NoMessageLost
<1>1. IInv => NoMessageLost
  <2> SUFFICES ASSUME IInv, NEW m \in 1 .. arrived
               PROVE  LET waiting == {e \in Endpoints : \E i \in DOMAIN inbox[e] : inbox[e][i] = m}
                      IN /\ Cardinality(waiting) + Cardinality(Receivers(m)) = 1
                         /\ \A c \in Receivers(m) : outcome[c] = "ok" /\ promise[c] # "rejected"
    BY DEF NoMessageLost
  <2> DEFINE waiting == {e \in Endpoints : \E i \in DOMAIN inbox[e] : inbox[e][i] = m}
  <2>1. m \in Arrived /\ PlaceInv(m) BY DEF IInv, Arrived
  <2>2. waiting = {e \in Endpoints : Waiting(m, e)} BY DEF Waiting, Elements
  <2>3. \A c \in Receivers(m) : outcome[c] = "ok" /\ promise[c] # "rejected"
    BY <2>1 DEF Receivers, IInv, WorkerInv
  <2> HIDE DEF waiting
  <2>4. ASSUME \E e \in Endpoints : Waiting(m, e)
        PROVE  Cardinality(waiting) + Cardinality(Receivers(m)) = 1
    <3>1. PICK e \in Endpoints : Waiting(m, e) BY <2>4
    <3>2. waiting = {e} /\ Receivers(m) = {} BY <2>1, <2>2, <3>1 DEF PlaceInv, Receivers
    <3>3. Cardinality(waiting) = 1 /\ Cardinality(Receivers(m)) = 0
      BY <3>2, FS_Singleton, FS_EmptySet
    <3> QED BY <3>3
  <2>5. ASSUME ~\E e \in Endpoints : Waiting(m, e)
        PROVE  Cardinality(waiting) + Cardinality(Receivers(m)) = 1
    <3>1. PICK c \in Calls : message[c] = m BY <2>1, <2>5 DEF PlaceInv
    <3>2. waiting = {} /\ Receivers(m) = {c}
      BY <2>1, <2>2, <2>5, <3>1 DEF PlaceInv, Receivers
    <3>3. Cardinality(waiting) = 0 /\ Cardinality(Receivers(m)) = 1
      BY <3>2, FS_Singleton, FS_EmptySet
    <3> QED BY <3>3
  <2>6. Cardinality(waiting) + Cardinality(Receivers(m)) = 1 BY <2>4, <2>5
  <2> QED BY <2>3, <2>6 DEF waiting
<1> QED BY <1>1, Invariance, PTL

\* A worker keeps the client's object until it is deleted, and a receive that
\* failed frees nothing.
THEOREM MemoryKept == Spec => []WorkerMemoryKept
<1>1. IInv => WorkerMemoryKept BY DEF IInv, WorkerInv, WorkerMemoryKept
<1> QED BY <1>1, Invariance, PTL
=============================================================================
