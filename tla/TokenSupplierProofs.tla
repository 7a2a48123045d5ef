------------------------- MODULE TokenSupplierProofs -------------------------
(***************************************************************************)
(* Proofs about TokenSupplier for any Clients that share an Authentication *)
(* and any finite number of threads.                                       *)
(***************************************************************************)
EXTENDS TokenSupplier, FiniteSetTheorems, TLAPS

\* The Authentication, who keeps it, and the hold that it has.
AuthInv ==
  /\ kind = "none" <=> auth = "none"
  /\ kind # "supplier" => tsfn.state = "none"
  /\ auth # "alive" => refs = {}
  /\ kind = "supplier" =>
       tsfn.threads = Cardinality(Holders) + (IF auth = "alive" THEN 1 ELSE 0)

\* A Client keeps the Authentication, and one that is still to come has no
\* C++ client whose threads might have asked for a token.
ClientInv(c) ==
  /\ object[c] = "alive" => c \in refs
  /\ object[c] = "none" => client[c] = "none"

\* A function that is not open has no holder and no call.
ClosedInv == tsfn.state # "open" => tsfn.threads = 0 /\ tsfn.queue = <<>>

\* A thread, its call of the function and what it got.
ThreadInv(t) ==
  /\ pc[t] # "outside" => kind = "supplier"
  /\ supply[t] # "none" => pc[t] \in {"pushed", "waiting"}
  /\ tsfn.queue = <<t>> => pc[t] \in {"pushed", "waiting"} /\ supply[t] = "none"
  /\ pc[t] \in {"pushed", "waiting"} => supply[t] # "none" \/ tsfn.queue = <<t>>
  /\ object[ClientOf[t]] = "none" => pc[t] = "outside"
  /\ object[ClientOf[t]] \in {"none", "alive"} => returned[t] # "junk"

IInv == /\ TypeOK
        /\ AuthInv
        /\ \A c \in Clients : ClientInv(c)
        /\ ClosedInv
        /\ \A t \in Threads : ThreadInv(t)

-----------------------------------------------------------------------------
\* The sequences that a queue of one call can be.
LEMMA QueueOfOne ==
  ASSUME NEW t
  PROVE  /\ Append(<<>>, t) = <<t>>
         /\ Head(<<t>>) = t
         /\ Tail(<<t>>) = <<>>
         /\ Len(<<t>>) = 1
         /\ Len(<<>>) = 0
         /\ <<t>> # <<>>
OBVIOUS

LEMMA TupleInjective ==
  ASSUME NEW t, NEW u, <<t>> = <<u>>
  PROVE  t = u
BY <<t>>[1] = t, <<u>>[1] = u

\* The holders are finite in number, and counted as they come and go.
LEMMA HoldersCount ==
  /\ IsFiniteSet(Holders)
  /\ Cardinality(Holders) \in Nat
  /\ Holders # {} => Cardinality(Holders) > 0
<1>1. Holders \subseteq Threads BY DEF Holders
<1>2. IsFiniteSet(Holders) BY <1>1, ClientsAssumption, FS_Subset
<1>3. Cardinality(Holders) \in Nat BY <1>2, FS_CardinalityType
<1>4. Cardinality(Holders) = 0 <=> Holders = {} BY <1>2, FS_EmptySet
<1> QED BY <1>2, <1>3, <1>4

\* The event loop takes the only call, that of thread u, out of the queue.
Popped(u) ==
  /\ tsfn.queue = <<u>> /\ Head(tsfn.queue) = u
  /\ tsfn'.queue = <<>> /\ tsfn'.threads = tsfn.threads
  /\ tsfn'.state = IF tsfn.threads = 0 THEN "closing" ELSE "open"
  /\ tsfn' \in [threads : Nat, queue : Queues, state : States]
  /\ \A t \in Threads : tsfn.queue = <<t>> => t = u
  /\ \A t \in Threads : tsfn'.queue # <<t>>

LEMMA DispatchedQueue ==
  ASSUME TypeOK, CanDispatch(tsfn), tsfn' = Dispatched(tsfn)
  PROVE  \E u \in Threads : Popped(u)
<1>1. PICK u \in Threads : tsfn.queue = <<u>>
  BY QueueOfOne DEF TypeOK, CanDispatch, Queues
<1>2. Head(tsfn.queue) = u /\ Tail(tsfn.queue) = <<>> /\ Len(tsfn.queue) = 1
  BY <1>1, QueueOfOne
<1>3. tsfn' = [tsfn EXCEPT !.queue = <<>>,
                           !.state = IF tsfn.threads = 0 THEN "closing" ELSE @]
  BY <1>2 DEF Dispatched
<1>4. /\ tsfn'.queue = <<>> /\ tsfn'.threads = tsfn.threads
      /\ tsfn'.state = IF tsfn.threads = 0 THEN "closing" ELSE "open"
      /\ tsfn' \in [threads : Nat, queue : Queues, state : States]
  BY <1>3 DEF TypeOK, CanDispatch, Queues, States
<1>5. \A t \in Threads : tsfn.queue = <<t>> => t = u BY <1>1, TupleInjective
<1>6. \A t \in Threads : tsfn'.queue # <<t>> BY <1>4, QueueOfOne
<1> QED BY <1>1, <1>2, <1>4, <1>5, <1>6 DEF Popped

\* Every conjunct but the count of holds, for the steps of the main thread.
LEMMA ObjectsStep ==
  ASSUME IInv, Objects
  PROVE  /\ TypeOK' /\ ClosedInv'
         /\ \A c \in Clients : ClientInv(c)'
         /\ \A t \in Threads : ThreadInv(t)'
<1> USE ClientsAssumption
    DEF IInv, TypeOK, AuthInv, ClientInv, ClosedInv, ThreadInv, Steps, Supplies, States, InLoop,
        Running, lifecycle
<1>1. CASE NewAuthentication BY <1>1 DEF NewAuthentication, Plugin, Created, Absent, Queues
<1>2. CASE DropAuthentication BY <1>2 DEF DropAuthentication
<1>3. CASE CollectAuthentication BY <1>3 DEF CollectAuthentication, Released
<1>4. CASE CloseTsfn BY <1>4 DEF CloseTsfn, CanClose, Closing
<1>5. CASE FinalizeTsfn BY <1>5 DEF FinalizeTsfn, CanFinalize, Finalized
<1>6. CASE HasNextReturns BY <1>6 DEF HasNextReturns
<1>7. ASSUME NEW c \in Clients, NewClient(c)
      PROVE  /\ TypeOK' /\ ClosedInv'
             /\ \A d \in Clients : ClientInv(d)'
             /\ \A t \in Threads : ThreadInv(t)'
  BY <1>7 DEF NewClient, KeepAuthentication
<1>8. ASSUME NEW c \in Clients, CloseClient(c) \/ FreeClient(c) \/ ClientStopped(c)
      PROVE  /\ TypeOK' /\ ClosedInv'
             /\ \A d \in Clients : ClientInv(d)'
             /\ \A t \in Threads : ThreadInv(t)'
  BY <1>8 DEF CloseClient, FreeClient, ClientStopped
<1>9. ASSUME NEW c \in Clients, CollectClient(c)
      PROVE  /\ TypeOK' /\ ClosedInv'
             /\ \A d \in Clients : ClientInv(d)'
             /\ \A t \in Threads : ThreadInv(t)'
  BY <1>9 DEF CollectClient
<1>10. CASE Proxy
  <2>1. PICK u \in Threads : Popped(u) BY <1>10, DispatchedQueue DEF Proxy
  <2>2. PICK s \in Settled \cup {"running"} : supply' = [supply EXCEPT ![u] = s]
    BY <1>10, <2>1 DEF Proxy, Popped
  <2>3. UNCHANGED <<lifecycle, pc, returned, fault>> BY <1>10 DEF Proxy
  <2>4. TypeOK' BY <2>1, <2>2, <2>3 DEF Popped, Settled
  <2>5. ClosedInv' BY <2>1 DEF Popped
  <2>6. \A t \in Threads : ThreadInv(t)' BY <2>1, <2>2, <2>3 DEF Popped, Settled
  <2> QED BY <2>3, <2>4, <2>5, <2>6
<1>11. CASE \E t \in Threads : HasNext(t) BY <1>11 DEF HasNext
<1> QED BY <1>1, <1>2, <1>3, <1>4, <1>5, <1>6, <1>7, <1>8, <1>9, <1>10, <1>11 DEF Objects

\* The same for a thread in TokenSupplier and for the promise of its token.
LEMMA SupplyStep ==
  ASSUME IInv, NEW u \in Threads, Supply(u)
  PROVE  /\ TypeOK' /\ ClosedInv'
         /\ \A c \in Clients : ClientInv(c)'
         /\ \A t \in Threads : ThreadInv(t)'
<1> USE ClientsAssumption
    DEF IInv, TypeOK, ClientInv, ClosedInv, ThreadInv, Steps, Supplies, States, lifecycle
<1>1. CASE Enter(u) BY <1>1 DEF Enter
<1>2. CASE Acquire(u) BY <1>2 DEF Acquire, CanAcquire, Acquired
<1>3. CASE AcquireRefused(u)
  <2>1. tsfn.state # "open" /\ kind = "supplier"
    BY <1>3 DEF AcquireRefused, CanAcquire
  <2>2. auth # "alive" BY <2>1, HoldersCount DEF AuthInv
  <2>3. \A c \in Clients : object[c] # "alive" BY <2>2 DEF AuthInv
  <2>4. object[ClientOf[u]] = "collected" BY <1>3, <2>3 DEF AcquireRefused
  <2> QED BY <1>3, <2>4 DEF AcquireRefused
<1>4. CASE UseDeletedSupplier(u) BY <1>4 DEF UseDeletedSupplier
<1>5. CASE Release(u) BY <1>5 DEF Release, Released
<1>6. CASE Return(u) BY <1>6 DEF Return
<1>7. CASE SettlePromise(u) BY <1>7 DEF SettlePromise, Settled
<1>8. CASE BlockingCall(u)
  <2>1. tsfn.queue = <<>>
    BY <1>8, QueueOfOne DEF BlockingCall, HasRoom, MaxQueue, Queues
  <2>2. /\ tsfn'.queue = <<u>> /\ tsfn'.threads = tsfn.threads /\ tsfn'.state = "open"
        /\ tsfn' \in [threads : Nat, queue : Queues, state : States]
    BY <1>8, <2>1, QueueOfOne DEF BlockingCall, Pushed, Queues
  <2>3. \A t \in Threads : tsfn'.queue = <<t>> => t = u BY <2>2, TupleInjective
  <2>4. \A t \in Threads : tsfn.queue # <<t>> BY <2>1, QueueOfOne
  <2>5. TypeOK' BY <1>8, <2>2 DEF BlockingCall
  <2>6. ClosedInv' BY <2>2
  <2>7. \A t \in Threads : ThreadInv(t)' BY <1>8, <2>2, <2>3, <2>4 DEF BlockingCall
  <2> QED BY <1>8, <2>5, <2>6, <2>7 DEF BlockingCall
<1> QED BY <1>1, <1>2, <1>3, <1>4, <1>5, <1>6, <1>7, <1>8 DEF Supply

\* The hold of the Authentication, which comes with its constructor and goes
\* with its destructor.
LEMMA ObjectsAuth ==
  ASSUME IInv, Objects
  PROVE  AuthInv'
<1> USE DEF lifecycle, InLoop, Running
<1> DEFINE n == Cardinality(Holders)
<1>1. pc' = pc
  BY DEF Objects, NewAuthentication, DropAuthentication, CollectAuthentication, CloseTsfn,
     FinalizeTsfn, Proxy, HasNextReturns, NewClient, CloseClient, CollectClient, FreeClient,
     ClientStopped, HasNext
<1>2. Cardinality(Holders)' = n BY <1>1 DEF Holders
<1>3. n \in Nat BY HoldersCount
<1>4. CASE NewAuthentication
  <2>1. \A t \in Threads : pc[t] = "outside"
    BY <1>4 DEF NewAuthentication, IInv, AuthInv, ThreadInv
  <2>2. Holders = {} BY <2>1 DEF Holders
  <2>3. n = 0 BY <2>2, FS_EmptySet
  <2> QED
    BY <1>2, <1>4, <2>3 DEF NewAuthentication, Plugin, AuthInv, Created, Absent
<1>5. CASE CollectAuthentication
  BY <1>2, <1>3, <1>5 DEF CollectAuthentication, Released, IInv, TypeOK, AuthInv
<1>6. ASSUME UNCHANGED <<kind, auth>>, tsfn'.threads = tsfn.threads,
             tsfn.state = "none" => tsfn'.state = "none", auth # "alive" => refs' = {}
      PROVE  AuthInv'
  BY <1>2, <1>6 DEF IInv, AuthInv
<1>7. CASE CloseTsfn \/ FinalizeTsfn \/ Proxy
  BY <1>6, <1>7
  DEF CloseTsfn, CanClose, Closing, FinalizeTsfn, CanFinalize, Finalized, Proxy, CanDispatch,
      Dispatched, IInv, TypeOK, AuthInv
<1>8. CASE DropAuthentication \/ HasNextReturns \/ \E t \in Threads : HasNext(t)
  BY <1>6, <1>8 DEF DropAuthentication, HasNextReturns, HasNext, IInv, AuthInv
<1>9. ASSUME NEW c \in Clients, NewClient(c) \/ CollectClient(c) \/ CloseClient(c)
                                \/ FreeClient(c) \/ ClientStopped(c)
      PROVE  AuthInv'
  BY <1>6, <1>9 DEF NewClient, CollectClient, CloseClient, FreeClient, ClientStopped, IInv,
     AuthInv
<1> QED BY <1>4, <1>5, <1>7, <1>8, <1>9 DEF Objects

\* The holds of the threads.
LEMMA SupplyAuth ==
  ASSUME IInv, NEW u \in Threads, Supply(u)
  PROVE  AuthInv'
<1> USE DEF lifecycle
<1> DEFINE n == Cardinality(Holders)
<1>1. n \in Nat /\ IsFiniteSet(Holders) BY HoldersCount
<1>2. UNCHANGED <<kind, auth, refs>>
  BY DEF Supply, Enter, Acquire, AcquireRefused, UseDeletedSupplier, BlockingCall, Release,
     Return, SettlePromise
<1>3. kind = "supplier"
  BY DEF Supply, Enter, Acquire, AcquireRefused, UseDeletedSupplier, BlockingCall, Release,
     Return, SettlePromise, IInv, ThreadInv
<1>4. ASSUME tsfn'.threads - Cardinality(Holders)' = tsfn.threads - n,
             Cardinality(Holders)' \in Nat, tsfn'.threads \in Nat
      PROVE  AuthInv'
  <2>1. tsfn.threads = n + (IF auth = "alive" THEN 1 ELSE 0) /\ tsfn.threads \in Nat
    BY <1>3 DEF IInv, TypeOK, AuthInv
  <2>2. tsfn'.threads = Cardinality(Holders)' + (IF auth = "alive" THEN 1 ELSE 0)
    BY <1>1, <1>4, <2>1
  <2> QED BY <1>2, <1>3, <2>2 DEF IInv, AuthInv
<1>5. CASE Acquire(u)
  <2>1. Holders' = Holders \cup {u} /\ u \notin Holders
    BY <1>5 DEF Acquire, Holders, IInv, TypeOK
  <2>2. Cardinality(Holders)' = n + 1 BY <1>1, <2>1, FS_AddElement
  <2>3. tsfn'.threads = tsfn.threads + 1 /\ tsfn.threads \in Nat
    BY <1>5 DEF Acquire, Acquired, IInv, TypeOK
  <2> QED BY <1>1, <1>4, <2>2, <2>3
<1>6. CASE Release(u)
  <2>1. Holders' = Holders \ {u} /\ u \in Holders
    BY <1>6 DEF Release, Holders, IInv, TypeOK
  <2>2. Cardinality(Holders)' = n - 1 BY <1>1, <2>1, FS_RemoveElement
  <2>3. n > 0 BY <2>1, HoldersCount
  <2>4. tsfn.threads > 0 /\ tsfn.threads \in Nat BY <1>1, <1>3, <2>3 DEF IInv, TypeOK, AuthInv
  <2>5. tsfn'.threads = tsfn.threads - 1
    BY <1>6, <2>4 DEF Release, Released, IInv, TypeOK
  <2> QED BY <1>1, <1>4, <2>2, <2>3, <2>4, <2>5
<1>7. CASE BlockingCall(u)
  <2>1. Holders' = Holders BY <1>7 DEF BlockingCall, Holders, IInv, TypeOK
  <2>2. tsfn'.threads = tsfn.threads /\ tsfn.threads \in Nat
    BY <1>7 DEF BlockingCall, Pushed, IInv, TypeOK
  <2> QED BY <1>1, <1>4, <2>1, <2>2
<1>8. CASE Enter(u) \/ AcquireRefused(u) \/ UseDeletedSupplier(u) \/ Return(u)
           \/ SettlePromise(u)
  <2>1. tsfn' = tsfn /\ tsfn.threads \in Nat
    BY <1>8 DEF Enter, AcquireRefused, UseDeletedSupplier, Return, SettlePromise, IInv, TypeOK
  <2>2. Holders' = Holders
    BY <1>8 DEF Enter, AcquireRefused, UseDeletedSupplier, Return, SettlePromise, Holders,
       IInv, TypeOK
  <2> QED BY <1>1, <1>4, <2>1, <2>2
<1> QED BY <1>5, <1>6, <1>7, <1>8 DEF Supply

-----------------------------------------------------------------------------
LEMMA InitInv == Init => IInv
<1> SUFFICES ASSUME Init PROVE IInv OBVIOUS
<1>1. TypeOK BY DEF Init, TypeOK, Absent, Queues, States, Steps, Supplies
<1>2. AuthInv /\ ClosedInv BY DEF Init, AuthInv, ClosedInv, Absent
<1>3. \A c \in Clients : ClientInv(c) BY DEF Init, ClientInv
<1>4. \A t \in Threads : ThreadInv(t) BY QueueOfOne DEF Init, ThreadInv, Absent
<1> QED BY <1>1, <1>2, <1>3, <1>4 DEF IInv

LEMMA NextInv == IInv /\ [Next]_vars => IInv'
<1> SUFFICES ASSUME IInv, [Next]_vars PROVE IInv' OBVIOUS
<1>1. CASE UNCHANGED vars
  BY <1>1 DEF vars, lifecycle, IInv, TypeOK, AuthInv, Holders, ClientInv, ClosedInv, ThreadInv
<1> QED
  BY <1>1, ObjectsStep, ObjectsAuth, SupplyStep, SupplyAuth DEF Next, Terminated, IInv

\* The inductive invariant holds of every reachable state.
THEOREM Invariance == Spec => []IInv
BY InitInv, NextInv, PTL DEF Spec

\* Every variable has its type, and no more than one call is ever queued.
THEOREM TypeCorrect == Spec => []TypeOK
<1>1. IInv => TypeOK BY DEF IInv
<1> QED BY <1>1, Invariance, PTL

\* A pointer to the proxy data on a thread's stack is in the queue or in a
\* promise only while that thread waits, and a thread that waits has not been
\* forgotten.
THEOREM DataIsThere == Spec => []DataOutlivesUse
<1>1. ASSUME IInv PROVE DataOutlivesUse
  <2>1. \A t \in Threads : (t \in Queued) <=> tsfn.queue = <<t>>
    <3>1. CASE tsfn.queue = <<>> BY <3>1, QueueOfOne DEF Queued
    <3>2. ASSUME NEW u \in Threads, tsfn.queue = <<u>>
          PROVE  \A t \in Threads : (t \in Queued) <=> tsfn.queue = <<t>>
      BY <3>2, TupleInjective DEF Queued
    <3> QED BY <1>1, <3>1, <3>2 DEF IInv, TypeOK, Queues
  <2>2. Len(tsfn.queue) = Cardinality(Queued) /\ Queued \subseteq Threads
    <3>1. CASE tsfn.queue = <<>>
      <4>1. Queued = {} /\ Len(tsfn.queue) = 0 BY <3>1 DEF Queued
      <4> QED BY <4>1, FS_EmptySet
    <3>2. ASSUME NEW u \in Threads, tsfn.queue = <<u>>
          PROVE  Len(tsfn.queue) = Cardinality(Queued) /\ Queued \subseteq Threads
      <4>1. Queued = {u} /\ Len(tsfn.queue) = 1 BY <3>2 DEF Queued
      <4> QED BY <4>1, FS_Singleton
    <3> QED BY <1>1, <3>1, <3>2 DEF IInv, TypeOK, Queues
  <2>3. \A t \in Threads :
          (pc[t] \in {"pushed", "waiting"}) <=> (t \in Queued \/ supply[t] # "none")
    BY <1>1, <2>1 DEF IInv, ThreadInv
  <2>4. \A t \in Queued : supply[t] = "none" BY <1>1, <2>1, <2>2 DEF IInv, ThreadInv
  <2> QED BY <2>2, <2>3, <2>4 DEF DataOutlivesUse
<1>2. IInv => DataOutlivesUse BY <1>1
<1> QED BY <1>2, Invariance, PTL

\* The holds on the supplier's function are balanced, and every Client object
\* that shares the Authentication has the supplier.
THEOREM ClientsServed == Spec => []SupplierServesClients
<1>1. ASSUME IInv, kind = "supplier"
      PROVE  /\ tsfn.threads = Cardinality(Holders) + (IF auth = "alive" THEN 1 ELSE 0)
             /\ tsfn.threads > 0 => tsfn.state = "open"
             /\ \A c \in Clients : object[c] = "alive" =>
                  /\ tsfn.state = "open"
                  /\ \A t \in Threads : ClientOf[t] = c => returned[t] # "junk"
  <2>1. tsfn.threads = Cardinality(Holders) + (IF auth = "alive" THEN 1 ELSE 0)
    BY <1>1 DEF IInv, AuthInv
  <2>2. tsfn.threads > 0 => tsfn.state = "open" BY <1>1 DEF IInv, ClosedInv
  <2>3. ASSUME NEW c \in Clients, object[c] = "alive" PROVE tsfn.state = "open"
    <3>1. auth = "alive" BY <1>1, <2>3 DEF IInv, AuthInv, ClientInv
    <3> QED BY <2>1, <2>2, <3>1, HoldersCount
  <2>4. \A t \in Threads : object[ClientOf[t]] = "alive" => returned[t] # "junk"
    BY <1>1 DEF IInv, ThreadInv
  <2> QED BY <2>1, <2>2, <2>3, <2>4
<1>2. IInv => SupplierServesClients BY <1>1 DEF SupplierServesClients
<1> QED BY <1>2, Invariance, PTL
=============================================================================
