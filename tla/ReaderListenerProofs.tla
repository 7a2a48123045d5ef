------------------------- MODULE ReaderListenerProofs -------------------------
(***************************************************************************)
(* Proofs about ReaderListener for any finite number of client threads.    *)
(***************************************************************************)
EXTENDS ReaderListener, FiniteSetTheorems, TLAPS

\* createReader() and the way of the initial hold: the plain pointer is set by
\* the same step that makes the Reader and gives it the hold.
LifeInv ==
  /\ tsfn.state = "none" <=> phase = "idle"
  /\ phase \in {"creating", "opened", "resolved"} => owner = "config"
  /\ owner = "config" => phase \in {"creating", "opened", "resolved", "failed"}
  /\ owner = "reader" => phase = "created" /\ reader = "alive" /\ strong = 1
  /\ phase = "created" <=> pointer = "reader"
  /\ phase = "created" <=> reader # "none"

\* A function that is not open has no holder and no call.
ClosedInv == tsfn.state # "open" => tsfn.threads = 0 /\ tsfn.queue = <<>>

\* A thread, the pointer that it read and the listener call for its message.
ThreadInv(t) ==
  /\ pc[t] # "outside" => phase \in {"opened", "resolved", "created"}
  /\ pc[t] \in {"outside", "entered"} <=> seen[t] = "none"
  /\ seen[t] = "reader" => pointer = "reader"
  /\ handler[t] # "none" => pc[t] \in {"pushed", "waiting"}
  /\ handler[t] = "skipped" => seen[t] = "null"
  /\ handler[t] \in {"running", "done", "lost"} => seen[t] = "reader"
  /\ tsfn.queue = <<t>> => pc[t] \in {"pushed", "waiting"} /\ handler[t] = "none"
  /\ pc[t] \in {"pushed", "waiting"} => handler[t] # "none" \/ tsfn.queue = <<t>>

IInv == /\ TypeOK
        /\ HoldsBalanced
        /\ LifeInv
        /\ ClosedInv
        /\ \A t \in Threads : ThreadInv(t)

-----------------------------------------------------------------------------
\* The sequences that a queue of one call can be.
LEMMA QueueOfOne ==
  ASSUME NEW t
  PROVE  /\ Append(<<>>, t) = <<t>>
         /\ Head(<<t>>) = t
         /\ Tail(<<t>>) = <<>>
         /\ Len(<<t>>) = 1
         /\ Len(<<>>) = 0
         /\ <<t>> # <<>>
OBVIOUS

LEMMA TupleInjective ==
  ASSUME NEW t, NEW u, <<t>> = <<u>>
  PROVE  t = u
BY <<t>>[1] = t, <<u>>[1] = u

\* The holders are finite in number, and counted as they come and go.
LEMMA HoldersCount ==
  /\ IsFiniteSet(Holders)
  /\ Cardinality(Holders) \in Nat
  /\ Holders # {} => Cardinality(Holders) > 0
<1>1. Holders \subseteq Threads BY DEF Holders
<1>2. IsFiniteSet(Holders) BY <1>1, ThreadsAssumption, FS_Subset
<1>3. Cardinality(Holders) \in Nat BY <1>2, FS_CardinalityType
<1>4. Cardinality(Holders) = 0 <=> Holders = {} BY <1>2, FS_EmptySet
<1> QED BY <1>2, <1>3, <1>4

\* The event loop takes the only call, that of thread u, out of the queue.
Popped(u) ==
  /\ tsfn.queue = <<u>> /\ Head(tsfn.queue) = u
  /\ tsfn'.queue = <<>> /\ tsfn'.threads = tsfn.threads
  /\ tsfn'.state = IF tsfn.threads = 0 THEN "closing" ELSE "open"
  /\ tsfn' \in [threads : Nat, queue : Queues, state : States]
  /\ \A t \in Threads : tsfn.queue = <<t>> => t = u
  /\ \A t \in Threads : tsfn'.queue # <<t>>

LEMMA DispatchedQueue ==
  ASSUME TypeOK, CanDispatch(tsfn), tsfn' = Dispatched(tsfn)
  PROVE  \E u \in Threads : Popped(u)
<1>1. PICK u \in Threads : tsfn.queue = <<u>>
  BY QueueOfOne DEF TypeOK, CanDispatch, Queues
<1>2. Head(tsfn.queue) = u /\ Tail(tsfn.queue) = <<>> /\ Len(tsfn.queue) = 1
  BY <1>1, QueueOfOne
<1>3. tsfn' = [tsfn EXCEPT !.queue = <<>>,
                           !.state = IF tsfn.threads = 0 THEN "closing" ELSE @]
  BY <1>2 DEF Dispatched
<1>4. /\ tsfn'.queue = <<>> /\ tsfn'.threads = tsfn.threads
      /\ tsfn'.state = IF tsfn.threads = 0 THEN "closing" ELSE "open"
      /\ tsfn' \in [threads : Nat, queue : Queues, state : States]
  BY <1>3 DEF TypeOK, CanDispatch, Queues, States
<1>5. \A t \in Threads : tsfn.queue = <<t>> => t = u BY <1>1, TupleInjective
<1>6. \A t \in Threads : tsfn'.queue # <<t>> BY <1>4, QueueOfOne
<1> QED BY <1>1, <1>2, <1>4, <1>5, <1>6 DEF Popped

\* Every conjunct but the count of holds, for the actions outside ReaderListener.
LEMMA LifecycleStep ==
  ASSUME IInv, Lifecycle
  PROVE  /\ TypeOK' /\ LifeInv' /\ ClosedInv'
         /\ \A t \in Threads : ThreadInv(t)'
<1> USE DEF IInv, TypeOK, LifeInv, ClosedInv, ThreadInv, Phases, Places, States, lifecycle
<1>1. CASE NewInstance BY <1>1 DEF NewInstance, Created, Queues
<1>2. CASE Opened BY <1>2 DEF Opened
<1>3. CASE CreateFailed BY <1>3 DEF CreateFailed
<1>4. CASE CreateOk BY <1>4 DEF CreateOk
<1>5. CASE DropConfig BY <1>5 DEF DropConfig, Released
<1>6. CASE CreateReader BY <1>6 DEF CreateReader, SetListenerCallback
<1>7. CASE UseDeletedReader BY <1>7 DEF UseDeletedReader
<1>8. CASE CloseTsfn BY <1>8 DEF CloseTsfn, CanClose, Closing
<1>9. CASE FinalizeTsfn BY <1>9 DEF FinalizeTsfn, CanFinalize, Finalized
<1>10. CASE Close BY <1>10 DEF Close, Cleanup, Released
<1>11. CASE ClientClosed BY <1>11 DEF ClientClosed
<1>12. CASE DropReference BY <1>12 DEF DropReference
<1>13. CASE Collect BY <1>13 DEF Collect, Cleanup, Released
<1>14. CASE Skip \/ Dispatch
  <2>1. CanDispatch(tsfn) /\ tsfn' = Dispatched(tsfn) BY <1>14 DEF Skip, Dispatch
  <2>2. PICK u \in Threads : Popped(u) BY <2>1, DispatchedQueue
  <2>3. PICK h \in {"skipped", "done", "running", "lost"} :
          /\ handler' = [handler EXCEPT ![u] = h]
          /\ h = "skipped" <=> seen[u] = "null"
          /\ h # "skipped" <=> seen[u] = "reader"
    BY <1>14, <2>2 DEF Skip, Dispatch, Popped
  <2>4. UNCHANGED <<phase, owner, pointer, reader, strong, client, pc, seen, fault>>
        /\ held' \in {"no", "yes"}
    BY <1>14 DEF Skip, Dispatch, lifecycle
  <2>5. TypeOK' BY <2>2, <2>3, <2>4 DEF Popped
  <2>6. LifeInv' BY <2>1, <2>2, <2>4 DEF CanDispatch, Popped
  <2>7. ClosedInv' BY <2>2 DEF Popped
  <2>8. \A t \in Threads : ThreadInv(t)' BY <2>2, <2>3, <2>4 DEF Popped
  <2> QED BY <2>5, <2>6, <2>7, <2>8
<1> QED
  BY <1>1, <1>2, <1>3, <1>4, <1>5, <1>6, <1>7, <1>8, <1>9, <1>10, <1>11, <1>12, <1>13, <1>14
  DEF Lifecycle

\* The same for the steps of ReaderListener and of the listener's promises.
LEMMA DeliveryStep ==
  ASSUME IInv, NEW u \in Threads, Deliveries(u)
  PROVE  /\ TypeOK' /\ LifeInv' /\ ClosedInv'
         /\ \A t \in Threads : ThreadInv(t)'
<1> USE DEF IInv, TypeOK, LifeInv, ClosedInv, ThreadInv, Phases, Places, States, lifecycle
<1>1. CASE Deliver(u) BY <1>1 DEF Deliver, Delivering
<1>2. CASE ReadPointer(u) BY <1>2 DEF ReadPointer
<1>3. CASE UseDeletedCallback(u) BY <1>3 DEF UseDeletedCallback
<1>4. CASE Acquire(u) BY <1>4 DEF Acquire, CanAcquire, Acquired
<1>5. CASE AcquireRefused(u) BY <1>5 DEF AcquireRefused
<1>6. CASE Release(u) BY <1>6 DEF Release, Released
<1>7. CASE Return(u) BY <1>7 DEF Return
<1>8. CASE SettlePromise(u) BY <1>8 DEF SettlePromise
<1>9. CASE BlockingCall(u)
  <2>1. tsfn.queue = <<>>
    BY <1>9, QueueOfOne DEF BlockingCall, HasRoom, MaxQueue, Queues
  <2>2. /\ tsfn'.queue = <<u>> /\ tsfn'.threads = tsfn.threads /\ tsfn'.state = "open"
        /\ tsfn' \in [threads : Nat, queue : Queues, state : States]
    BY <1>9, <2>1, QueueOfOne DEF BlockingCall, Pushed, Queues
  <2>3. \A t \in Threads : tsfn'.queue = <<t>> => t = u BY <2>2, TupleInjective
  <2>4. \A t \in Threads : tsfn.queue # <<t>> BY <2>1, QueueOfOne
  <2>5. TypeOK' BY <1>9, <2>2 DEF BlockingCall
  <2>6. LifeInv' BY <1>9, <2>2 DEF BlockingCall
  <2>7. ClosedInv' BY <2>2
  <2>8. \A t \in Threads : ThreadInv(t)' BY <1>9, <2>2, <2>3, <2>4 DEF BlockingCall
  <2> QED BY <2>5, <2>6, <2>7, <2>8
<1> QED BY <1>1, <1>2, <1>3, <1>4, <1>5, <1>6, <1>7, <1>8, <1>9 DEF Deliveries

\* The count of holds, where the owner of the initial one may change.
LEMMA LifecycleBalanced ==
  ASSUME IInv, Lifecycle
  PROVE  HoldsBalanced'
<1> DEFINE n == Cardinality(Holders)
<1>1. pc' = pc
  BY DEF Lifecycle, NewInstance, Opened, CreateFailed, CreateOk, DropConfig, CreateReader,
     Skip, Dispatch, UseDeletedReader, CloseTsfn, FinalizeTsfn, Close, ClientClosed,
     DropReference, Collect
<1>2. Cardinality(Holders)' = n BY <1>1 DEF Holders
<1>3. n \in Nat BY HoldersCount
<1>4. CASE NewInstance
  <2>1. tsfn.threads = 0 /\ owner = "none"
    BY <1>4 DEF NewInstance, IInv, TypeOK, LifeInv, ClosedInv
  <2>2. n = 0 BY <1>3, <2>1 DEF IInv, HoldsBalanced
  <2> QED BY <1>2, <1>4, <2>2 DEF NewInstance, HoldsBalanced, Created
<1>5. CASE owner' = "none" /\ owner # "none" /\ tsfn' = Released(tsfn)
  BY <1>2, <1>3, <1>5 DEF IInv, TypeOK, HoldsBalanced, Released
<1>6. CASE (owner' = "none" <=> owner = "none") /\ tsfn'.threads = tsfn.threads
  BY <1>2, <1>6 DEF IInv, HoldsBalanced
<1>7. CASE DropConfig \/ Close \/ Collect
  BY <1>5, <1>6, <1>7 DEF DropConfig, Close, Collect, Cleanup
<1>8. CASE Opened \/ CreateFailed \/ CreateOk \/ UseDeletedReader \/ ClientClosed \/ DropReference
  BY <1>6, <1>8 DEF Opened, CreateFailed, CreateOk, UseDeletedReader, ClientClosed,
     DropReference, lifecycle
<1>9. CASE CreateReader
  BY <1>6, <1>9 DEF CreateReader, SetListenerCallback, IInv, LifeInv
<1>10. CASE CloseTsfn \/ FinalizeTsfn \/ Skip \/ Dispatch
  BY <1>6, <1>10 DEF CloseTsfn, Closing, FinalizeTsfn, Finalized, Skip, Dispatch, Dispatched,
     IInv, TypeOK, lifecycle
<1> QED BY <1>4, <1>7, <1>8, <1>9, <1>10 DEF Lifecycle

\* The count of holds, where a thread acquires or releases.
LEMMA DeliveryBalanced ==
  ASSUME IInv, NEW u \in Threads, Deliveries(u)
  PROVE  HoldsBalanced'
<1> DEFINE n == Cardinality(Holders)
<1>1. n \in Nat /\ IsFiniteSet(Holders) BY HoldersCount
<1>2. owner' = owner
  BY DEF Deliveries, Deliver, ReadPointer, UseDeletedCallback, Acquire, AcquireRefused,
     BlockingCall, Release, Return, SettlePromise, lifecycle
<1>3. CASE Acquire(u)
  <2>1. Holders' = Holders \cup {u} /\ u \notin Holders
    BY <1>3 DEF Acquire, Holders, IInv, TypeOK
  <2>2. Cardinality(Holders)' = n + 1 BY <1>1, <2>1, FS_AddElement
  <2>3. tsfn'.threads = tsfn.threads + 1 BY <1>3 DEF Acquire, Acquired, IInv, TypeOK
  <2> QED BY <1>1, <1>2, <2>2, <2>3 DEF IInv, HoldsBalanced
<1>4. CASE Release(u)
  <2>1. Holders' = Holders \ {u} /\ u \in Holders
    BY <1>4 DEF Release, Holders, IInv, TypeOK
  <2>2. Cardinality(Holders)' = n - 1 BY <1>1, <2>1, FS_RemoveElement
  <2>3. n > 0 BY <2>1, HoldersCount
  <2>4. tsfn.threads > 0 BY <1>1, <2>3 DEF IInv, HoldsBalanced
  <2>5. tsfn'.threads = tsfn.threads - 1
    BY <1>4, <2>4 DEF Release, Released, IInv, TypeOK
  <2> QED BY <1>1, <1>2, <2>2, <2>5 DEF IInv, HoldsBalanced
<1>5. CASE Holders' = Holders /\ tsfn'.threads = tsfn.threads
  BY <1>2, <1>5 DEF IInv, HoldsBalanced
<1>6. CASE BlockingCall(u)
  BY <1>5, <1>6 DEF BlockingCall, Pushed, Holders, IInv, TypeOK
<1>7. CASE Deliver(u) \/ ReadPointer(u) \/ UseDeletedCallback(u) \/ AcquireRefused(u)
           \/ Return(u) \/ SettlePromise(u)
  <2>1. tsfn' = tsfn
    BY <1>7 DEF Deliver, ReadPointer, UseDeletedCallback, AcquireRefused, Return,
       SettlePromise
  <2>2. Holders' = Holders
    BY <1>7 DEF Deliver, ReadPointer, UseDeletedCallback, AcquireRefused, Return,
       SettlePromise, Holders, IInv, TypeOK
  <2> QED BY <1>5, <2>1, <2>2
<1> QED BY <1>3, <1>4, <1>6, <1>7 DEF Deliveries

-----------------------------------------------------------------------------
LEMMA InitInv == Init => IInv
<1> SUFFICES ASSUME Init PROVE IInv OBVIOUS
<1>1. TypeOK BY DEF Init, TypeOK, Phases, Absent, Queues, States, Places
<1>2. HoldsBalanced
  <2>1. Holders = {} BY DEF Init, Holders
  <2>2. Cardinality(Holders) = 0 BY <2>1, FS_EmptySet
  <2> QED BY <2>2 DEF Init, HoldsBalanced, Absent
<1>3. LifeInv /\ ClosedInv BY DEF Init, LifeInv, ClosedInv, Absent
<1>4. \A t \in Threads : ThreadInv(t) BY QueueOfOne DEF Init, ThreadInv, Absent
<1> QED BY <1>1, <1>2, <1>3, <1>4 DEF IInv

LEMMA NextInv == IInv /\ [Next]_vars => IInv'
<1> SUFFICES ASSUME IInv, [Next]_vars PROVE IInv' OBVIOUS
<1>1. CASE Lifecycle BY <1>1, LifecycleStep, LifecycleBalanced DEF IInv
<1>2. CASE \E t \in Threads : Deliveries(t)
  BY <1>2, DeliveryStep, DeliveryBalanced DEF IInv
<1>3. CASE UNCHANGED vars
  BY <1>3 DEF vars, IInv, TypeOK, HoldsBalanced, Holders, LifeInv, ClosedInv, ThreadInv
<1> QED BY <1>1, <1>2, <1>3 DEF Next, Terminated

\* The inductive invariant holds of every reachable state.
THEOREM Invariance == Spec => []IInv
BY InitInv, NextInv, PTL DEF Spec

\* Every variable has its type, and no more than one call is ever queued.
THEOREM TypeCorrect == Spec => []TypeOK
<1>1. IInv => TypeOK BY DEF IInv
<1> QED BY <1>1, Invariance, PTL

\* The holds on the reader's thread-safe function are balanced, whatever number
\* of threads deliver messages and however often close() is called.
THEOREM Balanced == Spec => []HoldsBalanced
<1>1. IInv => HoldsBalanced BY DEF IInv
<1> QED BY <1>1, Invariance, PTL

\* The collector never takes a Reader whose listener is set.
THEOREM ListeningIsAlive == Spec => ListeningReaderLives
<1>1. ASSUME IInv, [Next]_vars, owner = "reader" PROVE reader' # "destroyed"
  <2>1. reader = "alive" /\ strong = 1 BY <1>1 DEF IInv, LifeInv
  <2>2. reader' = reader \/ Collect \/ CreateReader
    BY <1>1 DEF Next, Lifecycle, Deliveries, Terminated, vars, lifecycle, NewInstance,
       Opened, CreateFailed, CreateOk, DropConfig, Skip, Dispatch, UseDeletedReader,
       CloseTsfn, FinalizeTsfn, Close, ClientClosed, DropReference, Deliver, ReadPointer,
       UseDeletedCallback, Acquire, AcquireRefused, BlockingCall, Release, Return,
       SettlePromise
  <2> QED BY <2>1, <2>2 DEF Collect, CreateReader
<1>2. IInv /\ [Next]_vars => [owner = "reader" => reader' # "destroyed"]_vars
  BY <1>1
<1>3. Spec => [][owner = "reader" => reader' # "destroyed"]_vars
  BY <1>2, Invariance, PTL DEF Spec
<1> QED BY <1>3 DEF ListeningReaderLives

-----------------------------------------------------------------------------
\* The refinement of MessageDelivery.

Delivered == [t \in Threads |-> HowFar(t)]

\* A step that leaves the threads alone leaves their messages where they are.
LEMMA SameDelivery ==
  ASSUME UNCHANGED <<pc, seen, handler>>
  PROVE  Delivered' = Delivered
BY DEF Delivered, HowFar

\* A step of one thread, or of its listener call, moves the message of that thread.
LEMMA OneMoves ==
  ASSUME NEW u \in Threads,
         \A t \in Threads : t # u => /\ pc'[t] = pc[t] /\ seen'[t] = seen[t]
                                     /\ handler'[t] = handler[t]
  PROVE  Delivered' = [Delivered EXCEPT ![u] = HowFar(u)']
<1>1. \A t \in Threads : Delivered'[t] = [Delivered EXCEPT ![u] = HowFar(u)'][t]
  BY DEF Delivered, HowFar
<1> QED BY <1>1 DEF Delivered

\* A function that is not open was given up by its owner.
LEMMA ClosedHasNoOwner ==
  ASSUME IInv, tsfn.state # "open"
  PROVE  owner = "none"
<1>1. Cardinality(Holders) \in Nat BY HoldersCount
<1> QED BY <1>1 DEF IInv, ClosedInv, HoldsBalanced

\* What happens to the listener itself.
LEMMA LifecycleRefines ==
  ASSUME IInv, Lifecycle
  PROVE  Delivery!Next \/ UNCHANGED Delivery!vars
<1> USE DEF Delivery!vars, ListenerState, Running
<1>1. ASSUME UNCHANGED <<pc, seen, handler>>
      PROVE  UNCHANGED [t \in Threads |-> HowFar(t)]
  BY <1>1, SameDelivery DEF Delivered
<1>2. CASE NewInstance
  <2>1. Delivery!Begin
    BY <1>1, <1>2 DEF NewInstance, Delivery!Begin, Delivery!Become, Created, IInv, LifeInv
  <2> QED BY <2>1 DEF Delivery!Next
<1>3. CASE Opened \/ CreateFailed \/ CreateOk \/ ClientClosed \/ DropReference
  BY <1>1, <1>3 DEF Opened, CreateFailed, CreateOk, ClientClosed, DropReference
<1>4. CASE DropConfig
  <2>1. tsfn.state # "none" /\ tsfn'.state # "none"
    BY <1>4 DEF DropConfig, Released, IInv, TypeOK, LifeInv
  <2>2. Delivery!End BY <1>1, <1>4, <2>1 DEF DropConfig, Delivery!End, Delivery!Become
  <2> QED BY <2>2 DEF Delivery!Next
<1>5. CASE CreateReader
  <2>1. tsfn.state # "none" /\ owner = "config" BY <1>5 DEF CreateReader, IInv, LifeInv
  <2>2. Delivery!Open
    BY <1>1, <1>5, <2>1 DEF CreateReader, SetListenerCallback, Delivery!Open, Delivery!Become
  <2> QED BY <2>2 DEF Delivery!Next
<1>6. CASE UseDeletedReader
  <2>1. owner = "none" /\ tsfn.state # "none"
    BY <1>6 DEF UseDeletedReader, CanDispatch, IInv, TypeOK, LifeInv
  <2>2. Delivery!Crash
    BY <1>1, <1>6, <2>1 DEF UseDeletedReader, lifecycle, Delivery!Crash, Delivery!Become
  <2> QED BY <2>2 DEF Delivery!Next
<1>7. CASE CloseTsfn \/ FinalizeTsfn
  BY <1>1, <1>7 DEF CloseTsfn, CanClose, Closing, FinalizeTsfn, CanFinalize, Finalized,
     lifecycle, IInv, TypeOK
<1>8. CASE Close \/ Collect
  <2>1. CASE owner = "reader"
    <3>1. tsfn.state # "none" /\ tsfn'.state # "none" /\ owner' = "none"
      BY <1>8, <2>1 DEF Close, Collect, Cleanup, Released, IInv, TypeOK, LifeInv
    <3>2. Delivery!End
      BY <1>1, <1>8, <2>1, <3>1 DEF Close, Collect, Delivery!End, Delivery!Become
    <3> QED BY <3>2 DEF Delivery!Next
  <2>2. CASE owner # "reader" BY <1>1, <1>8, <2>2 DEF Close, Collect, Cleanup
  <2> QED BY <2>1, <2>2
<1>9. CASE Skip \/ Dispatch
  <2>1. PICK u \in Threads : Popped(u) BY <1>9, DispatchedQueue DEF Skip, Dispatch, IInv
  <2>2. PICK h \in {"skipped", "done", "running", "lost"} :
          /\ handler' = [handler EXCEPT ![u] = h]
          /\ h = "skipped" => seen[u] = "null"
          /\ h # "skipped" => seen[u] = "reader"
    BY <1>9, <2>1 DEF Skip, Dispatch, Popped
  <2>3. UNCHANGED <<phase, owner, pc, seen, fault>>
    BY <1>9 DEF Skip, Dispatch, lifecycle
  <2>4. Delivered' = [Delivered EXCEPT ![u] = HowFar(u)']
    BY <2>2, <2>3, OneMoves DEF IInv, TypeOK
  <2>5. ListenerState' = ListenerState
    BY <1>9, <2>1, <2>3 DEF Popped, Skip, Dispatch, CanDispatch
  <2>6. handler[u] = "none" /\ pc[u] # "outside"
    BY <2>1 DEF Popped, IInv, ThreadInv
  <2>7. CASE h = "skipped"
    <3>1. HowFar(u)' = HowFar(u) BY <2>2, <2>3, <2>6, <2>7 DEF HowFar, IInv, TypeOK
    <3>2. Delivered' = Delivered BY <2>4, <3>1 DEF Delivered
    <3> QED BY <2>5, <3>2 DEF Delivered
  <2>8. CASE h # "skipped"
    <3>1. HowFar(u) = "offered" BY <2>2, <2>6, <2>8 DEF HowFar
    <3>2. HowFar(u)' \in {"handling", "handled", "lost"}
      BY <2>2, <2>8 DEF HowFar, IInv, TypeOK
    <3>3. ListenerState \in {"open", "ended"}
      BY <1>9, <2>2, <2>8 DEF Dispatch, Skip, CanDispatch, IInv, TypeOK, LifeInv, ThreadInv
    <3>4. Delivery!Call(u)
      BY <2>4, <2>5, <3>1, <3>2, <3>3
      DEF Delivered, Delivery!Call, Delivery!Move, Delivery!Outcomes
    <3> QED BY <3>4 DEF Delivery!Next, Delivery!Answer
  <2> QED BY <2>7, <2>8
<1> QED BY <1>2, <1>3, <1>4, <1>5, <1>6, <1>7, <1>8, <1>9 DEF Lifecycle

\* What happens to the message of one thread.
LEMMA DeliveryRefines ==
  ASSUME IInv, NEW u \in Threads, Deliveries(u)
  PROVE  Delivery!Next \/ UNCHANGED Delivery!vars
<1> USE DEF Delivery!vars
<1>1. Delivered' = [Delivered EXCEPT ![u] = HowFar(u)']
  BY OneMoves DEF Deliveries, Deliver, ReadPointer, UseDeletedCallback, Acquire,
     AcquireRefused, BlockingCall, Release, Return, SettlePromise, IInv, TypeOK
<1>2. Delivered[u] = HowFar(u) BY DEF Delivered
<1>3. ListenerState # "crashed" /\ (UseDeletedCallback(u) \/ ListenerState' = ListenerState)
  BY DEF Deliveries, Deliver, ReadPointer, UseDeletedCallback, Acquire, Acquired, Released,
     Pushed, AcquireRefused, BlockingCall, Release, Return, SettlePromise, IInv, TypeOK,
     lifecycle, ListenerState, Running
<1>4. ASSUME NEW d, HowFar(u)' = d, ~UseDeletedCallback(u)
      PROVE  Delivery!Move(u, HowFar(u), d)
  BY <1>1, <1>2, <1>3, <1>4 DEF Delivered, Delivery!Move
<1>5. CASE ~UseDeletedCallback(u) /\ HowFar(u)' = HowFar(u)
  BY <1>1, <1>2, <1>3, <1>5 DEF Delivered
<1>6. CASE Deliver(u)
  <2>1. HowFar(u) = "none" /\ HowFar(u)' = "offered"
    BY <1>6 DEF Deliver, HowFar, IInv, TypeOK, ThreadInv
  <2>2. ListenerState # "none"
    BY <1>6 DEF Deliver, Delivering, ListenerState, IInv, LifeInv, Running
  <2>3. Delivery!Offer(u)
    BY <1>4, <1>6, <2>1, <2>2 DEF Delivery!Offer, Deliver, UseDeletedCallback
  <2> QED BY <2>3 DEF Delivery!Next
<1>7. CASE ReadPointer(u)
  <2>1. HowFar(u) = "offered" /\ HowFar(u)' = IF pointer = "null" THEN "missed" ELSE "offered"
    BY <1>7 DEF ReadPointer, HowFar, IInv, TypeOK, ThreadInv
  <2>2. ~UseDeletedCallback(u) BY <1>7 DEF ReadPointer, UseDeletedCallback
  <2>3. CASE pointer = "null"
    <3>1. phase \in {"opened", "resolved"}
      BY <1>7, <2>3 DEF ReadPointer, IInv, LifeInv, ThreadInv
    <3>2. ListenerState = "opening"
      BY <1>7, <3>1 DEF ReadPointer, ListenerState, IInv, LifeInv, Running
    <3>3. Delivery!Miss(u) BY <1>4, <2>1, <2>2, <2>3, <3>2 DEF Delivery!Miss
    <3> QED BY <3>3 DEF Delivery!Next, Delivery!Answer
  <2> QED BY <1>5, <2>1, <2>2, <2>3
<1>8. CASE UseDeletedCallback(u)
  <2>1. ListenerState = "ended" /\ ListenerState' = "crashed"
    BY <1>8, ClosedHasNoOwner
    DEF UseDeletedCallback, Deleted, ListenerState, Running, lifecycle
  <2>2. UNCHANGED [t \in Threads |-> HowFar(t)]
    BY <1>8, SameDelivery DEF UseDeletedCallback, Delivered
  <2>3. Delivery!Crash BY <2>1, <2>2 DEF Delivery!Crash, Delivery!Become
  <2> QED BY <2>3 DEF Delivery!Next
<1>9. CASE Acquire(u) \/ BlockingCall(u) \/ Release(u)
  <2>1. HowFar(u)' = HowFar(u)
    BY <1>9 DEF Acquire, BlockingCall, Release, HowFar, IInv, TypeOK
  <2>2. ~UseDeletedCallback(u)
    BY <1>9 DEF Acquire, CanAcquire, Deleted, BlockingCall, Release, UseDeletedCallback
  <2> QED BY <1>5, <2>1, <2>2
<1>10. CASE AcquireRefused(u)
  <2>1. HowFar(u) \in {"missed", "offered"} /\ HowFar(u)' = "none"
    BY <1>10 DEF AcquireRefused, HowFar, IInv, TypeOK, ThreadInv
  <2>2. ListenerState = "ended"
    BY <1>10, ClosedHasNoOwner
    DEF AcquireRefused, CanAcquire, ListenerState, Running, IInv, LifeInv, ThreadInv
  <2>3. ~UseDeletedCallback(u) BY <1>10 DEF AcquireRefused, UseDeletedCallback
  <2>4. Delivery!Return(u) \/ Delivery!Drop(u)
    BY <1>4, <2>1, <2>2, <2>3 DEF Delivery!Return, Delivery!Drop
  <2> QED BY <2>4 DEF Delivery!Next, Delivery!Answer
<1>11. CASE Return(u)
  <2>1. HowFar(u) \in {"missed", "handled"} /\ HowFar(u)' = "none"
    BY <1>11 DEF Return, HowFar, IInv, TypeOK, ThreadInv
  <2>2. ~UseDeletedCallback(u) BY <1>11 DEF Return, UseDeletedCallback
  <2>3. Delivery!Return(u) BY <1>4, <2>1, <2>2 DEF Delivery!Return
  <2> QED BY <2>3 DEF Delivery!Next, Delivery!Answer
<1>12. CASE SettlePromise(u)
  <2>1. HowFar(u) = "handling" /\ HowFar(u)' \in {"handled", "lost"}
    BY <1>12 DEF SettlePromise, HowFar, IInv, TypeOK
  <2>2. ~UseDeletedCallback(u)
    BY <1>12 DEF SettlePromise, UseDeletedCallback, IInv, ThreadInv
  <2>3. Delivery!Finish(u) BY <1>4, <2>1, <2>2 DEF Delivery!Finish, Delivery!Outcomes
  <2> QED BY <2>3 DEF Delivery!Next, Delivery!Answer
<1> QED BY <1>6, <1>7, <1>8, <1>9, <1>10, <1>11, <1>12 DEF Deliveries

\* Step by step the reader's listener does what MessageDelivery promises: the
\* listener is called once at most for each message, with the Reader; a message
\* passes it by only while the reader opens or after it ended; and nothing
\* deleted is used before that.
THEOREM Refinement == Spec => Delivery!Contract
<1>1. Init => Delivery!Init
  BY DEF Init, Delivery!Init, ListenerState, HowFar, Absent, Running
<1>2. IInv /\ [Next]_vars => [Delivery!Next]_(Delivery!vars)
  <2>1. ASSUME UNCHANGED vars PROVE UNCHANGED Delivery!vars
    BY <2>1, SameDelivery DEF vars, Delivery!vars, Delivered, ListenerState, Running
  <2> QED BY <2>1, LifecycleRefines, DeliveryRefines DEF Next, Terminated
<1> QED BY <1>1, <1>2, Invariance, PTL DEF Spec, Delivery!Contract
=============================================================================
