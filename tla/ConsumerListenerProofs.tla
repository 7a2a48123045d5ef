------------------------ MODULE ConsumerListenerProofs ------------------------
(***************************************************************************)
(* Proofs about ConsumerListener for any finite number of client threads.  *)
(***************************************************************************)
EXTENDS ConsumerListener, FiniteSetTheorems, TLAPS

\* subscribe() and the way of the initial hold.
LifeInv ==
  /\ tsfn.state = "none" <=> phase = "idle"
  /\ phase \in {"subscribing", "subscribed"} => owner = "config"
  /\ phase = "resolved" <=> owner = "closure"
  /\ owner = "config" => phase \in {"subscribing", "subscribed", "failed"}
  /\ owner = "consumer" => phase = "created" /\ consumer = "alive" /\ strong = 1
  /\ phase = "created" <=> future = "set"
  /\ phase = "created" <=> consumer # "none"

\* A function that is not open has no holder and no call.
ClosedInv == tsfn.state # "open" => tsfn.threads = 0 /\ tsfn.queue = <<>>

\* A thread and the listener call for its message.
ThreadInv(t) ==
  /\ pc[t] # "outside" => phase \in {"subscribed", "resolved", "created"}
  /\ pc[t] \in {"ready", "acquired", "pushed", "waiting"} => future = "set"
  /\ handler[t] # "none" => pc[t] \in {"pushed", "waiting"}
  /\ tsfn.queue = <<t>> => pc[t] \in {"pushed", "waiting"} /\ handler[t] = "none"
  /\ pc[t] \in {"pushed", "waiting"} => handler[t] # "none" \/ tsfn.queue = <<t>>

IInv == /\ TypeOK
        /\ HoldsBalanced
        /\ LifeInv
        /\ ClosedInv
        /\ \A t \in Threads : ThreadInv(t)

-----------------------------------------------------------------------------
\* The sequences that a queue of one call can be.
LEMMA QueueOfOne ==
  ASSUME NEW t
  PROVE  /\ Append(<<>>, t) = <<t>>
         /\ Head(<<t>>) = t
         /\ Tail(<<t>>) = <<>>
         /\ Len(<<t>>) = 1
         /\ Len(<<>>) = 0
         /\ <<t>> # <<>>
OBVIOUS

LEMMA TupleInjective ==
  ASSUME NEW t, NEW u, <<t>> = <<u>>
  PROVE  t = u
BY <<t>>[1] = t, <<u>>[1] = u

\* The holders are finite in number, and counted as they come and go.
LEMMA HoldersCount ==
  /\ IsFiniteSet(Holders)
  /\ Cardinality(Holders) \in Nat
  /\ Holders # {} => Cardinality(Holders) > 0
<1>1. Holders \subseteq Threads BY DEF Holders
<1>2. IsFiniteSet(Holders) BY <1>1, ThreadsAssumption, FS_Subset
<1>3. Cardinality(Holders) \in Nat BY <1>2, FS_CardinalityType
<1>4. Cardinality(Holders) = 0 <=> Holders = {} BY <1>2, FS_EmptySet
<1> QED BY <1>2, <1>3, <1>4

\* Every conjunct but the count of holds, for the actions outside MessageListener.
LEMMA LifecycleStep ==
  ASSUME IInv, Lifecycle
  PROVE  /\ TypeOK' /\ LifeInv' /\ ClosedInv'
         /\ \A t \in Threads : ThreadInv(t)'
<1> USE DEF IInv, TypeOK, LifeInv, ClosedInv, ThreadInv, Phases, Places, States
<1>1. CASE NewInstance BY <1>1 DEF NewInstance, Created
<1>2. CASE NewInstanceInvalid BY <1>2 DEF NewInstanceInvalid, Created
<1>3. CASE Established BY <1>3 DEF Established
<1>4. CASE SubscribeFailed BY <1>4 DEF SubscribeFailed
<1>5. CASE SubscribeOk BY <1>5 DEF SubscribeOk, GetListenerCallback
<1>6. CASE DropConfig BY <1>6 DEF DropConfig, Released
<1>7. CASE CreateConsumer BY <1>7 DEF CreateConsumer, SetListenerCallback
<1>8. CASE UseDeletedConsumer BY <1>8 DEF UseDeletedConsumer
<1>9. CASE CloseTsfn BY <1>9 DEF CloseTsfn, CanClose, Closing
<1>10. CASE FinalizeTsfn BY <1>10 DEF FinalizeTsfn, CanFinalize, Finalized
<1>11. CASE Close BY <1>11 DEF Close, Cleanup, Released
<1>12. CASE Unsubscribe BY <1>12 DEF Unsubscribe
<1>13. CASE DropReference BY <1>13 DEF DropReference
<1>14. CASE Collect BY <1>14 DEF Collect, Cleanup, Released
<1>15. CASE Dispatch
  <2>1. PICK u \in Threads : tsfn.queue = <<u>>
    BY <1>15, QueueOfOne DEF Dispatch, CanDispatch, Queues
  <2>2. /\ Head(tsfn.queue) = u
        /\ tsfn'.queue = <<>> /\ tsfn'.threads = tsfn.threads
        /\ tsfn'.state = IF tsfn.threads = 0 THEN "closing" ELSE "open"
        /\ tsfn' \in [threads : Nat, queue : Queues, state : States]
    <3>1. Head(tsfn.queue) = u /\ Tail(tsfn.queue) = <<>> /\ Len(tsfn.queue) = 1
      BY <2>1, QueueOfOne
    <3>2. tsfn' = [tsfn EXCEPT !.queue = <<>>,
                               !.state = IF tsfn.threads = 0 THEN "closing" ELSE @]
      BY <1>15, <3>1 DEF Dispatch, Dispatched
    <3> QED BY <1>15, <3>1, <3>2 DEF Dispatch, CanDispatch, Queues
  <2>3. PICK h \in {"done", "running"} : handler' = [handler EXCEPT ![u] = h]
    BY <1>15, <2>2 DEF Dispatch
  <2>4. \A t \in Threads : tsfn.queue = <<t>> => t = u BY <2>1, TupleInjective
  <2>5. \A t \in Threads : tsfn'.queue # <<t>> BY <2>2, QueueOfOne
  <2>6. TypeOK' BY <1>15, <2>2, <2>3 DEF Dispatch
  <2>7. LifeInv' BY <1>15, <2>2 DEF Dispatch, CanDispatch
  <2>8. ClosedInv' BY <2>2
  <2>9. \A t \in Threads : ThreadInv(t)'
    BY <1>15, <2>1, <2>3, <2>4, <2>5 DEF Dispatch
  <2> QED BY <2>6, <2>7, <2>8, <2>9
<1> QED
  BY <1>1, <1>2, <1>3, <1>4, <1>5, <1>6, <1>7, <1>8, <1>9, <1>10, <1>11, <1>12, <1>13, <1>14, <1>15 DEF Lifecycle

\* The same for the steps of MessageListener and of the listener's promises.
LEMMA DeliveryStep ==
  ASSUME IInv, NEW u \in Threads, Deliveries(u)
  PROVE  /\ TypeOK' /\ LifeInv' /\ ClosedInv'
         /\ \A t \in Threads : ThreadInv(t)'
<1> USE DEF IInv, TypeOK, LifeInv, ClosedInv, ThreadInv, Phases, Places, States
<1>1. CASE Deliver(u) BY <1>1 DEF Deliver, Delivering
<1>2. CASE GetConsumer(u) BY <1>2 DEF GetConsumer, Deleted
<1>3. CASE UseDeletedCallback(u) BY <1>3 DEF UseDeletedCallback, Deleted
<1>4. CASE Acquire(u) BY <1>4 DEF Acquire, CanAcquire, Acquired
<1>5. CASE AcquireRefused(u) BY <1>5 DEF AcquireRefused, Deleted, CanAcquire
<1>6. CASE Release(u) BY <1>6 DEF Release, Released
<1>7. CASE Return(u) BY <1>7 DEF Return
<1>8. CASE Fulfil(u) BY <1>8 DEF Fulfil
<1>9. CASE Reject(u) BY <1>9 DEF Reject
<1>10. CASE BlockingCall(u)
  <2>1. tsfn.queue = <<>>
    BY <1>10, QueueOfOne DEF BlockingCall, HasRoom, MaxQueue, Queues
  <2>2. /\ tsfn'.queue = <<u>> /\ tsfn'.threads = tsfn.threads /\ tsfn'.state = "open"
        /\ tsfn' \in [threads : Nat, queue : Queues, state : States]
    BY <1>10, <2>1, QueueOfOne DEF BlockingCall, Pushed, Queues
  <2>3. \A t \in Threads : tsfn'.queue = <<t>> => t = u BY <2>2, TupleInjective
  <2>4. \A t \in Threads : tsfn.queue # <<t>> BY <2>1, QueueOfOne
  <2>5. TypeOK' BY <1>10, <2>2 DEF BlockingCall
  <2>6. LifeInv' BY <1>10, <2>2 DEF BlockingCall
  <2>7. ClosedInv' BY <2>2
  <2>8. \A t \in Threads : ThreadInv(t)'
    BY <1>10, <2>2, <2>3, <2>4 DEF BlockingCall
  <2> QED BY <2>5, <2>6, <2>7, <2>8
<1> QED
  BY <1>1, <1>2, <1>3, <1>4, <1>5, <1>6, <1>7, <1>8, <1>9, <1>10 DEF Deliveries

\* The count of holds, where the owner of the initial one may change.
LEMMA LifecycleBalanced ==
  ASSUME IInv, Lifecycle
  PROVE  HoldsBalanced'
<1> DEFINE n == Cardinality(Holders)
<1>1. pc' = pc
  BY DEF Lifecycle, NewInstance, NewInstanceInvalid, Established, SubscribeFailed,
     SubscribeOk, DropConfig, CreateConsumer, Dispatch, UseDeletedConsumer, CloseTsfn,
     FinalizeTsfn, Close, Unsubscribe, DropReference, Collect
<1>2. Cardinality(Holders)' = n BY <1>1 DEF Holders
<1>3. n \in Nat BY HoldersCount
<1>4. CASE NewInstance \/ NewInstanceInvalid
  <2>1. tsfn.state = "none" /\ tsfn.threads = 0 /\ owner = "none"
    BY <1>4 DEF NewInstance, NewInstanceInvalid, IInv, TypeOK, LifeInv, ClosedInv
  <2>2. n = 0 BY <1>3, <2>1 DEF IInv, HoldsBalanced
  <2> QED BY <1>2, <1>4, <2>2 DEF NewInstance, NewInstanceInvalid, HoldsBalanced, Created
<1>5. CASE owner' = "none" /\ owner # "none" /\ tsfn' = Released(tsfn)
  BY <1>2, <1>3, <1>5 DEF IInv, TypeOK, HoldsBalanced, Released
<1>6. CASE (owner' = "none" <=> owner = "none") /\ tsfn'.threads = tsfn.threads
  BY <1>2, <1>6 DEF IInv, HoldsBalanced
<1>7. CASE DropConfig \/ Close \/ Collect
  BY <1>5, <1>6, <1>7 DEF DropConfig, Close, Collect, Cleanup
<1>8. CASE Established \/ SubscribeFailed \/ UseDeletedConsumer \/ Unsubscribe \/ DropReference
  BY <1>6, <1>8 DEF Established, SubscribeFailed, UseDeletedConsumer, Unsubscribe,
     DropReference
<1>9. CASE SubscribeOk \/ CreateConsumer
  BY <1>6, <1>9 DEF SubscribeOk, GetListenerCallback, CreateConsumer, SetListenerCallback,
     IInv, LifeInv
<1>10. CASE CloseTsfn \/ FinalizeTsfn \/ Dispatch
  BY <1>6, <1>10 DEF CloseTsfn, Closing, FinalizeTsfn, Finalized, Dispatch, Dispatched,
     IInv, TypeOK
<1> QED BY <1>4, <1>7, <1>8, <1>9, <1>10 DEF Lifecycle

\* The count of holds, where a thread acquires or releases.
LEMMA DeliveryBalanced ==
  ASSUME IInv, NEW u \in Threads, Deliveries(u)
  PROVE  HoldsBalanced'
<1> DEFINE n == Cardinality(Holders)
<1>1. n \in Nat /\ IsFiniteSet(Holders) BY HoldersCount
<1>2. owner' = owner
  BY DEF Deliveries, Deliver, GetConsumer, UseDeletedCallback, Acquire, AcquireRefused,
     BlockingCall, Release, Return, Fulfil, Reject
<1>3. CASE Acquire(u)
  <2>1. Holders' = Holders \cup {u} /\ u \notin Holders
    BY <1>3 DEF Acquire, Holders, IInv, TypeOK
  <2>2. Cardinality(Holders)' = n + 1 BY <1>1, <2>1, FS_AddElement
  <2>3. tsfn'.threads = tsfn.threads + 1 BY <1>3 DEF Acquire, Acquired, IInv, TypeOK
  <2> QED BY <1>1, <1>2, <2>2, <2>3 DEF IInv, HoldsBalanced
<1>4. CASE Release(u)
  <2>1. Holders' = Holders \ {u} /\ u \in Holders
    BY <1>4 DEF Release, Holders, IInv, TypeOK
  <2>2. Cardinality(Holders)' = n - 1 BY <1>1, <2>1, FS_RemoveElement
  <2>3. n > 0 BY <2>1, HoldersCount
  <2>4. tsfn.threads > 0 BY <1>1, <2>3 DEF IInv, HoldsBalanced
  <2>5. tsfn'.threads = tsfn.threads - 1
    BY <1>4, <2>4 DEF Release, Released, IInv, TypeOK
  <2> QED BY <1>1, <1>2, <2>2, <2>5 DEF IInv, HoldsBalanced
<1>5. CASE Holders' = Holders /\ tsfn'.threads = tsfn.threads
  BY <1>2, <1>5 DEF IInv, HoldsBalanced
<1>6. CASE BlockingCall(u)
  BY <1>5, <1>6 DEF BlockingCall, Pushed, Holders, IInv, TypeOK
<1>7. CASE Deliver(u) \/ GetConsumer(u) \/ UseDeletedCallback(u) \/ AcquireRefused(u)
           \/ Return(u) \/ Fulfil(u) \/ Reject(u)
  <2>1. tsfn' = tsfn
    BY <1>7 DEF Deliver, GetConsumer, UseDeletedCallback, AcquireRefused, Return, Fulfil,
       Reject
  <2>2. Holders' = Holders
    BY <1>7 DEF Deliver, GetConsumer, UseDeletedCallback, AcquireRefused, Return, Fulfil,
       Reject, Holders, IInv, TypeOK
  <2> QED BY <1>5, <2>1, <2>2
<1> QED BY <1>3, <1>4, <1>6, <1>7 DEF Deliveries

-----------------------------------------------------------------------------
LEMMA InitInv == Init => IInv
<1> SUFFICES ASSUME Init PROVE IInv OBVIOUS
<1>1. TypeOK
  BY DEF Init, TypeOK, Phases, Absent, Queues, States, Places
<1>2. HoldsBalanced
  <2>1. Holders = {} BY DEF Init, Holders
  <2>2. Cardinality(Holders) = 0 BY <2>1, FS_EmptySet
  <2> QED BY <2>2 DEF Init, HoldsBalanced, Absent
<1>3. LifeInv /\ ClosedInv BY DEF Init, LifeInv, ClosedInv, Absent
<1>4. \A t \in Threads : ThreadInv(t)
  BY QueueOfOne DEF Init, ThreadInv, Absent
<1> QED BY <1>1, <1>2, <1>3, <1>4 DEF IInv

LEMMA NextInv == IInv /\ [Next]_vars => IInv'
<1> SUFFICES ASSUME IInv, [Next]_vars PROVE IInv' OBVIOUS
<1>1. CASE Lifecycle BY <1>1, LifecycleStep, LifecycleBalanced DEF IInv
<1>2. CASE \E t \in Threads : Deliveries(t)
  BY <1>2, DeliveryStep, DeliveryBalanced DEF IInv
<1>3. CASE UNCHANGED vars
  BY <1>3 DEF vars, IInv, TypeOK, HoldsBalanced, Holders, LifeInv, ClosedInv, ThreadInv
<1> QED BY <1>1, <1>2, <1>3 DEF Next, Terminated

\* The inductive invariant holds of every reachable state.
THEOREM Invariance == Spec => []IInv
BY InitInv, NextInv, PTL DEF Spec

\* Every variable has its type, and no more than one call is ever queued.
THEOREM TypeCorrect == Spec => []TypeOK
<1>1. IInv => TypeOK BY DEF IInv
<1> QED BY <1>1, Invariance, PTL

\* The holds on the listener's thread-safe function are balanced, whatever
\* number of threads deliver messages and however often close() is called.
THEOREM Balanced == Spec => []HoldsBalanced
<1>1. IInv => HoldsBalanced BY DEF IInv
<1> QED BY <1>1, Invariance, PTL

\* A thread that acquired the function can call and release it: it is neither
\* refused nor left with a deleted callback.
THEOREM AcquiredIsSafe == Spec => []AcquiredStaysOpen
<1>1. ASSUME IInv, Holders # {} \/ owner # "none" PROVE tsfn.state = "open"
  <2>1. Cardinality(Holders) \in Nat /\ (Holders # {} => Cardinality(Holders) > 0)
    BY HoldersCount
  <2>2. tsfn.threads > 0 BY <1>1, <2>1 DEF IInv, HoldsBalanced
  <2> QED BY <1>1, <2>2 DEF IInv, ClosedInv
<1>2. IInv => AcquiredStaysOpen BY <1>1 DEF AcquiredStaysOpen
<1> QED BY <1>2, Invariance, PTL

\* MessageListenerProxy always has a Consumer to give to the listener.
THEOREM ConsumerIsThere == Spec => []ListenerGetsConsumer
<1>1. ASSUME IInv, tsfn.queue # <<>> PROVE future = "set" /\ consumer # "none"
  <2>1. PICK t \in Threads : tsfn.queue = <<t>> BY <1>1 DEF IInv, TypeOK, Queues
  <2> QED BY <1>1, <2>1 DEF IInv, ThreadInv, LifeInv
<1>2. ASSUME IInv, NEW t \in Threads, handler[t] # "none" PROVE consumer # "none"
  BY <1>2 DEF IInv, ThreadInv, LifeInv
<1>3. IInv => ListenerGetsConsumer BY <1>1, <1>2 DEF ListenerGetsConsumer
<1> QED BY <1>3, Invariance, PTL

\* No thread waits for a listener call that is neither queued nor under way.
THEOREM HandoffKept == Spec => []NoLostHandoff
<1>1. IInv => NoLostHandoff BY DEF IInv, ThreadInv, NoLostHandoff
<1> QED BY <1>1, Invariance, PTL

\* The collector never takes a Consumer whose listener is set.
THEOREM ListeningIsAlive == Spec => ListeningConsumerLives
<1>1. ASSUME IInv, [Next]_vars, owner = "consumer" PROVE consumer' # "destroyed"
  <2>1. consumer = "alive" /\ strong = 1 BY <1>1 DEF IInv, LifeInv
  <2>2. consumer' = consumer \/ Collect \/ CreateConsumer
    BY <1>1 DEF Next, Lifecycle, Deliveries, Terminated, vars, NewInstance,
       NewInstanceInvalid, Established, SubscribeFailed, SubscribeOk, DropConfig, Dispatch,
       UseDeletedConsumer, CloseTsfn, FinalizeTsfn, Close, Unsubscribe, DropReference,
       Deliver, GetConsumer, UseDeletedCallback, Acquire, AcquireRefused, BlockingCall,
       Release, Return, Fulfil, Reject
  <2> QED BY <2>1, <2>2 DEF Collect, CreateConsumer
<1>2. IInv /\ [Next]_vars => [owner = "consumer" => consumer' # "destroyed"]_vars
  BY <1>1
<1>3. Spec => [][owner = "consumer" => consumer' # "destroyed"]_vars
  BY <1>2, Invariance, PTL DEF Spec
<1> QED BY <1>3 DEF ListeningConsumerLives
-----------------------------------------------------------------------------
\* The refinement of MessageDelivery.

Delivered == [t \in Threads |-> HowFar(t)]

\* A step that leaves the threads alone leaves their messages where they are.
LEMMA SameDelivery ==
  ASSUME UNCHANGED <<pc, handler>>
  PROVE  Delivered' = Delivered
BY DEF Delivered, HowFar

\* A step of one thread, or of its listener call, moves the message of that thread.
LEMMA OneMoves ==
  ASSUME NEW u \in Threads,
         \A t \in Threads : t # u => pc'[t] = pc[t] /\ handler'[t] = handler[t]
  PROVE  Delivered' = [Delivered EXCEPT ![u] = HowFar(u)']
<1>1. \A t \in Threads : Delivered'[t] = [Delivered EXCEPT ![u] = HowFar(u)'][t]
  BY DEF Delivered, HowFar
<1> QED BY <1>1 DEF Delivered

\* A function that is not open was given up by its owner.
LEMMA ClosedHasNoOwner ==
  ASSUME IInv, tsfn.state # "open"
  PROVE  owner = "none"
<1>1. Cardinality(Holders) \in Nat BY HoldersCount
<1> QED BY <1>1 DEF IInv, ClosedInv, HoldsBalanced

\* What happens to the listener itself.
LEMMA LifecycleRefines ==
  ASSUME IInv, Lifecycle
  PROVE  Delivery!Next \/ UNCHANGED Delivery!vars
<1> USE DEF Delivery!vars, ListenerState, Running
<1>1. ASSUME UNCHANGED <<pc, handler>>
      PROVE  UNCHANGED [t \in Threads |-> HowFar(t)]
  BY <1>1, SameDelivery DEF Delivered
<1>2. CASE NewInstance \/ NewInstanceInvalid
  <2>1. Delivery!Begin
    BY <1>1, <1>2 DEF NewInstance, NewInstanceInvalid, Delivery!Begin, Delivery!Become,
       Created, IInv, LifeInv
  <2> QED BY <2>1 DEF Delivery!Next
<1>3. CASE Established \/ SubscribeFailed \/ Unsubscribe \/ DropReference
  BY <1>1, <1>3 DEF Established, SubscribeFailed, Unsubscribe, DropReference
<1>4. CASE SubscribeOk
  BY <1>1, <1>4 DEF SubscribeOk, GetListenerCallback, IInv, LifeInv
<1>5. CASE DropConfig
  <2>1. tsfn.state # "none" /\ tsfn'.state # "none"
    BY <1>5 DEF DropConfig, Released, IInv, TypeOK, LifeInv
  <2>2. Delivery!End BY <1>1, <1>5, <2>1 DEF DropConfig, Delivery!End, Delivery!Become
  <2> QED BY <2>2 DEF Delivery!Next
<1>6. CASE CreateConsumer
  <2>1. tsfn.state # "none" /\ owner = "closure" BY <1>6 DEF CreateConsumer, IInv, LifeInv
  <2>2. Delivery!Open
    BY <1>1, <1>6, <2>1
    DEF CreateConsumer, SetListenerCallback, Delivery!Open, Delivery!Become
  <2> QED BY <2>2 DEF Delivery!Next
<1>7. CASE UseDeletedConsumer
  <2>1. owner = "none" /\ tsfn.state # "none"
    BY <1>7 DEF UseDeletedConsumer, CanDispatch, IInv, TypeOK, LifeInv
  <2>2. Delivery!Crash
    BY <1>1, <1>7, <2>1 DEF UseDeletedConsumer, Delivery!Crash, Delivery!Become
  <2> QED BY <2>2 DEF Delivery!Next
<1>8. CASE CloseTsfn \/ FinalizeTsfn
  BY <1>1, <1>8 DEF CloseTsfn, CanClose, Closing, FinalizeTsfn, CanFinalize, Finalized,
     IInv, TypeOK
<1>9. CASE Close \/ Collect
  <2>1. CASE owner = "consumer"
    <3>1. tsfn.state # "none" /\ tsfn'.state # "none" /\ owner' = "none"
      BY <1>9, <2>1 DEF Close, Collect, Cleanup, Released, IInv, TypeOK, LifeInv
    <3>2. Delivery!End
      BY <1>1, <1>9, <2>1, <3>1 DEF Close, Collect, Delivery!End, Delivery!Become
    <3> QED BY <3>2 DEF Delivery!Next
  <2>2. CASE owner # "consumer" BY <1>1, <1>9, <2>2 DEF Close, Collect, Cleanup
  <2> QED BY <2>1, <2>2
<1>10. CASE Dispatch
  <2>1. PICK u \in Threads : tsfn.queue = <<u>>
    BY <1>10, QueueOfOne DEF Dispatch, CanDispatch, Queues, IInv, TypeOK
  <2>2. Head(tsfn.queue) = u BY <2>1, QueueOfOne
  <2>3. PICK h \in {"done", "running"} : handler' = [handler EXCEPT ![u] = h]
    BY <1>10, <2>2 DEF Dispatch
  <2>4. UNCHANGED <<owner, pc, fault>> BY <1>10 DEF Dispatch
  <2>5. Delivered' = [Delivered EXCEPT ![u] = HowFar(u)']
    BY <2>3, <2>4, OneMoves DEF IInv, TypeOK
  <2>6. tsfn.state = "open" /\ tsfn'.state # "none"
    BY <1>10 DEF Dispatch, CanDispatch, Dispatched, IInv, TypeOK
  <2>7. ListenerState' = ListenerState BY <2>4, <2>6
  <2>8. HowFar(u) = "offered" BY <2>1 DEF HowFar, IInv, ThreadInv
  <2>9. HowFar(u)' \in {"handling", "handled"} BY <2>3 DEF HowFar, IInv, TypeOK
  <2>10. ListenerState \in {"open", "ended"}
    BY <1>10, <2>1, <2>6 DEF Dispatch, IInv, TypeOK, LifeInv, ThreadInv
  <2>11. Delivery!Call(u)
    BY <2>5, <2>7, <2>8, <2>9, <2>10
    DEF Delivered, Delivery!Call, Delivery!Move, Delivery!Outcomes
  <2> QED BY <2>11 DEF Delivery!Next, Delivery!Answer
<1> QED
  BY <1>2, <1>3, <1>4, <1>5, <1>6, <1>7, <1>8, <1>9, <1>10 DEF Lifecycle

\* What happens to the message of one thread.
LEMMA DeliveryRefines ==
  ASSUME IInv, NEW u \in Threads, Deliveries(u)
  PROVE  Delivery!Next \/ UNCHANGED Delivery!vars
<1> USE DEF Delivery!vars
<1>1. Delivered' = [Delivered EXCEPT ![u] = HowFar(u)']
  BY OneMoves DEF Deliveries, Deliver, GetConsumer, UseDeletedCallback, Acquire,
     AcquireRefused, BlockingCall, Release, Return, Fulfil, Reject, IInv, TypeOK
<1>2. Delivered[u] = HowFar(u) BY DEF Delivered
<1>3. ListenerState # "crashed"
      /\ (fault' # "none" \/ ListenerState' = ListenerState)
  BY DEF Deliveries, Deliver, GetConsumer, UseDeletedCallback, Acquire, Acquired, Released,
     Pushed, AcquireRefused, BlockingCall, Release, Return, Fulfil, Reject, IInv, TypeOK,
     ListenerState, Running
<1>4. ASSUME NEW d, HowFar(u)' = d, fault' = "none"
      PROVE  Delivery!Move(u, HowFar(u), d)
  BY <1>1, <1>2, <1>3, <1>4 DEF Delivered, Delivery!Move
<1>5. ASSUME fault = "none", fault' # "none", owner = "none", tsfn.state # "none",
             UNCHANGED <<pc, handler>>
      PROVE  Delivery!Next
  <2>1. ListenerState = "ended" /\ ListenerState' = "crashed"
    BY <1>5 DEF ListenerState, Running
  <2>2. UNCHANGED [t \in Threads |-> HowFar(t)] BY <1>5, SameDelivery DEF Delivered
  <2>3. Delivery!Crash BY <2>1, <2>2 DEF Delivery!Crash, Delivery!Become
  <2> QED BY <2>3 DEF Delivery!Next
<1>6. CASE Deliver(u)
  <2>1. HowFar(u) = "none" /\ HowFar(u)' = "offered"
    BY <1>6 DEF Deliver, HowFar, IInv, TypeOK, ThreadInv
  <2>2. ListenerState # "none"
    BY <1>6 DEF Deliver, Delivering, ListenerState, IInv, LifeInv, Running
  <2>3. Delivery!Offer(u)
    BY <1>4, <1>6, <2>1, <2>2 DEF Delivery!Offer, Deliver, Running
  <2> QED BY <2>3 DEF Delivery!Next
<1>7. CASE GetConsumer(u) \/ Acquire(u) \/ BlockingCall(u) \/ Release(u)
  <2>1. HowFar(u)' = HowFar(u)
    BY <1>7 DEF GetConsumer, Acquire, BlockingCall, Release, HowFar, IInv, TypeOK
  <2>2. fault' = "none" BY <1>7 DEF GetConsumer, Acquire, BlockingCall, Release, Running
  <2> QED BY <1>1, <1>2, <1>3, <2>1, <2>2 DEF Delivered
<1>8. CASE UseDeletedCallback(u)
  <2>1. owner = "none" BY <1>8, ClosedHasNoOwner DEF UseDeletedCallback, Deleted
  <2> QED BY <1>5, <1>8, <2>1 DEF UseDeletedCallback, Deleted, Running
<1>9. CASE AcquireRefused(u)
  <2>1. HowFar(u) = "offered" /\ HowFar(u)' = "none"
    BY <1>9 DEF AcquireRefused, HowFar, IInv, TypeOK, ThreadInv
  <2>2. ListenerState = "ended"
    BY <1>9, ClosedHasNoOwner
    DEF AcquireRefused, CanAcquire, ListenerState, Running, IInv, LifeInv, ThreadInv
  <2>3. Delivery!Drop(u)
    BY <1>4, <1>9, <2>1, <2>2 DEF Delivery!Drop, AcquireRefused, Running
  <2> QED BY <2>3 DEF Delivery!Next, Delivery!Answer
<1>10. CASE Return(u)
  <2>1. HowFar(u) = "handled" /\ HowFar(u)' = "none"
    BY <1>10 DEF Return, HowFar, IInv, TypeOK
  <2>2. Delivery!Return(u) BY <1>4, <1>10, <2>1 DEF Delivery!Return, Return, Running
  <2> QED BY <2>2 DEF Delivery!Next, Delivery!Answer
<1>11. CASE (Fulfil(u) \/ Reject(u)) /\ fault' = "none"
  <2>1. HowFar(u) = "handling" /\ HowFar(u)' = "handled"
    BY <1>11 DEF Fulfil, Reject, HowFar, IInv, TypeOK
  <2>2. Delivery!Finish(u) BY <1>4, <1>11, <2>1 DEF Delivery!Finish, Delivery!Outcomes
  <2> QED BY <2>2 DEF Delivery!Next, Delivery!Answer
<1>12. CASE (Fulfil(u) \/ Reject(u)) /\ fault' # "none"
  <2>1. consumer = "destroyed" /\ fault = "none" /\ UNCHANGED <<pc, handler>>
    BY <1>12 DEF Fulfil, Reject, Running
  <2>2. owner = "none" /\ tsfn.state # "none" BY <2>1 DEF IInv, TypeOK, LifeInv
  <2> QED BY <1>5, <1>12, <2>1, <2>2
<1> QED BY <1>6, <1>7, <1>8, <1>9, <1>10, <1>11, <1>12 DEF Deliveries

\* Step by step the consumer's listener does what MessageDelivery promises: the
\* listener is called exactly once for each message, with the Consumer, unless
\* the listener ended before; no message passes it by while subscribe() settles
\* and no listener call is lost; and nothing deleted is used before the end.
THEOREM Refinement == Spec => Delivery!Contract
<1>1. Init => Delivery!Init
  BY DEF Init, Delivery!Init, ListenerState, HowFar, Absent, Running
<1>2. IInv /\ [Next]_vars => [Delivery!Next]_(Delivery!vars)
  <2>1. ASSUME UNCHANGED vars PROVE UNCHANGED Delivery!vars
    BY <2>1, SameDelivery DEF vars, Delivery!vars, Delivered, ListenerState, Running
  <2> QED BY <2>1, LifecycleRefines, DeliveryRefines DEF Next, Terminated
<1> QED BY <1>1, <1>2, Invariance, PTL DEF Spec, Delivery!Contract
=============================================================================
