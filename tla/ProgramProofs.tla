---------------------------- MODULE ProgramProofs ----------------------------
(***************************************************************************)
(* Proofs about the parts of a program that MCProgram puts together, for   *)
(* any values of their constants.                                          *)
(***************************************************************************)
EXTENDS MCProgram, FiniteSetTheorems, SequenceTheorems, TLAPS

-----------------------------------------------------------------------------
\* Numbers.

\* A number that fits an int32_t is not changed when it is made one.
LEMMA NarrowFits ==
  ASSUME NEW n \in MinOf(W32) .. MaxOf(W32)
  PROVE  Narrow(n, W32) = n
<1> DEFINE h == 2^(W32 - 1)
<1>1. h \in Nat \ {0} /\ 2^W32 = 2 * h BY PowersAssumption
<1>2. MinOf(W32) = -h /\ MaxOf(W32) = h - 1 BY DEF MinOf, MaxOf
<1> HIDE DEF h
<1>3. n \in Int /\ n + h \in 0 .. 2 * h - 1 BY <1>1, <1>2
<1>4. Narrow(n, W32) = ((n + h) % (2 * h)) - h BY <1>1, <1>2, <1>3 DEF Narrow
<1>5. (n + h) % (2 * h) = n + h BY <1>1, <1>3
<1> QED BY <1>1, <1>3, <1>4, <1>5

\* Whatever integer is made an int32_t, it is one.
LEMMA NarrowRange ==
  ASSUME NEW n \in Int
  PROVE  Narrow(n, W32) \in MinOf(W32) .. MaxOf(W32)
<1> DEFINE h == 2^(W32 - 1)
<1>1. h \in Nat \ {0} /\ 2^W32 = 2 * h BY PowersAssumption
<1>2. MinOf(W32) = -h /\ MaxOf(W32) = h - 1 BY DEF MinOf, MaxOf
<1> HIDE DEF h
<1>3. Narrow(n, W32) = ((n + h) % (2 * h)) - h BY <1>1, <1>2 DEF Narrow
<1>4. (n + h) % (2 * h) \in 0 .. 2 * h - 1 BY <1>1
<1> QED BY <1>1, <1>2, <1>3, <1>4

\* Int32Value and Int64Value of a number are integers, int32_t the one and what
\* they were given if it is one.
LEMMA IntValues ==
  ASSUME NEW n \in Numbers
  PROVE  /\ Int32Value(n) \in MinOf(W32) .. MaxOf(W32)
         /\ Narrow(Int64Value(n), W32) \in MinOf(W32) .. MaxOf(W32)
         /\ n \in MinOf(W32) .. MaxOf(W32) =>
              Int32Value(n) = n /\ Narrow(Int64Value(n), W32) = n
<1> DEFINE h == 2^(W32 - 1)
           g == 2^(W64 - 1)
<1>1. h \in Nat \ {0} /\ g \in Nat \ {0} /\ h < g /\ 2^W64 = 2 * g
  <2>1. h \in Nat \ {0} /\ 2^W32 = 2 * h BY PowersAssumption
  <2>2. g \in Nat \ {0} /\ 2^W32 < g /\ 2^W64 = 2 * g BY PowersAssumption
  <2> HIDE DEF h, g
  <2> QED BY <2>1, <2>2
<1>2. MinOf(W32) = -h /\ MaxOf(W32) = h - 1 /\ MinOf(W64) = -g /\ MaxOf(W64) = g - 1
  BY DEF MinOf, MaxOf
<1>3. n = NaN \/ n \in Int
  <2>1. W64 + 1 - 1 = W64 BY WidthsAssumption
  <2>2. 2^(W64 + 1 - 1) \in Nat BY <1>1, <2>1
  <2> QED BY <2>2 DEF Numbers, MinOf, MaxOf
<1> HIDE DEF h, g
<1>4. 0 \in MinOf(W32) .. MaxOf(W32) BY <1>1, <1>2
<1>5. Int64Value(n) \in Int BY <1>1, <1>2, <1>3 DEF Int64Value
<1>6. Int32Value(n) \in MinOf(W32) .. MaxOf(W32)
  BY <1>3, <1>4, NarrowRange DEF Int32Value
<1>7. ASSUME n \in MinOf(W32) .. MaxOf(W32)
      PROVE  Int32Value(n) = n /\ Narrow(Int64Value(n), W32) = n
  <2>1. n # NaN /\ n \in Int BY <1>1, <1>2, <1>7, WidthsAssumption
  <2>2. Int64Value(n) = n BY <1>1, <1>2, <1>7, <2>1 DEF Int64Value
  <2> QED BY <1>7, <2>1, <2>2, NarrowFits DEF Int32Value
<1> QED BY <1>5, <1>6, <1>7, NarrowRange

-----------------------------------------------------------------------------
\* The router of a producer.

\* Every variable of the producer has its type.
RouterTypes ==
  /\ method \in {"none", "running", "returned"}
  /\ callback \in {"none", "pending", "running", "returned"}
  /\ answerer \in {"none", "main", "client"}
  /\ fate \in {"none", "resolved", "rejected"}
  /\ self \in BOOLEAN
  /\ producer \in {"none", "alive", "collected"}
  /\ router \in {"none", "held", "freed", "misfreed"}
  /\ open \in BOOLEAN
  /\ stack \in Seq(Sends)
  /\ sends \in [Sends -> {"idle", "routing", "accepted", "sent", "failed"}]
  /\ partition \in [Sends -> Numbers \cup {0}]
  /\ threw \subseteq Sends
  /\ target \in [Sends -> Int]
  /\ routerFault = "none"

\* How far the creation has come: before it nothing is there, the deferred keeps
\* itself until it makes the Producer, and an answer has come from the callback.
CreationInv ==
  /\ method = "none" => callback = "none" /\ fate = "none" /\ ~self /\ router = "none"
  /\ callback = "pending" => fate = "none" /\ self
  /\ fate = "resolved" => callback \in {"running", "returned"} /\ (self \/ producer # "none")
  /\ producer # "none" => method = "returned" /\ fate = "resolved" /\ ~self

\* The reference of the router is there as long as somebody has the ProducerConfig.
KeptInv ==
  /\ router = "held" => Routers!ConfigHeld
  /\ router \in {"freed", "misfreed"} => ~Routers!ConfigHeld

\* The sends that are being routed are on the stack, each once.
StackInv ==
  /\ stack # <<>> => producer = "alive" /\ router = "held"
  /\ \A i \in DOMAIN stack : sends[stack[i]] = "routing"
  /\ \A i, j \in DOMAIN stack : stack[i] = stack[j] => i = j

\* A message that was accepted goes where its router said, if there is one.
SendInv(m) ==
  /\ sends[m] # "idle" => producer # "none"
  /\ m \in threw => sends[m] = "failed"
  /\ router # "none" /\ sends[m] \in {"accepted", "sent"} =>
       (partition[m] \in 0 .. NumPartitions - 1 => target[m] = partition[m])

RouterInv ==
  /\ RouterTypes /\ CreationInv /\ KeptInv /\ StackInv
  /\ \A m \in Sends : SendInv(m)

LEMMA RouterInit == Routers!Init => RouterInv
<1> SUFFICES ASSUME Routers!Init PROVE RouterInv OBVIOUS
<1> USE DEF Routers!Init
<1>1. <<>> \in Seq(Sends) /\ DOMAIN <<>> = {} OBVIOUS
<1>2. RouterTypes
  <2>1. self \in BOOLEAN /\ open \in BOOLEAN OBVIOUS
  <2>2. partition \in [Sends -> Numbers \cup {0}] /\ target \in [Sends -> Int] OBVIOUS
  <2> QED BY <1>1, <2>1, <2>2 DEF RouterTypes
<1>3. CreationInv BY DEF CreationInv
<1>4. KeptInv BY DEF KeptInv
<1>5. StackInv BY <1>1 DEF StackInv
<1>6. \A m \in Sends : SendInv(m) BY DEF SendInv
<1> QED BY <1>2, <1>3, <1>4, <1>5, <1>6 DEF RouterInv

\* When the ProducerConfig may have been dropped, and nobody has taken it.
LEMMA DropKeeps ==
  ASSUME RouterInv, NEW place, Routers!Drop(place), Routers!ConfigHeld' => Routers!ConfigHeld
  PROVE  /\ KeptInv'
         /\ router' \in {"none", "held", "freed", "misfreed"}
         /\ router' = "none" <=> router = "none"
         /\ router = "held" /\ Routers!ConfigHeld' => router' = "held"
BY DEF Routers!Drop, RouterInv, RouterTypes, KeptInv

\* The creation: createProducer, its callback, and what they leave behind.
LEMMA CreationStep ==
  ASSUME RouterInv,
         \/ Routers!NewInstance \/ Routers!MethodReturns \/ Routers!Answer
         \/ Routers!CallbackReturns
  PROVE  RouterInv'
<1> USE DEF RouterInv
<1>1. UNCHANGED <<producer, open, stack, sends, partition, threw, target, routerFault>>
  BY DEF Routers!NewInstance, Routers!MethodReturns, Routers!Answer, Routers!CallbackReturns,
         Routers!sending
<1>2. /\ method' \in {"none", "running", "returned"}
      /\ callback' \in {"none", "pending", "running", "returned"}
      /\ answerer' \in {"none", "main", "client"}
      /\ fate' \in {"none", "resolved", "rejected"}
  BY DEF Routers!NewInstance, Routers!MethodReturns, Routers!Answer, Routers!CallbackReturns,
         RouterTypes
<1>3. self' \in BOOLEAN
  BY DEF Routers!NewInstance, Routers!MethodReturns, Routers!Answer, Routers!CallbackReturns,
         RouterTypes
<1>4. CreationInv'
  <2>1. CASE Routers!NewInstance
    BY <1>1, <2>1 DEF Routers!NewInstance, CreationInv
  <2>2. CASE Routers!MethodReturns
    BY <1>1, <2>2 DEF Routers!MethodReturns, CreationInv
  <2>3. CASE Routers!Answer
    BY <1>1, <2>3 DEF Routers!Answer, CreationInv
  <2>4. CASE Routers!CallbackReturns
    BY <1>1, <2>4 DEF Routers!CallbackReturns, CreationInv
  <2> QED BY <2>1, <2>2, <2>3, <2>4
<1>5. /\ KeptInv' /\ router' \in {"none", "held", "freed", "misfreed"}
      /\ producer # "none" => (router' = "none" <=> router = "none")
      /\ producer = "alive" /\ router = "held" => router' = "held"
  <2>1. CASE Routers!NewInstance
    <3>1. method' = "running" /\ producer = "none"
      BY <2>1 DEF Routers!NewInstance, CreationInv
    <3>2. PICK custom, function \in BOOLEAN : router' = Routers!RouterSet(custom, function)
      BY <2>1 DEF Routers!NewInstance
    <3>3. router' \in {"held", "none"} BY <3>2 DEF Routers!RouterSet
    <3> QED BY <3>1, <3>3 DEF KeptInv, Routers!ConfigHeld
  <2>2. CASE Routers!MethodReturns \/ Routers!CallbackReturns
    <3>1. Routers!ConfigHeld' => Routers!ConfigHeld
      BY <2>2 DEF Routers!MethodReturns, Routers!CallbackReturns, Routers!ConfigHeld,
                  Routers!ContextHeld, Routers!DeferredHeld, Routers!ProducerHolds
    <3>2. \E place : Routers!Drop(place)
      BY <2>2 DEF Routers!MethodReturns, Routers!CallbackReturns
    <3>3. producer = "alive" => Routers!ConfigHeld'
      BY <1>1 DEF Routers!ConfigHeld, Routers!ProducerHolds
    <3> QED BY <3>1, <3>2, <3>3, DropKeeps
  <2>3. CASE Routers!Answer
    <3>1. Routers!ConfigHeld /\ Routers!ConfigHeld'
      BY <2>3 DEF Routers!Answer, Routers!ConfigHeld, Routers!ContextHeld
    <3> QED BY <2>3, <3>1 DEF Routers!Answer, KeptInv, RouterTypes
  <2> QED BY <2>1, <2>2, <2>3
<1>6. RouterTypes' BY <1>1, <1>2, <1>3, <1>5 DEF RouterTypes
<1>7. StackInv' BY <1>1, <1>5 DEF StackInv
<1>8. \A m \in Sends : SendInv(m)' BY <1>1, <1>5 DEF SendInv
<1> QED BY <1>4, <1>5, <1>6, <1>7, <1>8

\* The Producer comes and goes.
LEMMA ProducerStep ==
  ASSUME RouterInv, Routers!Settle \/ Routers!Collect
  PROVE  RouterInv'
<1> USE DEF RouterInv
<1>1. /\ UNCHANGED <<method, callback, answerer, fate, open, stack, sends, partition, threw,
                     target, routerFault>>
      /\ stack = <<>> /\ \E place : Routers!Drop(place)
      /\ producer' \in {producer, "alive", "collected"}
  BY DEF Routers!Settle, Routers!Collect, Routers!creation, Routers!sending, Routers!InLoop
<1>2. Routers!ConfigHeld' => Routers!ConfigHeld
  <2>1. CASE Routers!Settle
    BY <1>1, <2>1 DEF Routers!Settle, Routers!ConfigHeld, Routers!ContextHeld,
                      Routers!DeferredHeld, Routers!ProducerHolds
  <2>2. CASE Routers!Collect
    BY <1>1, <2>2 DEF Routers!Collect, Routers!creation, Routers!ConfigHeld, Routers!ContextHeld,
                      Routers!DeferredHeld, Routers!ProducerHolds
  <2> QED BY <2>1, <2>2
<1>3. /\ KeptInv' /\ router' \in {"none", "held", "freed", "misfreed"}
      /\ router' = "none" <=> router = "none"
  BY <1>1, <1>2, DropKeeps
<1>4. self' \in BOOLEAN
  BY DEF Routers!Settle, Routers!Collect, Routers!creation, RouterTypes
<1>5. RouterTypes' BY <1>1, <1>3, <1>4 DEF RouterTypes
<1>6. CreationInv'
  <2>1. CASE Routers!Settle
    BY <1>1, <2>1 DEF Routers!Settle, Routers!InLoop, CreationInv, RouterTypes
  <2>2. CASE Routers!Collect
    BY <1>1, <2>2 DEF Routers!Collect, Routers!creation, CreationInv
  <2> QED BY <2>1, <2>2
<1>7. StackInv' BY <1>1 DEF StackInv
<1>8. producer # "none" => producer' # "none"
  BY DEF Routers!Settle, Routers!Collect
<1>9. \A m \in Sends : SendInv(m)' BY <1>1, <1>3, <1>8 DEF SendInv
<1> QED BY <1>3, <1>5, <1>6, <1>7, <1>9

\* close(), and the client's answer to a send.
LEMMA AnswerStep ==
  ASSUME RouterInv, Routers!Close \/ \E m \in Sends : Routers!SendUnrouted(m) \/ Routers!SendAnswered(m)
  PROVE  RouterInv'
<1> USE DEF RouterInv
<1>1. /\ UNCHANGED <<method, callback, answerer, fate, self, producer, router, stack, partition,
                     threw, target, routerFault>>
  BY DEF Routers!Close, Routers!SendUnrouted, Routers!SendAnswered, Routers!creation
<1>2. /\ open' \in BOOLEAN
  BY DEF Routers!Close, Routers!SendUnrouted, Routers!SendAnswered, RouterTypes
<1>3. CASE UNCHANGED sends
  <2>1. RouterTypes' BY <1>1, <1>2, <1>3 DEF RouterTypes
  <2> QED BY <1>1, <1>3, <2>1
       DEF CreationInv, KeptInv, StackInv, SendInv, Routers!ConfigHeld, Routers!ContextHeld,
           Routers!DeferredHeld, Routers!ProducerHolds
<1>4. ASSUME NEW m \in Sends, Routers!SendUnrouted(m) \/ Routers!SendAnswered(m) PROVE RouterInv'
  <2>1. PICK x \in {"accepted", "sent", "failed"} :
          /\ sends' = [sends EXCEPT ![m] = x]
          /\ sends[m] \in {"idle", "accepted"}
          /\ producer # "none"
          /\ x \in {"accepted", "sent"} => router = "none" \/ sends[m] = "accepted"
    BY <1>4 DEF Routers!SendUnrouted, Routers!SendAnswered, SendInv
  <2>2. RouterTypes' BY <1>1, <1>2, <2>1 DEF RouterTypes
  <2>3. CreationInv' /\ KeptInv'
    BY <1>1 DEF CreationInv, KeptInv, Routers!ConfigHeld, Routers!ContextHeld,
                Routers!DeferredHeld, Routers!ProducerHolds
  <2>4. StackInv' BY <1>1, <2>1 DEF StackInv, RouterTypes
  <2>5. \A n \in Sends : SendInv(n)' BY <1>1, <2>1 DEF SendInv, RouterTypes
  <2> QED BY <2>2, <2>3, <2>4, <2>5
<1> QED BY <1>3, <1>4 DEF Routers!Close

\* send() calls the router, perhaps from inside another.
LEMMA SendStep ==
  ASSUME RouterInv, NEW m \in Sends, Routers!Send(m)
  PROVE  RouterInv'
<1> USE DEF RouterInv
<1>1. UNCHANGED <<method, callback, answerer, fate, self, producer, router, open, partition,
                  threw, target>>
  BY DEF Routers!Send, Routers!creation
<1>2. /\ producer = "alive" /\ sends[m] = "idle" /\ router # "none"
      /\ stack' = Append(stack, m)
      /\ sends' = [sends EXCEPT ![m] = "routing"]
  BY DEF Routers!Send
<1>3. router = "held" /\ routerFault' = routerFault
  BY <1>2 DEF Routers!Send, KeptInv, Routers!ConfigHeld, Routers!ProducerHolds, RouterTypes
<1>4. stack \in Seq(Sends) BY DEF RouterTypes
<1>5. /\ stack' \in Seq(Sends)
      /\ DOMAIN stack' = 1 .. Len(stack) + 1 /\ DOMAIN stack = 1 .. Len(stack) /\ Len(stack) \in Nat
      /\ \A i \in DOMAIN stack : stack'[i] = stack[i]
      /\ stack'[Len(stack) + 1] = m
  BY <1>2, <1>4
<1>6. RouterTypes' BY <1>1, <1>2, <1>3, <1>5 DEF RouterTypes
<1>7. CreationInv' /\ KeptInv'
  BY <1>1 DEF CreationInv, KeptInv, Routers!ConfigHeld, Routers!ContextHeld,
              Routers!DeferredHeld, Routers!ProducerHolds
<1>8. StackInv'
  <2>1. \A i \in DOMAIN stack : stack[i] # m /\ stack[i] \in Sends BY <1>2, <1>4 DEF StackInv
  <2>2. \A i \in DOMAIN stack' : sends'[stack'[i]] = "routing"
    BY <1>2, <1>5, <2>1 DEF StackInv, RouterTypes
  <2>3. \A i, j \in DOMAIN stack' : stack'[i] = stack'[j] => i = j
    BY <1>5, <2>1 DEF StackInv
  <2> QED BY <1>1, <1>2, <1>3, <2>2, <2>3 DEF StackInv
<1>9. \A n \in Sends : SendInv(n)' BY <1>1, <1>2 DEF SendInv, RouterTypes
<1> QED BY <1>6, <1>7, <1>8, <1>9

\* A router returns a partition, or throws: it is the last that was called.
LEMMA ReturnStep ==
  ASSUME RouterInv, stack # <<>>, NEW n \in Numbers \cup {0}, NEW threws \in BOOLEAN,
         threws \/ n \in Answers, Routers!RouterReturns(n, threws)
  PROVE  RouterInv'
<1> USE DEF RouterInv
<1>1. UNCHANGED <<method, callback, answerer, fate, self, producer, router, open, routerFault>>
  BY DEF Routers!RouterReturns, Routers!creation
<1>2. stack \in Seq(Sends) /\ Len(stack) \in Nat \ {0} /\ DOMAIN stack = 1 .. Len(stack)
  BY DEF RouterTypes
<1>3. PICK m : m = stack[Len(stack)] OBVIOUS
<1>4. PICK p : p = Routers!ChoosePartition(n, threws) OBVIOUS
<1>5. /\ stack' = SubSeq(stack, 1, Len(stack) - 1)
      /\ partition' = [partition EXCEPT ![m] = n]
      /\ threw' = IF threws THEN threw \cup {m} ELSE threw
      /\ IF Routers!Accepts(p)
         THEN sends' = [sends EXCEPT ![m] = "accepted"] /\ target' = [target EXCEPT ![m] = p]
         ELSE sends' = [sends EXCEPT ![m] = "failed"] /\ UNCHANGED target
  BY <1>3, <1>4 DEF Routers!RouterReturns
<1>6. m \in Sends /\ sends[m] = "routing" /\ \A i \in 1 .. Len(stack) - 1 : stack[i] # m
  BY <1>2, <1>3 DEF StackInv
<1>7. /\ stack' \in Seq(Sends) /\ DOMAIN stack' = 1 .. Len(stack) - 1
      /\ \A i \in DOMAIN stack' : stack'[i] = stack[i] /\ i \in DOMAIN stack
  BY <1>2, <1>5
<1>8. NumPartitions \in 1 .. MaxOf(W32) /\ MaxOf(W32) \in Int /\ MinOf(W32) \in Int /\ MinOf(W32) <= 0
  <2>1. 2^(W32 - 1) \in Nat \ {0} BY PowersAssumption
  <2> QED BY <2>1, ConstantsAssumption DEF Routers!PartitionsAssumption, Routers!MaxOf, MaxOf, MinOf
<1>9. Routers!Accepts(p) =>
        /\ ~threws /\ p \in Int
        /\ n \in 0 .. NumPartitions - 1 => p = n
  <2>1. Routers!Accepts(p) => p \in 0 .. NumPartitions - 1 BY DEF Routers!Accepts
  <2>2. CASE threws BY <1>4, <1>8, <2>1, <2>2 DEF Routers!ChoosePartition
  <2>3. CASE ~threws
    <3>1. p = Routers!Int32Value(n) BY <1>4, <2>3 DEF Routers!ChoosePartition
    <3>2. p \in 0 .. NumPartitions - 1 => p \in Int BY <1>8
    <3>3. CASE n \in 0 .. NumPartitions - 1
      <4>1. n \in MinOf(W32) .. MaxOf(W32) /\ n # NaN
        BY <1>8, <3>3, WidthsAssumption
      <4>2. p = Narrow(n, W32)
        BY <3>1, <4>1 DEF Routers!Int32Value, Routers!Narrow, Routers!MinOf, Narrow, MinOf
      <4>3. p = n BY <4>1, <4>2, NarrowFits
      <4> QED BY <2>1, <2>3, <3>2, <4>3
    <3> QED BY <2>1, <2>3, <3>2, <3>3
  <2> QED BY <2>2, <2>3
<1>10. RouterTypes'
  <2>1. /\ sends' \in [Sends -> {"idle", "routing", "accepted", "sent", "failed"}]
        /\ target' \in [Sends -> Int]
    BY <1>5, <1>6, <1>9 DEF RouterTypes
  <2>2. partition' \in [Sends -> Numbers \cup {0}] /\ threw' \subseteq Sends
    BY <1>5, <1>6 DEF RouterTypes
  <2> QED BY <1>1, <1>7, <2>1, <2>2 DEF RouterTypes
<1>11. CreationInv' /\ KeptInv'
  BY <1>1 DEF CreationInv, KeptInv, Routers!ConfigHeld, Routers!ContextHeld,
              Routers!DeferredHeld, Routers!ProducerHolds
<1>12. StackInv'
  <2>1. \A i \in DOMAIN stack' : sends'[stack'[i]] = "routing"
    BY <1>2, <1>5, <1>6, <1>7 DEF StackInv, RouterTypes
  <2>2. \A i, j \in DOMAIN stack' : stack'[i] = stack'[j] => i = j
    BY <1>7 DEF StackInv
  <2> QED BY <1>1, <2>1, <2>2 DEF StackInv
<1>13. \A x \in Sends : SendInv(x)'
  BY <1>1, <1>5, <1>6, <1>9 DEF SendInv, RouterTypes
<1> QED BY <1>10, <1>11, <1>12, <1>13

LEMMA RouterNext == RouterInv /\ [Routers!Next]_routerVars => RouterInv'
<1> SUFFICES ASSUME RouterInv, [Routers!Next]_routerVars PROVE RouterInv' OBVIOUS
<1>1. CASE \/ Routers!NewInstance \/ Routers!MethodReturns \/ Routers!Answer
           \/ Routers!CallbackReturns
  BY <1>1, CreationStep
<1>2. CASE Routers!Settle \/ Routers!Collect BY <1>2, ProducerStep
<1>3. CASE Routers!Close \/ \E m \in Sends : Routers!SendUnrouted(m) \/ Routers!SendAnswered(m)
  BY <1>3, AnswerStep
<1>4. CASE \E m \in Sends : Routers!Send(m) BY <1>4, SendStep
<1>5. CASE Routers!Route
  <2>1. Answers \subseteq Numbers
    BY ConstantsAssumption DEF Routers!PartitionsAssumption, Routers!Numbers, Numbers,
       Routers!MinOf, MinOf, Routers!MaxOf, MaxOf
  <2>2. ASSUME NEW n \in Answers, stack # <<>>, Routers!RouterReturns(n, FALSE) PROVE RouterInv'
    BY <2>1, <2>2, ReturnStep
  <2>3. ASSUME stack # <<>>, Routers!RouterReturns(0, TRUE) PROVE RouterInv'
    BY <2>3, ReturnStep
  <2> QED BY <1>5, <2>2, <2>3 DEF Routers!Route
<1>6. CASE UNCHANGED routerVars
  <2>1. RouterTypes' BY <1>6 DEF routerVars, RouterInv, RouterTypes
  <2>2. CreationInv' /\ KeptInv'
    BY <1>6 DEF routerVars, RouterInv, CreationInv, KeptInv, Routers!ConfigHeld,
                Routers!ContextHeld, Routers!DeferredHeld, Routers!ProducerHolds
  <2> QED BY <1>6, <2>1, <2>2 DEF routerVars, RouterInv, StackInv, SendInv
<1>7. Routers!Terminated => UNCHANGED routerVars
  BY DEF Routers!Terminated, Routers!vars, Routers!creation, Routers!sending, routerVars
<1> QED BY <1>1, <1>2, <1>3, <1>4, <1>5, <1>6, <1>7 DEF Routers!Next

\* The part of a program that routes takes no step but its own.
LEMMA RouterPart ==
  /\ ProgramInit => Routers!Init
  /\ [ProgramNext]_allVars => [Routers!Next]_routerVars
BY DEF ProgramInit, ProgramNext, ReadOptions, ReadPolicies, ConstructClients, RouteMessages,
       ExchangeSchemas, UseMessages, allVars

\* The inductive invariant of a producer with a router holds in every state.
THEOREM RouterInvariance == ProgramSpec => []RouterInv
BY RouterInit, RouterNext, RouterPart, PTL DEF ProgramSpec

\* The router's reference is there while the client may call it, however sends
\* and routers are nested, and goes with the last that has the ProducerConfig: a
\* creation that failed, and a Producer that was collected, leave none behind
\* (Producer.cc, ~ProducerConfig).
THEOREM RouterKept == ProgramSpec => []RouterLivesAsProducer
<1>1. RouterInv => RouterLivesAsProducer
  <2> SUFFICES ASSUME RouterInv PROVE RouterLivesAsProducer OBVIOUS
  <2> USE DEF RouterInv, RouterTypes
  <2>1. fate = "resolved" /\ producer # "collected" => router \in {"held", "none"}
    BY DEF CreationInv, KeptInv, Routers!ConfigHeld, Routers!DeferredHeld, Routers!ProducerHolds
  <2>2. /\ method = "returned" /\ callback \in {"none", "returned"}
        /\ ~self /\ producer # "alive"
        => router # "held"
    BY DEF KeptInv, Routers!ConfigHeld, Routers!ContextHeld, Routers!DeferredHeld,
           Routers!ProducerHolds
  <2> QED BY <2>1, <2>2 DEF StackInv, RouterLivesAsProducer, Routers!RouterLivesAsProducer
<1> QED BY <1>1, RouterInvariance, PTL

\* A message goes to the partition that its own call of the router named, and to
\* none if that call threw, for every number of partitions that an int holds
\* and whatever other sends the router makes (choosePartition).
THEOREM RoutedRight == ProgramSpec => []RoutedAsAsked
<1>1. RouterInv => RoutedAsAsked
  BY DEF RouterInv, SendInv, RoutedAsAsked, Routers!RoutedAsAsked
<1> QED BY <1>1, RouterInvariance, PTL

-----------------------------------------------------------------------------
\* Messages and their ids.

\* The C objects that the client has made so far.
Made == 1 .. used
Places == Messages!Objects

\* Every variable of the message objects has its type; of the faults that a
\* pointer can cause, two cannot happen.
MessageTypes ==
  /\ used \in 0 .. MaxCells
  /\ wrapper \in [Places -> {"none", "Message", "MessageId", "Buffer"}]
  /\ cell \in [Places -> Made \cup {Static, Null}]
  /\ deleter \in [Places -> {"free", "nofree"}]
  /\ listening \subseteq Made /\ batch \subseteq Made
  /\ routing \in Made \cup {Null}
  /\ fault \in {"none", "null", "routed"}

\* The messages of a batch were made one after the other.
BatchInv == batch = {} \/ \E i, j \in Nat : i <= j /\ batch = i .. j

\* What a place holds: nothing, an object that owns its C object, or one that
\* does not because it is a constant, or the message of a send.
PlaceInv(o) ==
  /\ wrapper[o] = "none" => cell[o] = Null /\ deleter[o] = "free"
  /\ deleter[o] = "nofree" => \/ wrapper[o] = "MessageId" /\ cell[o] = Static
                              \/ wrapper[o] = "Message" /\ cell[o] \in Made
  /\ cell[o] = Static => deleter[o] = "nofree"
  /\ cell[o] \notin batch
  /\ cell[o] = routing /\ routing # Null => deleter[o] = "nofree"
  /\ cell[o] \in listening => deleter[o] = "free"

\* No C object has two who might free it.
SharingInv ==
  /\ \A o, p \in Places : cell[o] = cell[p] /\ cell[o] \in Made => o = p
  /\ \A x \in listening : x \notin batch /\ x # routing
  /\ routing \notin batch

\* Who has C object x.
Owned(x) ==
  \/ x = Static \/ x \in listening \/ x \in batch
  \/ x = routing /\ x # Null
  \/ \E o \in Places : deleter[o] = "free" /\ cell[o] = x /\ x # Null

MessageInv ==
  /\ MessageTypes /\ BatchInv /\ SharingInv
  /\ \A o \in Places : PlaceInv(o)
  /\ \A x : x \in live <=> Owned(x)

\* The constants are no C objects that the client makes.
LEMMA Constants ==
  ASSUME MessageInv
  PROVE  /\ Static \notin Made /\ Null \notin Made /\ Null # Static
         /\ used \in Nat /\ used + 1 \notin Made /\ MaxCells \in Nat
         /\ used + 1 \in Messages!Cells => used + 1 # Static /\ used + 1 # Null
<1>1. /\ Static \notin 1 .. MaxCells /\ Null \notin 1 .. MaxCells /\ Null # Static
      /\ MaxCells \in Nat
  BY ConstantsAssumption DEF Messages!PlacesAssumption, Messages!Cells
<1> QED BY <1>1 DEF MessageInv, MessageTypes, Made, Messages!Cells

LEMMA MessageInit == Messages!Init => MessageInv
<1> SUFFICES ASSUME Messages!Init PROVE MessageInv OBVIOUS
<1> USE DEF Messages!Init, Places
<1>1. /\ Null # Static /\ MaxCells \in Nat
  BY ConstantsAssumption DEF Messages!PlacesAssumption
<1>2. Made = {} BY DEF Made
<1>3. MessageTypes BY <1>1, <1>2 DEF MessageTypes
<1>4. BatchInv BY DEF BatchInv
<1>5. SharingInv BY <1>2 DEF SharingInv
<1>6. \A o \in Places : PlaceInv(o) BY <1>1 DEF PlaceInv
<1>7. \A x : x \in live <=> Owned(x) BY DEF Owned
<1> QED BY <1>3, <1>4, <1>5, <1>6, <1>7 DEF MessageInv

\* The client makes an object and gives it to the program.
LEMMA FreshStep ==
  ASSUME MessageInv, NEW o \in Places, NEW cl \in {"Message", "MessageId", "Buffer"},
         Messages!Allocate(1), Messages!Wrap(o, cl, used + 1, "free"),
         UNCHANGED <<listening, batch, routing, fault>>
  PROVE  MessageInv'
<1> USE DEF MessageInv, MessageTypes
<1>1. /\ used' = used + 1 /\ live' = live \cup {used + 1} /\ used + 1 \in Messages!Cells
  BY Constants DEF Messages!Allocate, Messages!Fresh
<1>2. /\ Made' = Made \cup {used + 1} /\ used + 1 # Static /\ used + 1 # Null /\ used + 1 \notin Made
      /\ used' \in 0 .. MaxCells
  BY <1>1, Constants DEF Made, Messages!Cells
<1>3. /\ wrapper' = [wrapper EXCEPT ![o] = cl] /\ cell' = [cell EXCEPT ![o] = used + 1]
      /\ deleter' = [deleter EXCEPT ![o] = "free"] /\ wrapper[o] = "none"
  BY DEF Messages!Wrap, Messages!NoObject
<1>4. cell[o] = Null /\ deleter[o] = "free" BY <1>3 DEF PlaceInv
<1>5. MessageTypes' BY <1>2, <1>3
<1>6. BatchInv' BY DEF BatchInv
<1>7. SharingInv' BY <1>2, <1>3 DEF SharingInv
<1>8. \A p \in Places : PlaceInv(p)' BY <1>2, <1>3 DEF PlaceInv
<1>9. \A x : x \in live' <=> Owned(x)'
  BY <1>1, <1>2, <1>3, <1>4 DEF Owned
<1> QED BY <1>5, <1>6, <1>7, <1>8, <1>9

\* The message of a send is wrapped for the router.
LEMMA RouteStep ==
  ASSUME MessageInv, NEW o \in Places, Messages!Route(o)
  PROVE  MessageInv'
<1> USE DEF MessageInv, MessageTypes
<1>1. /\ used' = used + 1 /\ live' = live \cup {used + 1} /\ used + 1 \in Messages!Cells
  BY Constants DEF Messages!Route, Messages!Allocate, Messages!Fresh
<1>2. /\ Made' = Made \cup {used + 1} /\ used + 1 # Static /\ used + 1 # Null /\ used + 1 \notin Made
      /\ used' \in 0 .. MaxCells
  BY <1>1, Constants DEF Made, Messages!Cells
<1>3. /\ wrapper' = [wrapper EXCEPT ![o] = "Message"] /\ cell' = [cell EXCEPT ![o] = used + 1]
      /\ deleter' = [deleter EXCEPT ![o] = "nofree"] /\ wrapper[o] = "none"
      /\ routing = Null /\ routing' = used + 1 /\ UNCHANGED <<listening, batch, fault>>
  BY DEF Messages!Route, Messages!Wrap, Messages!NoObject
<1>4. cell[o] = Null /\ deleter[o] = "free" BY <1>3 DEF PlaceInv
<1>5. MessageTypes' BY <1>2, <1>3
<1>6. BatchInv' BY <1>3 DEF BatchInv
<1>7. SharingInv' BY <1>2, <1>3 DEF SharingInv
<1>8. \A p \in Places : PlaceInv(p)' BY <1>2, <1>3 DEF PlaceInv
<1>9. \A x : x \in live' <=> Owned(x)'
  BY <1>1, <1>2, <1>3, <1>4 DEF Owned
<1> QED BY <1>5, <1>6, <1>7, <1>8, <1>9

\* An object for what is there already: nothing, a constant, or the message that
\* a listener's thread has.
LEMMA WrapStep ==
  ASSUME MessageInv, NEW o \in Places, NEW cl \in {"Message", "MessageId"},
         NEW x, NEW d \in {"free", "nofree"}, Messages!Wrap(o, cl, x, d),
         \/ x = Null /\ d = "free"
         \/ x = Static /\ d = "nofree" /\ cl = "MessageId"
         \/ x \in listening /\ d = "free" /\ \A p \in Places : cell[p] # x,
         UNCHANGED <<used, live, listening, batch, routing, fault>>
  PROVE  MessageInv'
<1> USE DEF MessageInv, MessageTypes
<1>1. /\ wrapper' = [wrapper EXCEPT ![o] = cl] /\ cell' = [cell EXCEPT ![o] = x]
      /\ deleter' = [deleter EXCEPT ![o] = d] /\ wrapper[o] = "none"
  BY DEF Messages!Wrap, Messages!NoObject
<1>2. cell[o] = Null /\ deleter[o] = "free" BY <1>1 DEF PlaceInv
<1>3. Made' = Made /\ Static \notin Made /\ Null \notin Made /\ Null # Static
  BY Constants DEF Made
<1>4. MessageTypes' BY <1>1, <1>3
<1>5. BatchInv' BY DEF BatchInv
<1>6. SharingInv' BY <1>1, <1>2, <1>3 DEF SharingInv
<1>7. \A p \in Places : PlaceInv(p)' BY <1>1, <1>3 DEF PlaceInv, SharingInv
<1>8. \A y : y \in live' <=> Owned(y)' BY <1>1, <1>2 DEF Owned
<1> QED BY <1>4, <1>5, <1>6, <1>7, <1>8

\* Messages come for a listener or in a batch.
LEMMA ArriveStep ==
  ASSUME MessageInv, Messages!Deliver \/ Messages!BatchArrives
  PROVE  MessageInv'
<1> USE DEF MessageInv, MessageTypes
<1>1. PICK n \in Nat \ {0} :
        /\ used' = used + n /\ live' = live \cup Messages!Fresh(n)
        /\ Messages!Fresh(n) \subseteq Messages!Cells
        /\ \/ listening' = listening \cup Messages!Fresh(n) /\ batch' = batch
           \/ batch = {} /\ batch' = Messages!Fresh(n) /\ listening' = listening
        /\ UNCHANGED <<wrapper, cell, deleter, routing, fault>>
  <2>1. CASE Messages!Deliver
    <3>1. Messages!Fresh(1) = {used + 1} BY Constants DEF Messages!Fresh
    <3> QED BY <2>1, <3>1 DEF Messages!Deliver, Messages!Allocate, Messages!objects
  <2>2. CASE Messages!BatchArrives
    <3>1. MaxBatch \in Nat BY ConstantsAssumption DEF Messages!PlacesAssumption
    <3> QED BY <2>2, <3>1 DEF Messages!BatchArrives, Messages!Allocate, Messages!objects
  <2> QED BY <2>1, <2>2
<1> DEFINE new == Messages!Fresh(n)
<1>2. new = used + 1 .. used + n BY DEF Messages!Fresh
<1>3. used + n \in new BY <1>2, Constants
<1>4. used' \in 0 .. MaxCells BY <1>1, <1>3, Constants DEF Messages!Cells
<1>5. Made' = Made \cup new /\ (\A x \in new : x \notin Made) /\ Static \notin new /\ Null \notin new
  <2>1. Static \notin Messages!Cells /\ Null \notin Messages!Cells
    BY ConstantsAssumption DEF Messages!PlacesAssumption
  <2> QED BY <1>1, <1>2, <2>1, Constants DEF Made
<1> HIDE DEF new
<1>6. MessageTypes' BY <1>1, <1>4, <1>5 DEF new
<1>7. BatchInv'
  <2>1. used + 1 \in Nat /\ used + n \in Nat /\ used + 1 <= used + n BY Constants
  <2> QED BY <1>1, <1>2, <2>1 DEF BatchInv, new
<1>8. SharingInv' BY <1>1, <1>5 DEF SharingInv, new
<1>9. \A p \in Places : PlaceInv(p)' BY <1>1, <1>5 DEF PlaceInv, new
<1>10. \A x : x \in live' <=> Owned(x)' BY <1>1, <1>5 DEF Owned, new
<1> QED BY <1>6, <1>7, <1>8, <1>9, <1>10

\* A listener's thread goes on, or a router returns.
LEMMA LeaveStep ==
  ASSUME MessageInv, Messages!Delivered \/ Messages!Routed
  PROVE  MessageInv'
<1> USE DEF MessageInv, MessageTypes
<1>1. UNCHANGED <<used, wrapper, cell, deleter, batch, fault>>
  BY DEF Messages!Delivered, Messages!Routed, Messages!objects
<1>2. Made' = Made /\ Static \notin Made /\ Null \notin Made /\ Null # Static
  BY <1>1, Constants DEF Made
<1>3. CASE Messages!Delivered
  <2>1. PICK x \in listening :
          /\ listening' = listening \ {x} /\ routing' = routing
          /\ live' = IF \E o \in Places : cell[o] = x THEN live ELSE live \ {x}
    BY <1>3 DEF Messages!Delivered, Places
  <2>2. MessageTypes' BY <1>1, <1>2, <2>1
  <2>3. BatchInv' /\ SharingInv' BY <1>1, <1>2, <2>1 DEF BatchInv, SharingInv
  <2>4. \A p \in Places : PlaceInv(p)' BY <1>1, <1>2, <2>1 DEF PlaceInv
  <2>5. \A y : y \in live' <=> Owned(y)'
    BY <1>1, <1>2, <2>1 DEF Owned, PlaceInv, SharingInv
  <2> QED BY <2>2, <2>3, <2>4, <2>5
<1>4. CASE Messages!Routed
  <2>1. routing # Null /\ live' = live \ {routing} /\ routing' = Null /\ listening' = listening
    BY <1>4 DEF Messages!Routed
  <2>2. MessageTypes' BY <1>1, <1>2, <2>1
  <2>3. BatchInv' /\ SharingInv' BY <1>1, <1>2, <2>1 DEF BatchInv, SharingInv
  <2>4. \A p \in Places : PlaceInv(p)' BY <1>1, <1>2, <2>1 DEF PlaceInv
  <2>5. \A y : y \in live' <=> Owned(y)'
    BY <1>1, <1>2, <2>1 DEF Owned, PlaceInv, SharingInv
  <2> QED BY <2>2, <2>3, <2>4, <2>5
<1> QED BY <1>3, <1>4

\* An object is used: what the client finds behind its pointer is there, unless
\* there was never anything or the object is of a send.
LEMMA UseStep ==
  ASSUME MessageInv, NEW o \in Places,
         Messages!Read(o) \/ Messages!ReadOptional(o) \/ Messages!GiveToClient(o)
  PROVE  MessageInv'
<1> USE DEF MessageInv, MessageTypes
<1>1. UNCHANGED <<used, live, wrapper, cell, deleter, listening, batch, routing>>
  BY DEF Messages!Read, Messages!ReadOptional, Messages!GiveToClient, Messages!heap,
         Messages!objects
<1>2. deleter[o] = "free" /\ cell[o] # Null => cell[o] \in live BY DEF Owned
<1>3. Messages!Bad(o) \in {"none", "null", "routed"} BY <1>2 DEF Messages!Bad
<1>4. fault' \in {"none", "null", "routed"}
  BY <1>3 DEF Messages!Read, Messages!ReadOptional, Messages!GiveToClient
<1> QED BY <1>1, <1>4 DEF BatchInv, SharingInv, PlaceInv, Owned, Made

\* An object is collected, and frees what it alone has.
LEMMA CollectStep ==
  ASSUME MessageInv, NEW o \in Places, Messages!Collect(o)
  PROVE  MessageInv'
<1> USE DEF MessageInv, MessageTypes
<1>1. /\ UNCHANGED <<used, listening, batch, routing>>
      /\ wrapper' = [wrapper EXCEPT ![o] = "none"] /\ cell' = [cell EXCEPT ![o] = Null]
      /\ deleter' = [deleter EXCEPT ![o] = "free"]
  BY DEF Messages!Collect
<1> DEFINE frees == cell[o] # Null /\ deleter[o] = "free" /\ cell[o] \notin listening
<1>2. /\ live' = IF frees THEN live \ {cell[o]} ELSE live
      /\ fault' = IF frees /\ cell[o] \notin live THEN "twice" ELSE fault
  BY DEF Messages!Collect
<1>3. Made' = Made /\ Static \notin Made /\ Null \notin Made /\ Null # Static
  BY <1>1, Constants DEF Made
<1>4. frees => cell[o] \in live BY DEF Owned
<1>5. MessageTypes' BY <1>1, <1>2, <1>3, <1>4
<1>6. BatchInv' /\ SharingInv' BY <1>1, <1>3 DEF BatchInv, SharingInv
<1>7. \A p \in Places : PlaceInv(p)' BY <1>1, <1>3 DEF PlaceInv
<1>8. \A x : x \in live' <=> Owned(x)'
  <2>1. CASE frees
    <3>1. cell[o] \in Made /\ cell[o] \notin batch /\ cell[o] # routing
      BY <1>3, <2>1 DEF PlaceInv
    <3>2. \A p \in Places : p # o => cell[p] # cell[o] BY <3>1 DEF SharingInv
    <3>3. ~Owned(cell[o])' BY <1>1, <1>3, <2>1, <3>1, <3>2 DEF Owned
    <3>4. \A x : x # cell[o] => (Owned(x)' <=> Owned(x)) BY <1>1, <1>3 DEF Owned
    <3>5. ASSUME NEW x, x = cell[o] PROVE ~Owned(x)'
      BY <1>1, <1>3, <2>1, <3>1, <3>2, <3>5 DEF Owned
    <3> QED BY <1>2, <2>1, <3>4, <3>5
  <2>2. CASE ~frees
    <3>1. \A x : Owned(x)' <=> Owned(x) BY <1>1, <1>3, <2>2 DEF Owned
    <3> QED BY <1>2, <2>2, <3>1
  <2> QED BY <2>1, <2>2
<1> QED BY <1>5, <1>6, <1>7, <1>8

\* The messages are counted as anything else.
LEMMA SameCardinality ==
  ASSUME NEW S
  PROVE  Messages!Cardinality(S) = Cardinality(S)
BY Zenon DEF Messages!Cardinality, Cardinality

\* Which copy a message of a batch from i to j gets.
LEMMA Copies ==
  ASSUME used \in Nat, NEW i \in Nat, NEW j \in Nat, i <= j, batch = i .. j
  PROVE  /\ Cardinality(batch) = j - i + 1
         /\ \A r \in batch : Messages!Copy(r) = used + (r - i + 1)
<1>1. Cardinality(batch) = j - i + 1 BY FS_Interval
<1>2. ASSUME NEW r \in batch PROVE Messages!Copy(r) = used + (r - i + 1)
  <2>1. r \in Int /\ i <= r /\ r <= j BY <1>2
  <2>2. {s \in batch : s <= r} = i .. r BY <2>1
  <2>3. Cardinality(i .. r) = r - i + 1 BY <2>1, FS_Interval
  <2>4. Messages!Copy(r) = used + Cardinality({s \in batch : s <= r})
    BY SameCardinality DEF Messages!Copy
  <2> QED BY <2>2, <2>3, <2>4
<1> QED BY <1>1, <1>2

\* A batch becomes copies, one for each message and each in a place of its own.
LEMMA BatchStep ==
  ASSUME MessageInv, Messages!WrapBatch
  PROVE  MessageInv'
<1> USE DEF MessageInv, MessageTypes
<1>1. PICK i, j \in Nat : i <= j /\ batch = i .. j BY DEF Messages!WrapBatch, BatchInv
<1>2. used \in Nat BY Constants
<1>3. PICK n : n = j - i + 1 OBVIOUS
<1>4. /\ n \in Nat \ {0} /\ Cardinality(batch) = n
      /\ \A r \in batch : Messages!Copy(r) = used + (r - i + 1)
  BY <1>1, <1>2, <1>3, Copies
<1>5. PICK new : new = used + 1 .. used + n OBVIOUS
<1>6. /\ new \subseteq Messages!Cells /\ used' = used + n /\ live' = (live \ batch) \cup new
      /\ batch' = {} /\ UNCHANGED <<deleter, listening, routing, fault>>
  <2>1. Messages!Cardinality(batch) = n BY <1>4, SameCardinality
  <2>2. Messages!Fresh(n) = new BY <1>5 DEF Messages!Fresh
  <2> QED BY <2>1, <2>2 DEF Messages!WrapBatch
<1>7. PICK f \in [batch -> Messages!NoObject] :
        /\ Messages!FirstPlaces(f)
        /\ wrapper' = [o \in Places |-> IF \E r \in batch : f[r] = o THEN "Message" ELSE wrapper[o]]
        /\ cell' = [o \in Places |->
             IF \E r \in batch : f[r] = o THEN Messages!Copy(CHOOSE r \in batch : f[r] = o)
             ELSE cell[o]]
  BY DEF Messages!WrapBatch, Places
<1>8. \A r \in batch : f[r] \in Places /\ wrapper[f[r]] = "none"
  BY <1>7 DEF Messages!NoObject, Places
<1>9. \A r, q \in batch : f[r] = f[q] => r = q
  <2> SUFFICES ASSUME NEW r \in batch, NEW q \in batch, f[r] = f[q] PROVE r = q OBVIOUS
  <2>1. f[r] \in Nat /\ f[q] \in Nat
    <3>1. MaxObjects \in Nat BY ConstantsAssumption DEF Messages!PlacesAssumption
    <3> QED BY <1>8, <3>1 DEF Places, Messages!Objects
  <2>2. r \in Nat /\ q \in Nat BY <1>1
  <2>3. /\ r < q => f[r] < f[q]
        /\ q < r => f[q] < f[r]
    BY <1>7 DEF Messages!FirstPlaces
  <2> QED BY <2>1, <2>2, <2>3
<1>10. \A r \in batch : cell'[f[r]] = used + (r - i + 1) /\ wrapper'[f[r]] = "Message"
  <2> SUFFICES ASSUME NEW r \in batch
               PROVE  cell'[f[r]] = used + (r - i + 1) /\ wrapper'[f[r]] = "Message"
    OBVIOUS
  <2>1. (CHOOSE q \in batch : f[q] = f[r]) = r BY <1>9
  <2> QED BY <1>4, <1>7, <1>8, <2>1
<1>11. \A o \in Places : (\A r \in batch : f[r] # o) => cell'[o] = cell[o] /\ wrapper'[o] = wrapper[o]
  BY <1>7
<1>12. /\ \A r \in batch : used + (r - i + 1) \in new
       /\ \A x \in new : \E r \in batch : used + (r - i + 1) = x
       /\ \A r, q \in batch : used + (r - i + 1) = used + (q - i + 1) => r = q
  <2>1. \A r \in batch : used + (r - i + 1) \in new BY <1>1, <1>2, <1>3, <1>5
  <2>2. ASSUME NEW x \in new PROVE \E r \in batch : used + (r - i + 1) = x
    <3>1. x - used - 1 + i \in batch /\ used + ((x - used - 1 + i) - i + 1) = x
      BY <1>1, <1>2, <1>3, <1>5, <2>2
    <3> QED BY <3>1
  <2> QED BY <1>1, <1>2, <2>1, <2>2
<1>13. /\ Made' = Made \cup new /\ \A x \in new : x \notin Made
       /\ Static \notin new /\ Null \notin new /\ used' \in 0 .. MaxCells
  <2>1. Static \notin Messages!Cells /\ Null \notin Messages!Cells /\ MaxCells \in Nat
    BY ConstantsAssumption DEF Messages!PlacesAssumption
  <2>2. used + n \in new BY <1>2, <1>4, <1>5
  <2>3. used' \in 0 .. MaxCells BY <1>2, <1>4, <1>6, <2>1, <2>2 DEF Messages!Cells
  <2>4. Made' = Made \cup new /\ \A x \in new : x \notin Made
    BY <1>2, <1>4, <1>5, <1>6 DEF Made
  <2> QED BY <1>6, <2>1, <2>3, <2>4
<1>14. Static \notin Made /\ Null \notin Made /\ Null # Static BY Constants
<1> DEFINE Filled(o) == \E r \in batch : f[r] = o
<1>15. /\ \A o \in Places : Filled(o) => /\ cell'[o] \in new /\ wrapper'[o] = "Message"
                                         /\ cell[o] = Null /\ deleter[o] = "free"
       /\ \A o \in Places : ~Filled(o) => cell'[o] = cell[o] /\ wrapper'[o] = wrapper[o]
       /\ \A o, p \in Places : Filled(o) /\ Filled(p) /\ cell'[o] = cell'[p] => o = p
       /\ \A x \in new : \E o \in Places : Filled(o) /\ cell'[o] = x
  BY <1>8, <1>10, <1>11, <1>12 DEF PlaceInv
<1> HIDE DEF Filled
<1>16. MessageTypes'
  <2>1. /\ cell' \in [Places -> Made' \cup {Static, Null}]
        /\ wrapper' \in [Places -> {"none", "Message", "MessageId", "Buffer"}]
    BY <1>7, <1>13, <1>15
  <2> QED BY <1>6, <1>13, <2>1
<1>17. BatchInv' BY <1>6 DEF BatchInv
<1>18. SharingInv' BY <1>6, <1>13, <1>14, <1>15 DEF SharingInv
<1>19. \A o \in Places : PlaceInv(o)' BY <1>6, <1>13, <1>14, <1>15 DEF PlaceInv
<1>20. \A x : x \in live' <=> Owned(x)'
  <2>1. \A x \in new : x \in live' /\ Owned(x)'
    BY <1>6, <1>13, <1>15 DEF Owned
  <2>2. ASSUME NEW x, x \notin new PROVE Owned(x)' <=> Owned(x) /\ x \notin batch
    <3>1. Owned(x)' => Owned(x) /\ x \notin batch
      BY <1>6, <1>13, <1>14, <1>15, <2>2 DEF Owned, SharingInv, PlaceInv
    <3>2. Owned(x) /\ x \notin batch => Owned(x)'
      BY <1>6, <1>13, <1>14, <1>15, <2>2 DEF Owned
    <3> QED BY <3>1, <3>2
  <2> QED BY <1>6, <2>1, <2>2
<1> QED BY <1>16, <1>17, <1>18, <1>19, <1>20

LEMMA MessageNext == MessageInv /\ [Messages!Next]_messageVars => MessageInv'
<1> SUFFICES ASSUME MessageInv, [Messages!Next]_messageVars PROVE MessageInv' OBVIOUS
<1>1. ASSUME NEW o \in Places, Messages!Use(o) PROVE MessageInv'
  BY <1>1, UseStep, CollectStep DEF Messages!Use
<1>2. ASSUME NEW o \in Places, Messages!Make(o) PROVE MessageInv'
  <2>1. CASE Messages!New(o)
    BY <2>1, WrapStep DEF Messages!New, Messages!heap
  <2>2. CASE Messages!WrapDelivered(o)
    BY <2>2, WrapStep DEF Messages!WrapDelivered, Messages!heap, Places
  <2>3. CASE Messages!EarliestOrLatest(o)
    BY <2>3, WrapStep DEF Messages!EarliestOrLatest, Messages!heap
  <2>4. CASE Messages!Receive(o) \/ Messages!NewId(o)
    BY <2>4, FreshStep DEF Messages!Receive, Messages!NewId
  <2>5. CASE \E p \in Places : Messages!GetMessageId(p, o) \/ Messages!Serialize(p, o)
    BY <2>5, FreshStep DEF Messages!GetMessageId, Messages!Serialize
  <2>6. CASE Messages!Route(o) BY <2>6, RouteStep
  <2> QED BY <1>2, <2>1, <2>2, <2>3, <2>4, <2>5, <2>6 DEF Messages!Make, Places
<1>3. CASE Messages!BatchArrives \/ Messages!Deliver BY <1>3, ArriveStep
<1>4. CASE Messages!Delivered \/ Messages!Routed BY <1>4, LeaveStep
<1>5. CASE Messages!WrapBatch BY <1>5, BatchStep
<1>6. CASE UNCHANGED messageVars
  BY <1>6 DEF messageVars, MessageInv, MessageTypes, BatchInv, SharingInv, PlaceInv, Owned, Made
<1>7. Messages!Terminated => UNCHANGED messageVars
  BY DEF Messages!Terminated, Messages!vars, Messages!heap, Messages!objects, messageVars
<1> QED BY <1>1, <1>2, <1>3, <1>4, <1>5, <1>6, <1>7 DEF Messages!Next, Places

LEMMA MessagePart ==
  /\ ProgramInit => Messages!Init
  /\ [ProgramNext]_allVars => [Messages!Next]_messageVars
BY DEF ProgramInit, ProgramNext, ReadOptions, ReadPolicies, ConstructClients, RouteMessages,
       ExchangeSchemas, UseMessages, allVars

\* The inductive invariant of the message objects holds in every state.
THEOREM MessageInvariance == ProgramSpec => []MessageInv
BY MessageInit, MessageNext, MessagePart, PTL DEF ProgramSpec

\* A C object is there exactly as long as somebody has it, however many messages,
\* ids, Buffers and batches a program has: none leaks and none is freed twice
\* (the deleters of Message.cc and MessageId.cc).
THEOREM NoLeak == ProgramSpec => []LiveIffOwned
<1>1. MessageInv => LiveIffOwned
  BY DEF MessageInv, Owned, LiveIffOwned, Messages!LiveIffOwned, Places
<1> QED BY <1>1, MessageInvariance, PTL

\* Whatever the client made can be used while the program has it, but for the
\* message that a router kept (Message.cc, MessageId.cc, Consumer.cc).
THEOREM ObjectsUsable == ProgramSpec => []ClientObjectsUsable
<1>1. MessageInv => ClientObjectsUsable
  BY DEF MessageInv, MessageTypes, PlaceInv, Owned, ClientObjectsUsable,
         Messages!ClientObjectsUsable, Places
<1> QED BY <1>1, MessageInvariance, PTL

-----------------------------------------------------------------------------
\* Schemas.

\* The schemas that the topic may have: each is what the program or another
\* client gave, and all have a name.
Infos == {Schema!SchemaInfo(o) : o \in Given} \cup Foreign

\* What was fetched is an object for the schema of the version that was asked for.
SchemaInv ==
  /\ registry \in Seq(Infos)
  /\ fetched # Nothing =>
       /\ asked.whole /\ asked.int + 1 \in DOMAIN registry
       /\ \E t \in Schema!TypeNames :
            /\ Schema!SCHEMA_TYPE[t] = registry[asked.int + 1].code
            /\ fetched = Schema!NewObject(t, registry[asked.int + 1])

\* A schema of the topic has the four parts, and its data in a Buffer are there.
LEMMA InfoParts ==
  ASSUME NEW s \in Infos
  PROVE  /\ s = Schema!Info(s.code, s.name, s.data, s.properties)
         /\ s.name # Nothing
         /\ Schema!JsBuffer(s.data) # Nothing
<1>1. CASE s \in Foreign BY <1>1, ConstantsAssumption DEF Schema!SchemasAssumption
<1>2. CASE \E o \in Given : s = Schema!SchemaInfo(o)
  <2>1. PICK o \in Given : s = Schema!SchemaInfo(o) BY <1>2
  <2>2. s.name # Nothing
    BY <2>1, ConstantsAssumption DEF Schema!SchemasAssumption, Schema!SchemaInfo, Schema!Info
  <2>3. s.data = Schema!Data(o.schema) BY <2>1 DEF Schema!SchemaInfo, Schema!Info
  <2>4. s = Schema!Info(s.code, s.name, s.data, s.properties)
    BY <2>1 DEF Schema!SchemaInfo, Schema!Info
  <2> QED BY <2>2, <2>3, <2>4, ConstantsAssumption DEF Schema!SchemasAssumption
<1> QED BY <1>1, <1>2 DEF Infos

\* An object for a schema becomes that schema again.
LEMMA RoundTrip ==
  ASSUME NEW s \in Infos, NEW t \in Schema!TypeNames, Schema!SCHEMA_TYPE[t] = s.code
  PROVE  /\ Schema!KnownType(Schema!NewObject(t, s))
         /\ Schema!SchemaInfo(Schema!NewObject(t, s)) = s
         /\ Schema!NewObject(t, s).schemaType = t
         /\ Schema!NewObject(t, s).name = s.name
         /\ Schema!Data(Schema!NewObject(t, s).schema) = s.data
         /\ Schema!NewObject(t, s).properties = s.properties
<1>1. PICK o : o = Schema!NewObject(t, s) OBVIOUS
<1>2. /\ o.schemaType = t /\ o.name = s.name /\ o.schema = Schema!JsBuffer(s.data)
      /\ o.properties = s.properties
  BY <1>1 DEF Schema!NewObject, Schema!SchemaObject
<1>3. t # Nothing BY ConstantsAssumption DEF Schema!SchemasAssumption
<1>4. Schema!Data(o.schema) = s.data
  <2>1. Schema!JsBuffer(s.data) # Nothing BY InfoParts
  <2>2. Schema!JsBuffer(s.data).form = "buffer" /\ Schema!JsBuffer(s.data).data = s.data
    BY DEF Schema!JsBuffer
  <2> QED BY <1>2, <2>1, <2>2 DEF Schema!Data
<1>5. Schema!SchemaInfo(o) = Schema!Info(s.code, s.name, s.data, s.properties)
  BY <1>2, <1>3, <1>4, InfoParts DEF Schema!SchemaInfo
<1>6. Schema!KnownType(o) BY <1>2 DEF Schema!KnownType
<1> QED BY <1>1, <1>2, <1>4, <1>5, <1>6, InfoParts

\* Giving back what was fetched changes nothing.
LEMMA FetchedIsKnown ==
  ASSUME SchemaInv, Schema!RegisterFetched
  PROVE  registry' = registry /\ failed' = "none" /\ UNCHANGED <<asked, fetched>>
<1>1. /\ fetched # Nothing /\ asked.int + 1 \in DOMAIN registry
      /\ registry[asked.int + 1] \in Infos
  BY DEF Schema!RegisterFetched, SchemaInv
<1>2. PICK s : s = registry[asked.int + 1] OBVIOUS
<1>3. Schema!KnownType(fetched) /\ Schema!SchemaInfo(fetched) = s
  BY <1>1, <1>2, RoundTrip DEF SchemaInv
<1>4. Schema!Registered(Schema!SchemaInfo(fetched)) = registry
  BY <1>1, <1>2, <1>3 DEF Schema!Registered
<1> QED BY <1>3, <1>4 DEF Schema!RegisterFetched

LEMMA SchemaInit == Schema!Init => SchemaInv
BY DEF Schema!Init, SchemaInv

LEMMA SchemaNext == SchemaInv /\ [Schema!Next]_schemaVars => SchemaInv'
<1> SUFFICES ASSUME SchemaInv, [Schema!Next]_schemaVars PROVE SchemaInv' OBVIOUS
<1>1. ASSUME NEW s \in Infos, registry' = Schema!Registered(s), UNCHANGED <<asked, fetched>>
      PROVE  SchemaInv'
  <2>1. /\ registry' \in Seq(Infos)
        /\ \A i \in DOMAIN registry : i \in DOMAIN registry' /\ registry'[i] = registry[i]
    <3>1. CASE registry' = registry BY <3>1 DEF SchemaInv
    <3>2. CASE registry' = Append(registry, s) BY <3>2 DEF SchemaInv
    <3> QED BY <1>1, <3>1, <3>2 DEF Schema!Registered
  <2> QED BY <1>1, <2>1 DEF SchemaInv
<1>2. CASE registry' = registry /\ UNCHANGED <<asked, fetched>> BY <1>2 DEF SchemaInv
<1>3. ASSUME NEW o \in Given, Schema!Register(o) PROVE SchemaInv'
  BY <1>1, <1>2, <1>3 DEF Schema!Register, Infos
<1>4. ASSUME NEW s \in Foreign, Schema!RegisterForeign(s) PROVE SchemaInv'
  BY <1>1, <1>4 DEF Schema!RegisterForeign, Infos
<1>5. ASSUME NEW v \in Versions, Schema!GetSchemaInfo(v) PROVE SchemaInv'
  <2>1. registry' = registry /\ asked' = v BY <1>5 DEF Schema!GetSchemaInfo
  <2>2. CASE fetched' = Nothing BY <2>1, <2>2 DEF SchemaInv
  <2>3. CASE fetched' # Nothing
    <3>1. PICK s : s = registry[v.int + 1] OBVIOUS
    <3>2. /\ Schema!ValidVersion(v) /\ v.int + 1 \in DOMAIN registry
          /\ \E t \in Schema!GetSchemaTypeName(s.code) : fetched' = Schema!NewObject(t, s)
      BY <1>5, <2>3, <3>1 DEF Schema!GetSchemaInfo
    <3> QED BY <2>1, <3>1, <3>2
         DEF SchemaInv, Schema!ValidVersion, Schema!GetSchemaTypeName
  <2> QED BY <2>2, <2>3
<1>6. CASE Schema!RegisterFetched BY <1>2, <1>6, FetchedIsKnown
<1> QED BY <1>2, <1>3, <1>4, <1>5, <1>6 DEF Schema!Next, schemaVars

LEMMA SchemaPart ==
  /\ ProgramInit => Schema!Init
  /\ [ProgramNext]_allVars => [Schema!Next]_schemaVars
BY DEF ProgramInit, ProgramNext, ReadOptions, ReadPolicies, ConstructClients, RouteMessages,
       ExchangeSchemas, UseMessages, allVars

\* The inductive invariant of the schemas holds in every state.
THEOREM SchemaInvariance == ProgramSpec => []SchemaInv
BY SchemaInit, SchemaNext, SchemaPart, PTL DEF ProgramSpec

\* What getSchemaInfo() resolves with is the schema of the version that was asked
\* for, byte for byte and under its own type, whatever is registered meanwhile
\* (GetSchemaInfo in Client.cc, SchemaInfo::NewObject).
THEOREM FetchedRight == ProgramSpec => []FetchedAsRegistered
<1>1. SchemaInv => FetchedAsRegistered
  <2> SUFFICES ASSUME SchemaInv, fetched # Nothing PROVE FetchedAsRegistered
    BY DEF FetchedAsRegistered, Schema!FetchedAsRegistered
  <2>1. PICK s : s = registry[asked.int + 1] OBVIOUS
  <2>2. s \in Infos BY <2>1 DEF SchemaInv
  <2> QED BY <2>1, <2>2, RoundTrip DEF SchemaInv, FetchedAsRegistered, Schema!FetchedAsRegistered
<1> QED BY <1>1, SchemaInvariance, PTL

\* A fetched schema that is given to a producer again is accepted and is the
\* version that it came from (SchemaInfo::SchemaInfo).
THEOREM FetchedAccepted == ProgramSpec => FetchedReused
<1>1. SchemaInv => Schema!ReuseStep BY FetchedIsKnown DEF Schema!ReuseStep
<1> QED BY <1>1, SchemaInvariance, PTL DEF FetchedReused

-----------------------------------------------------------------------------
\* Clients with several services.

\* A Client before and after its construction; one that has a C++ client has
\* what its configuration says, and one that is there keeps the Authentications
\* of its services.
FailoverInv(c) ==
  /\ object[c] = "none" => client[c] = "none"
  /\ client[c] # "none" =>
       /\ conf[c] \in FailoverConfigs /\ Failover!ConfigOk(conf[c])
       /\ services[c] = Failover!Services(conf[c])
       /\ Failover!HasProvider(conf[c]) =>
            numbers[c] = [n \in Failover!NumberNames |->
                            Failover!SetPositiveUint32(conf[c].provider.number)]
  /\ object[c] = "alive" =>
       /\ client[c] = "alive" /\ authRefs[c] = Failover!AuthRefs(conf[c])
       /\ authRefs[c] \cap gone = {}

ClientInv ==
  part # "levels" =>
    /\ object \in [FailoverClients -> {"none", "thrown", "alive", "collected"}]
    /\ client \in [FailoverClients -> {"none", "alive", "freed"}]
    /\ DOMAIN conf = FailoverClients /\ DOMAIN authRefs = FailoverClients
    /\ DOMAIN services = FailoverClients /\ DOMAIN numbers = FailoverClients
    /\ \A c \in FailoverClients : FailoverInv(c)

LEMMA ClientInit == ProgramInit => ClientInv
BY DEF ProgramInit, Failover!Init, ClientInv, FailoverInv

LEMMA ConstructStep ==
  ASSUME NEW c \in FailoverClients, NEW k \in FailoverConfigs, part # "levels", ClientInv,
         Failover!New(c, k) \/ Failover!NewThrows(c, k), UNCHANGED part
  PROVE  ClientInv'
<1> USE DEF ClientInv
<1>1. CASE Failover!New(c, k)
  <2>1. FailoverInv(c)' BY <1>1 DEF Failover!New, FailoverInv
  <2>2. \A d \in FailoverClients : d # c => FailoverInv(d)' BY <1>1 DEF Failover!New, FailoverInv
  <2> QED BY <1>1, <2>1, <2>2 DEF Failover!New
<1>2. CASE Failover!NewThrows(c, k)
  <2>1. FailoverInv(c)' BY <1>2 DEF Failover!NewThrows, FailoverInv
  <2>2. \A d \in FailoverClients : d # c => FailoverInv(d)'
    BY <1>2 DEF Failover!NewThrows, FailoverInv
  <2> QED BY <1>2, <2>1, <2>2 DEF Failover!NewThrows
<1> QED BY <1>1, <1>2

LEMMA ClientNext == ClientInv /\ [ProgramNext]_allVars => ClientInv'
<1> SUFFICES ASSUME ClientInv, [ProgramNext]_allVars, part # "levels" PROVE ClientInv'
  BY DEF ClientInv, ProgramNext, ReadOptions, ReadPolicies, ConstructClients, RouteMessages,
         ExchangeSchemas, UseMessages, allVars
<1>1. UNCHANGED part /\ (UNCHANGED clientVars \/ Failover!Next)
  BY DEF ProgramNext, ReadOptions, ReadPolicies, ConstructClients, RouteMessages,
         ExchangeSchemas, UseMessages, allVars
<1>2. CASE UNCHANGED clientVars
  BY <1>1, <1>2 DEF clientVars, ClientInv, FailoverInv
<1>3. ASSUME NEW c \in FailoverClients, NEW k \in FailoverConfigs,
             Failover!Construct(c, k) \/ Failover!CreateFails(c, k)
      PROVE  ClientInv'
  BY <1>1, <1>3, ConstructStep DEF Failover!Construct, Failover!CreateFails
<1>4. ASSUME NEW c \in FailoverClients, Failover!CollectClient(c) PROVE ClientInv'
  BY <1>1, <1>4 DEF Failover!CollectClient, ClientInv, FailoverInv
<1>5. ASSUME NEW c \in FailoverClients, Failover!FreeClient(c) PROVE ClientInv'
  BY <1>1, <1>5 DEF Failover!FreeClient, ClientInv, FailoverInv
<1>6. ASSUME NEW c \in FailoverClients, NEW l \in Levels, Failover!IsEnabled(c, l) PROVE ClientInv'
  BY <1>1, <1>6 DEF Failover!IsEnabled, ClientInv, FailoverInv
<1>7. ASSUME NEW a \in Authentications, Failover!CollectAuthentication(a) PROVE ClientInv'
  BY <1>1, <1>7 DEF Failover!CollectAuthentication, ClientInv, FailoverInv
<1> QED BY <1>1, <1>2, <1>3, <1>4, <1>5, <1>6, <1>7 DEF Failover!Next

\* The inductive invariant of the clients with services holds in every state.
THEOREM ClientInvariance == ProgramSpec => []ClientInv
BY ClientInit, ClientNext, PTL DEF ProgramSpec

\* The services that a valid provider gives, each of which is one.
LEMMA GivenOk ==
  ASSUME NEW k \in FailoverConfigs, Failover!ConfigOk(k), ~Failover!HasUrl(k),
         NEW g, g = Failover!GivenServices(k.provider)
  PROVE  /\ Failover!HasProvider(k)
         /\ Len(g) \in Nat /\ DOMAIN g = 1 .. Len(g)
         /\ \A i \in DOMAIN g : Failover!ServiceOk(g[i]) /\ Failover!IsService(g[i])
<1>1. Failover!HasProvider(k) /\ Failover!ProviderOk(k.provider)
  BY DEF Failover!ConfigOk, Failover!UrlsOk, Failover!HasUrl, Failover!HasProvider
<1>2. Failover!IsProvider(k.provider)
  BY <1>1, ConstantsAssumption DEF Failover!ClientAssumption, Failover!HasProvider
<1>3. PICK q : q = k.provider.secondary OBVIOUS
<1>4. PICK S : S = {q[i] : i \in DOMAIN q} OBVIOUS
<1>5. q \in Seq(S) BY <1>1, <1>2, <1>3, <1>4 DEF Failover!IsProvider, Failover!ProviderOk
<1>6. PICK r : r = k.provider.primary OBVIOUS
<1>7. g = <<r>> \o q BY <1>3, <1>6 DEF Failover!GivenServices
<1>8. <<r>> \in Seq(S \cup {r}) /\ q \in Seq(S \cup {r}) BY <1>5
<1>9. /\ g \in Seq(S \cup {r}) /\ Len(g) = 1 + Len(q) /\ g[1] = r
      /\ \A i \in 2 .. Len(g) : g[i] = q[i - 1]
  BY <1>7, <1>8
<1>10. \A i \in DOMAIN g : g[i] = r \/ \E j \in DOMAIN q : g[i] = q[j]
  <2>1. Len(q) \in Nat /\ DOMAIN q = 1 .. Len(q) /\ DOMAIN g = 1 .. 1 + Len(q) BY <1>5, <1>9
  <2>2. ASSUME NEW i \in DOMAIN g, i # 1 PROVE i - 1 \in DOMAIN q /\ g[i] = q[i - 1]
    BY <1>9, <2>1, <2>2
  <2> QED BY <1>9, <2>2
<1>11. /\ Failover!ServiceOk(r) /\ Failover!IsService(r)
       /\ \A j \in DOMAIN q : Failover!ServiceOk(q[j]) /\ Failover!IsService(q[j])
  BY <1>1, <1>2, <1>3, <1>6 DEF Failover!ProviderOk, Failover!IsProvider
<1> QED BY <1>1, <1>9, <1>10, <1>11

\* The Authentication that a service uses is one that the Client keeps.
LEMMA ServiceAuth ==
  ASSUME NEW k \in FailoverConfigs, Failover!ConfigOk(k), NEW i \in DOMAIN Failover!Services(k)
  PROVE  Failover!Services(k)[i].auth \in Failover!AuthRefs(k) \cup {Disabled}
<1>1. PICK d : d = [auth |-> Failover!DefaultAuth(k), tls |-> k.tls] OBVIOUS
<1>2. d.auth \in Failover!AuthRefs(k) \cup {Disabled}
  BY <1>1 DEF Failover!DefaultAuth, Failover!IsAuthentication, Failover!AuthRefs
<1>3. CASE Failover!HasUrl(k)
  <2>1. Failover!Services(k) = <<d>> BY <1>1, <1>3 DEF Failover!Services
  <2> QED BY <1>2, <2>1
<1>4. CASE ~Failover!HasUrl(k)
  <2>1. PICK g : g = Failover!GivenServices(k.provider) OBVIOUS
  <2>2. Failover!Services(k) = [j \in DOMAIN g |-> Failover!ServiceInfo(g[j], d)]
    BY <1>1, <1>4, <2>1 DEF Failover!Services
  <2>3. i \in DOMAIN g /\ Failover!ServiceOk(g[i]) BY <1>4, <2>1, <2>2, GivenOk
  <2>4. g[i].form = "object" /\ g[i].auth \in Authentications => g[i].auth \in Failover!AuthRefs(k)
    BY <1>4, <2>1, <2>3 DEF Failover!AuthRefs
  <2> QED BY <1>2, <2>2, <2>3, <2>4
       DEF Failover!ServiceInfo, Failover!ServiceOk, Failover!IsAuthentication
<1> QED BY <1>3, <1>4

\* Whatever service a client fails over to, the Authentication that it uses is
\* there as long as the Client is (authRefs_ in Client.cc).
THEOREM AuthKept == ProgramSpec => []UsedAuthKept
<1>1. ClientInv => UsedAuthKept
  <2> SUFFICES ASSUME ClientInv, part = "failover", NEW c \in FailoverClients, object[c] = "alive",
                      NEW i \in DOMAIN services[c], services[c][i].auth # Disabled
               PROVE  services[c][i].auth \notin gone
    BY DEF UsedAuthKept, Failover!UsedAuthKept
  <2>1. FailoverInv(c) BY DEF ClientInv
  <2>2. services[c][i].auth \in authRefs[c] BY <2>1, ServiceAuth DEF FailoverInv
  <2> QED BY <2>1, <2>2 DEF FailoverInv
<1> QED BY <1>1, ClientInvariance, PTL

\* A number that is passed on is the program's own, and positive.
LEMMA PositiveNumber ==
  ASSUME NEW n \in Failover!Numbers \cup {NoNumber, Nothing}, n # Nothing, Failover!PositiveUint32(n)
  PROVE  /\ Failover!SetPositiveUint32(n) = n
         /\ n \in 1 .. Failover!MaxUint32
<1> DEFINE h == 2^(W64 - 1)
           u == 2^W32
<1>1. h \in Nat /\ u \in Nat /\ u < h
  <2>1. h \in Nat /\ u < h BY PowersAssumption
  <2>2. 2^(W32 - 1) \in Nat /\ u = 2 * 2^(W32 - 1) BY PowersAssumption
  <2> QED BY <2>1, <2>2
<1>2. Failover!MaxOf(W64) = h - 1 /\ Failover!MinOf(W64) = -h /\ Failover!MaxUint32 = u - 1
  BY DEF Failover!MaxOf, Failover!MinOf, Failover!MaxUint32
<1>3. n \in Failover!Numbers /\ Failover!Int64Value(n) > 0 /\ Failover!Int64Value(n) <= u - 1
  BY <1>2 DEF Failover!PositiveUint32
<1>4. n # NaN BY <1>3 DEF Failover!Int64Value
<1>5. n \in Int
  <2>1. 2^(W64 + 1 - 1) \in Nat
    <3>1. W64 + 1 - 1 = W64 BY WidthsAssumption
    <3>2. h \in Nat /\ 2^W64 = 2 * h BY PowersAssumption
    <3> QED BY <3>1, <3>2
  <2> QED BY <1>3, <1>4, <2>1 DEF Failover!Numbers, Failover!MinOf, Failover!MaxOf
<1> HIDE DEF h, u
<1>6. Failover!Int64Value(n) = n
  BY <1>1, <1>2, <1>3, <1>4, <1>5 DEF Failover!Int64Value
<1>7. n \in 1 .. u - 1 BY <1>1, <1>3, <1>5, <1>6
<1>8. n % u = n BY <1>1, <1>7
<1>9. Failover!Uint32Value(n) = n BY <1>4, <1>8 DEF Failover!Uint32Value, u
<1> QED BY <1>2, <1>6, <1>7, <1>9 DEF Failover!SetPositiveUint32

\* The services that configuration k asks for, and that a client has them.
Asked(k) ==
  IF Failover!HasUrl(k) THEN <<Failover!Service("string", "ok", Nothing, Nothing)>>
  ELSE Failover!GivenServices(k.provider)
AsConfigured(c, k, ask) ==
  /\ Len(services[c]) = Len(ask)
  /\ \A i \in DOMAIN services[c] :
       /\ services[c][i].auth =
            IF ask[i].auth \in Authentications THEN ask[i].auth
            ELSE IF k.auth \in Authentications THEN k.auth ELSE Disabled
       /\ services[c][i].tls = IF ask[i].tls = "own" THEN "own" ELSE k.tls
  /\ Failover!HasProvider(k) =>
       \A n \in Failover!NumberNames :
         IF k.provider.number = Nothing THEN numbers[c][n] = DefaultNumber
         ELSE numbers[c][n] = k.provider.number /\ numbers[c][n] \in 1 .. Failover!MaxUint32

\* Each service of a client has the authentication and the certificates that the
\* configuration names for it, else the client's, and the failover numbers are the
\* program's own and never wrap, for all widths of integers with the order of
\* 32 and 64 bits (BuildServiceInfo and SetPositiveUint32 in Client.cc).
THEOREM ServicesRight == ProgramSpec => []ServicesAsConfigured
<1>1. ClientInv => ServicesAsConfigured
  <2> SUFFICES ASSUME ClientInv, part = "failover" PROVE Failover!ServicesAsConfigured
    BY DEF ServicesAsConfigured
  <2>1. ASSUME NEW c \in FailoverClients, client[c] # "none", NEW k, k = conf[c],
               NEW ask, ask = Asked(k)
        PROVE  AsConfigured(c, k, ask)
    <3> USE <2>1 DEF Asked, AsConfigured
    <3>1. /\ k \in FailoverConfigs /\ Failover!ConfigOk(k) /\ services[c] = Failover!Services(k)
          /\ Failover!HasProvider(k) =>
               numbers[c] = [n \in Failover!NumberNames |->
                               Failover!SetPositiveUint32(k.provider.number)]
      BY DEF ClientInv, FailoverInv
    <3>2. PICK d : d = [auth |-> Failover!DefaultAuth(k), tls |-> k.tls] OBVIOUS
    <3>3. d.auth = (IF k.auth \in Authentications THEN k.auth ELSE Disabled) /\ d.tls = k.tls
      BY <3>2 DEF Failover!DefaultAuth, Failover!IsAuthentication
    <3>4. Nothing \notin Authentications /\ Nothing # "own"
      BY ConstantsAssumption DEF Failover!ClientAssumption
    <3>5. CASE Failover!HasUrl(k)
      <4>1. services[c] = <<d>> BY <3>1, <3>2, <3>5 DEF Failover!Services
      <4>2. ask[1].auth = Nothing /\ ask[1].tls = Nothing /\ Len(ask) = 1
        BY <3>5 DEF Failover!Service
      <4>3. ~Failover!HasProvider(k)
        BY <3>1, <3>5 DEF Failover!ConfigOk, Failover!UrlsOk, Failover!HasUrl, Failover!HasProvider
      <4>4. DOMAIN services[c] = {1} /\ services[c][1] = d /\ Len(services[c]) = 1 BY <4>1
      <4> QED BY <3>3, <3>4, <4>2, <4>3, <4>4
    <3>6. CASE ~Failover!HasUrl(k)
      <4>1. ask = Failover!GivenServices(k.provider) BY <3>6
      <4>2. services[c] = [i \in DOMAIN ask |-> Failover!ServiceInfo(ask[i], d)]
        BY <3>1, <3>2, <3>6, <4>1 DEF Failover!Services
      <4>3. /\ Failover!HasProvider(k) /\ Len(ask) \in Nat /\ DOMAIN ask = 1 .. Len(ask)
            /\ \A i \in DOMAIN ask : Failover!ServiceOk(ask[i]) /\ Failover!IsService(ask[i])
        BY <3>1, <3>6, <4>1, GivenOk
      <4>4. Len(services[c]) = Len(ask) BY <4>2, <4>3
      <4>5. \A i \in DOMAIN ask :
              /\ Failover!ServiceInfo(ask[i], d).auth =
                   IF ask[i].auth \in Authentications THEN ask[i].auth ELSE d.auth
              /\ Failover!ServiceInfo(ask[i], d).tls =
                   IF ask[i].tls = "own" THEN "own" ELSE d.tls
        BY <3>4, <4>3
        DEF Failover!ServiceInfo, Failover!ServiceOk, Failover!IsService, Failover!IsAuthentication
      <4>6. /\ Failover!PositiveUint32(k.provider.number)
            /\ k.provider.number \in Failover!Numbers \cup {NoNumber, Nothing}
        BY <3>1, <4>3, ConstantsAssumption
        DEF Failover!ConfigOk, Failover!ProviderOk, Failover!ClientAssumption,
            Failover!IsProvider, Failover!HasProvider
      <4>7. IF k.provider.number = Nothing
            THEN Failover!SetPositiveUint32(k.provider.number) = DefaultNumber
            ELSE /\ Failover!SetPositiveUint32(k.provider.number) = k.provider.number
                 /\ k.provider.number \in 1 .. Failover!MaxUint32
        <5>1. CASE k.provider.number = Nothing BY <5>1 DEF Failover!SetPositiveUint32
        <5>2. CASE k.provider.number # Nothing BY <4>6, <5>2, PositiveNumber
        <5> QED BY <5>1, <5>2
      <4>8. \A i \in DOMAIN services[c] :
              i \in DOMAIN ask /\ services[c][i] = Failover!ServiceInfo(ask[i], d)
        BY <4>2
      <4>9. \A n \in Failover!NumberNames :
              numbers[c][n] = Failover!SetPositiveUint32(k.provider.number)
        BY <3>1, <4>3
      <4> QED BY <3>3, <4>4, <4>5, <4>7, <4>8, <4>9
    <3> QED BY <3>5, <3>6
  <2>2. \A c \in FailoverClients : client[c] # "none" => AsConfigured(c, conf[c], Asked(conf[c]))
    BY <2>1
  <2> QED BY <2>2 DEF Failover!ServicesAsConfigured, AsConfigured, Asked
<1> QED BY <1>1, ClientInvariance, PTL

-----------------------------------------------------------------------------
\* The level of the logger.

\* The logger reads the level of a Client that was created, and is or was there.
LevelInv ==
  part = "levels" =>
    /\ object \in [LevelClients -> {"none", "thrown", "alive", "collected"}]
    /\ client \in [LevelClients -> {"none", "alive", "freed"}]
    /\ logger # NoClient =>
         /\ logger \in LevelClients /\ client[logger] # "none"
         /\ object[logger] \in {"alive", "collected"}

LEMMA LevelInit == ProgramInit => LevelInv
BY DEF ProgramInit, LogLevels!Init, LevelInv

\* A step of the clients keeps the logger, and what it logs is by its level.
LEMMA LevelNext ==
  ASSUME LevelInv, [ProgramNext]_allVars, part = "levels"
  PROVE  LevelInv' /\ LogLevels!LevelStep
<1> USE DEF LevelInv, LogLevels!LevelStep
<1>1. UNCHANGED part /\ (UNCHANGED clientVars \/ LogLevels!Next)
  BY DEF ProgramNext, ReadOptions, ReadPolicies, ConstructClients, RouteMessages,
         ExchangeSchemas, UseMessages, allVars
<1>2. CASE UNCHANGED clientVars BY <1>1, <1>2 DEF clientVars
<1>3. ASSUME NEW c \in LevelClients, NEW k \in LevelConfigs,
             LogLevels!Construct(c, k) \/ LogLevels!CreateFails(c, k)
      PROVE  LevelInv' /\ LogLevels!LevelStep
  <2>1. CASE LogLevels!New(c, k) BY <1>1, <2>1 DEF LogLevels!New, LogLevels!SetLogger
  <2>2. CASE LogLevels!NewThrows(c, k) BY <1>1, <2>2 DEF LogLevels!NewThrows
  <2> QED BY <1>3, <2>1, <2>2 DEF LogLevels!Construct, LogLevels!CreateFails
<1>4. ASSUME NEW c \in LevelClients, LogLevels!CollectClient(c) \/ LogLevels!FreeClient(c)
      PROVE  LevelInv' /\ LogLevels!LevelStep
  BY <1>1, <1>4 DEF LogLevels!CollectClient, LogLevels!FreeClient
<1>5. ASSUME NEW c \in LevelClients, NEW l \in Levels, LogLevels!IsEnabled(c, l)
      PROVE  LevelInv' /\ LogLevels!LevelStep
  <2>1. LevelInv' BY <1>1, <1>5 DEF LogLevels!IsEnabled
  <2>2. /\ logger # NoClient /\ logger' = logger /\ logged'.level = l
        /\ logged'.verdict = IF object[logger] # "alive" THEN "stale"
                             ELSE IF l >= conf[logger].level THEN "on" ELSE "off"
    BY <1>5 DEF LogLevels!IsEnabled
  <2> QED BY <2>1, <2>2
<1>6. ASSUME NEW a \in Authentications, LogLevels!CollectAuthentication(a)
      PROVE  LevelInv' /\ LogLevels!LevelStep
  BY <1>1, <1>6 DEF LogLevels!CollectAuthentication
<1> QED BY <1>1, <1>2, <1>3, <1>4, <1>5, <1>6 DEF LogLevels!Next

\* The level of the first Client that was created rules for every client as long
\* as that Client is there, and the logger never changes (Client.cc).
THEOREM LevelRules == ProgramSpec => FirstLevelRules
<1>1. LevelInv /\ [ProgramNext]_allVars => LevelInv'
  <2>1. CASE part = "levels" BY <2>1, LevelNext
  <2>2. CASE part # "levels"
    BY <2>2 DEF LevelInv, ProgramNext, ReadOptions, ReadPolicies, ConstructClients,
                RouteMessages, ExchangeSchemas, UseMessages, allVars
  <2> QED BY <2>1, <2>2
<1>2. LevelInv /\ [ProgramNext]_allVars => [part = "levels" => LogLevels!LevelStep]_allVars
  BY LevelNext
<1> QED BY <1>1, <1>2, LevelInit, PTL DEF ProgramSpec, FirstLevelRules

-----------------------------------------------------------------------------
\* The policies of a consumer.

\* What a C int holds.
CInt == MinOf(W32) .. MaxOf(W32)

\* A range as the client has it.
StickyRange(e) == <<Int32Value(e.start), Int32Value(e.end)>>

\* What has been read at each stage is what the program gave, converted.
PolicyRead ==
  /\ limits \in [Policies!Fields -> Limits \cup {Nothing}]
  /\ ranges \in Seq(Elements) /\ sticky \in Seq(CInt \X CInt) /\ Len(sticky) <= Len(ranges)
  /\ stage \in {"dead", "batch", "ranges", "end"}
  /\ verdict \in {"reading", "accepted", "rejected"}
  /\ stage = "batch" => policy = [f \in {"maxRedeliverCount"} |-> Policies!Read(f)]
  /\ stage \in {"ranges", "end"} =>
       policy = [f \in Policies!Fields |-> Policies!Read(f)] /\ Policies!HasLimit(policy)
  /\ \A i \in DOMAIN sticky : /\ ranges[i].kind = "range" /\ sticky[i] = StickyRange(ranges[i])
                              /\ sticky[i][1] <= sticky[i][2]
  /\ stage = "end" <=> verdict = "accepted"
  /\ verdict = "accepted" => Len(sticky) = Len(ranges)

PolicyInv == IF part = "policies" THEN PolicyRead ELSE verdict = "idle"

\* The conversions of the policies are those of all numbers.
LEMMA SameConversions ==
  ASSUME NEW n
  PROVE  /\ Policies!Int32Value(n) = Int32Value(n)
         /\ Policies!Int64Value(n) = Int64Value(n)
         /\ Policies!Narrow(n, W32) = Narrow(n, W32)
         /\ Policies!MinOf(W32) = MinOf(W32) /\ Policies!MaxOf(W32) = MaxOf(W32)
         /\ Policies!Numbers = Numbers
BY DEF Policies!Int32Value, Int32Value, Policies!Int64Value, Int64Value, Policies!Narrow, Narrow,
       Policies!MinOf, MinOf, Policies!MaxOf, MaxOf, Policies!Numbers, Numbers

\* A limit as it is read is an int, and the program's own if that is one.
LEMMA ReadLimit ==
  ASSUME NEW f \in Policies!Fields, limits[f] \in Limits \cup {Nothing}
  PROVE  /\ Policies!Read(f) \in CInt
         /\ limits[f] = Nothing => Policies!Read(f) = Policies!Default(f)
         /\ limits[f] # Nothing /\ limits[f] \in CInt => Policies!Read(f) = limits[f]
<1>1. /\ Limits \subseteq Numbers /\ DefaultBytes \in 1 .. MaxOf(W32)
      /\ DefaultTimeout \in 1 .. MaxOf(W32)
  BY ConstantsAssumption, SameConversions DEF Policies!PolicyAssumption
<1>2. Policies!Default(f) \in CInt
  <2>1. 2^(W32 - 1) \in Nat \ {0} BY PowersAssumption
  <2>2. Policies!Default(f) \in {-1, 0, DefaultBytes, DefaultTimeout} BY DEF Policies!Default
  <2> QED BY <1>1, <2>1, <2>2 DEF CInt, MinOf, MaxOf
<1>3. limits[f] # Nothing =>
        /\ Policies!IntValue(f, limits[f]) \in CInt
        /\ limits[f] \in CInt => Policies!IntValue(f, limits[f]) = limits[f]
  BY <1>1, IntValues, SameConversions DEF Policies!IntValue, CInt
<1> QED BY <1>2, <1>3 DEF Policies!Read

LEMMA PolicyInit == ProgramInit => PolicyInv
<1> SUFFICES ASSUME ProgramInit, part = "policies" PROVE PolicyRead BY DEF ProgramInit, PolicyInv
<1>1. Policies!Init BY DEF ProgramInit
<1>2. limits \in [Policies!Fields -> Limits \cup {Nothing}] BY <1>1 DEF Policies!Init
<1>3. ranges \in Seq(Elements)
  <2>1. CASE ranges = << >> BY <2>1
  <2>2. CASE ranges \in UNION {[1 .. n -> Elements] : n \in 0 .. MaxRanges}
    <3>1. PICK n \in 0 .. MaxRanges : ranges \in [1 .. n -> Elements] BY <2>2
    <3>2. n \in Nat BY <3>1, ConstantsAssumption DEF Policies!PolicyAssumption
    <3> QED BY <3>1, <3>2
  <2> QED BY <1>1, <2>1, <2>2 DEF Policies!Init
<1> QED BY <1>1, <1>2, <1>3 DEF Policies!Init, PolicyRead

LEMMA PolicyNext == PolicyInv /\ [ProgramNext]_allVars => PolicyInv'
<1> SUFFICES ASSUME PolicyRead, [ProgramNext]_allVars, part = "policies" PROVE PolicyRead'
  BY DEF PolicyInv, ProgramNext, ReadOptions, ReadPolicies, ConstructClients, RouteMessages,
         ExchangeSchemas, UseMessages, allVars, policyVars
<1> USE DEF PolicyRead
<1>1. UNCHANGED part /\ (UNCHANGED policyVars \/ Policies!Next)
  BY DEF ProgramNext, ReadOptions, ReadPolicies, ConstructClients, RouteMessages,
         ExchangeSchemas, UseMessages, allVars
<1>2. CASE UNCHANGED policyVars
  <2>1. \A f : Policies!Read(f)' = Policies!Read(f) BY <1>2 DEF policyVars, Policies!Read
  <2> QED BY <1>1, <1>2, <2>1 DEF policyVars
<1>3. CASE Policies!ReadDeadLetterPolicy
  <2>1. \A f : Policies!Read(f)' = Policies!Read(f)
    BY <1>3 DEF Policies!ReadDeadLetterPolicy, Policies!Read
  <2> QED BY <1>1, <1>3, <2>1 DEF Policies!ReadDeadLetterPolicy
<1>4. CASE Policies!ReadBatchReceivePolicy
  <2>1. \A f : Policies!Read(f)' = Policies!Read(f)
    BY <1>4 DEF Policies!ReadBatchReceivePolicy, Policies!Read
  <2>2. PICK p : p = [f \in Policies!Fields |->
                        IF f \in Policies!BatchLimits THEN Policies!Read(f) ELSE policy[f]]
    OBVIOUS
  <2>3. p = [f \in Policies!Fields |-> Policies!Read(f)]
    BY <1>4, <2>2 DEF Policies!ReadBatchReceivePolicy, Policies!BatchLimits, Policies!Fields
  <2>4. /\ stage = "batch" /\ verdict = "reading" /\ UNCHANGED <<limits, ranges, sticky>>
        /\ IF Policies!HasLimit(p) THEN policy' = p /\ stage' = "ranges" /\ UNCHANGED verdict
           ELSE verdict' = "rejected" /\ UNCHANGED <<policy, stage>>
    BY <1>4, <2>2 DEF Policies!ReadBatchReceivePolicy
  <2> QED BY <1>1, <2>1, <2>3, <2>4 DEF Policies!HasLimit
<1>5. CASE Policies!ReadRange
  <2>1. \A f : Policies!Read(f)' = Policies!Read(f)
    BY <1>5 DEF Policies!ReadRange, Policies!Read
  <2>2. PICK e : e = ranges[Len(sticky) + 1] OBVIOUS
  <2>3. /\ stage = "ranges" /\ verdict = "reading" /\ UNCHANGED <<limits, ranges, stage, policy>>
        /\ Len(sticky) < Len(ranges)
        /\ \/ verdict' = "rejected" /\ UNCHANGED sticky
           \/ /\ e.kind = "range" /\ ~(Int32Value(e.start) > Int32Value(e.end))
              /\ sticky' = Append(sticky, StickyRange(e)) /\ UNCHANGED verdict
    BY <1>5, <2>2, SameConversions DEF Policies!ReadRange, StickyRange
  <2>4. CASE UNCHANGED sticky BY <1>1, <2>1, <2>3, <2>4
  <2>5. CASE /\ e.kind = "range" /\ ~(Int32Value(e.start) > Int32Value(e.end))
             /\ sticky' = Append(sticky, StickyRange(e)) /\ UNCHANGED verdict
    <3>1. e \in Elements BY <2>2, <2>3
    <3>2. e.start \in Numbers /\ e.end \in Numbers
      BY <2>5, <3>1, ConstantsAssumption, SameConversions DEF Policies!PolicyAssumption
    <3>3. Int32Value(e.start) \in CInt /\ Int32Value(e.end) \in CInt
      BY <3>2, IntValues DEF CInt
    <3>4. Int32Value(e.start) \in Int /\ Int32Value(e.end) \in Int
      BY <3>3, PowersAssumption DEF CInt, MinOf, MaxOf
    <3>5. /\ StickyRange(e) \in CInt \X CInt /\ StickyRange(e)[1] <= StickyRange(e)[2]
      BY <2>5, <3>3, <3>4 DEF StickyRange
    <3>6. /\ sticky' \in Seq(CInt \X CInt) /\ Len(sticky') = Len(sticky) + 1
          /\ \A i \in DOMAIN sticky : sticky'[i] = sticky[i]
          /\ sticky'[Len(sticky) + 1] = StickyRange(e)
          /\ \A i \in DOMAIN sticky' : i \in DOMAIN sticky \/ i = Len(sticky) + 1
      BY <2>5, <3>5
    <3>7. Len(sticky') <= Len(ranges) BY <2>3, <3>6
    <3>8. \A i \in DOMAIN sticky' :
            /\ ranges[i].kind = "range" /\ sticky'[i] = StickyRange(ranges[i])
            /\ sticky'[i][1] <= sticky'[i][2]
      BY <2>2, <2>5, <3>5, <3>6
    <3> QED BY <1>1, <2>1, <2>3, <2>5, <3>6, <3>7, <3>8
  <2> QED BY <2>3, <2>4, <2>5
<1>6. CASE Policies!SetKeySharedPolicy
  <2>1. \A f : Policies!Read(f)' = Policies!Read(f)
    BY <1>6 DEF Policies!SetKeySharedPolicy, Policies!Read
  <2> QED BY <1>1, <1>6, <2>1 DEF Policies!SetKeySharedPolicy
<1>7. Policies!Finished => UNCHANGED policyVars
  BY DEF Policies!Finished, Policies!vars, policyVars
<1> QED BY <1>1, <1>2, <1>3, <1>4, <1>5, <1>6, <1>7 DEF Policies!Next

\* The inductive invariant of the policies holds in every state.
THEOREM PolicyInvariance == ProgramSpec => []PolicyInv
BY PolicyInit, PolicyNext, PTL DEF ProgramSpec

\* An accepted policy has a positive limit that a C int holds, the defaults for
\* what was not given and the program's own numbers where they fit, and the
\* ranges of the program one for one, for all widths and arrays of any length
\* (ConsumerConfig.cc).
THEOREM PoliciesRight == ProgramSpec => []PolicyAsGiven
<1>1. PolicyInv => PolicyAsGiven
  <2> SUFFICES ASSUME PolicyInv, verdict = "accepted" PROVE PolicyAsGiven
    BY DEF PolicyAsGiven, Policies!PolicyAsGiven
  <2> USE DEF PolicyRead
  <2>1. PolicyRead /\ policy = [f \in Policies!Fields |-> Policies!Read(f)]
    BY DEF PolicyInv
  <2>2. \A f \in Policies!Fields :
          /\ policy[f] \in CInt
          /\ limits[f] = Nothing => policy[f] = Policies!Default(f)
          /\ limits[f] # Nothing /\ limits[f] \in CInt => policy[f] = limits[f]
    BY <2>1, ReadLimit
  <2>3. \E f \in Policies!BatchLimits : policy[f] \in 1 .. MaxOf(W32)
    <3>1. PICK f \in Policies!BatchLimits : policy[f] > 0 BY <2>1 DEF Policies!HasLimit
    <3>2. f \in Policies!Fields BY DEF Policies!BatchLimits
    <3>3. MinOf(W32) \in Int /\ MaxOf(W32) \in Int BY PowersAssumption DEF MinOf, MaxOf
    <3> QED BY <2>2, <3>1, <3>2, <3>3 DEF CInt
  <2>4. \A f \in Policies!Fields :
          Policies!Default(f) = [maxRedeliverCount |-> 0, maxNumMessages |-> -1,
                                 maxNumBytes |-> DefaultBytes, timeoutMs |-> DefaultTimeout][f]
    BY DEF Policies!Fields, Policies!Default
  <2>5. \A f \in Policies!Fields :
          /\ limits[f] = Nothing =>
               policy[f] = [maxRedeliverCount |-> 0, maxNumMessages |-> -1,
                            maxNumBytes |-> DefaultBytes, timeoutMs |-> DefaultTimeout][f]
          /\ limits[f] \notin {Nothing, NaN} /\ Policies!InInt(limits[f]) => policy[f] = limits[f]
    BY <2>2, <2>4, SameConversions DEF Policies!InInt, CInt
  <2>6. Len(sticky) = Len(ranges) /\ DOMAIN ranges = DOMAIN sticky BY <2>1
  <2>7. ASSUME NEW i \in DOMAIN ranges
        PROVE  /\ ranges[i].kind = "range" /\ sticky[i][1] <= sticky[i][2]
               /\ ranges[i].start # NaN /\ Policies!InInt(ranges[i].start) =>
                    sticky[i][1] = ranges[i].start
               /\ ranges[i].end # NaN /\ Policies!InInt(ranges[i].end) =>
                    sticky[i][2] = ranges[i].end
    <3>1. PICK e : e = ranges[i] OBVIOUS
    <3>2. /\ e \in Elements /\ e.kind = "range" /\ sticky[i] = StickyRange(e)
          /\ sticky[i][1] <= sticky[i][2]
      BY <2>1, <2>6, <2>7, <3>1
    <3>3. e.start \in Numbers /\ e.end \in Numbers
      BY <3>2, ConstantsAssumption, SameConversions DEF Policies!PolicyAssumption
    <3>4. sticky[i][1] = Int32Value(e.start) /\ sticky[i][2] = Int32Value(e.end)
      BY <3>2 DEF StickyRange
    <3> QED BY <3>1, <3>2, <3>3, <3>4, IntValues, SameConversions DEF Policies!InInt
  <2>8. Policies!MaxOf(W32) = MaxOf(W32) BY SameConversions
  <2> QED BY <2>3, <2>5, <2>6, <2>7, <2>8 DEF PolicyAsGiven, Policies!PolicyAsGiven
<1> QED BY <1>1, PolicyInvariance, PTL

-----------------------------------------------------------------------------
\* The tables of options.

\* A row that refuses nothing.
Mild(o) == o.bad = "skip" /\ o.missing = "skip"

\* A number is read if it is there, as one of three types, and the largest int64_t
\* is passed to the client.
NumberRow(o) ==
  /\ o.conv \in {"int32", "int64", "uint32"} /\ o.needs = {} /\ o.bad # "set"
  /\ o.conv = "int64" => Num(MaxOf(W64)) \in o.accept

\* The rows that may refuse a value.
AckRow == Rejecting(Option("ackTimeoutMs", "number", "int64", {Num(0)} \cup AtLeast(MinAckTimeout)))
NackRow == Rejecting(Int64("nAckRedeliverTimeoutMs", 0))
SubscriptionRow ==
  Needing(Required("subscription", "string", Nonempty),
          {<<"topic", Nonempty>>, <<"topics", Texts("array", {"strings"})>>,
           <<"topicsPattern", Nonempty>>})
TopicRow == Required("topic", "string", Nonempty)
StartRow == Required("startMessageId", "object", Texts("object", {"good"}))
ProducerStrict == {Checked("schema", "throw"), Wrapped("cryptoKeyReader"), TopicRow}
ConsumerStrict ==
  {SubscriptionRow, AckRow, NackRow, Checked("schema", "throw"), Wrapped("cryptoKeyReader"),
   Checked("batchReceivePolicy", "reject"), Checked("keySharedPolicy", "reject")}
ReaderStrict == {Wrapped("startMessageId"), TopicRow, StartRow}

\* What every row of a table is: S are the strict rows of its class.
RowOk(o, S) == /\ Mild(o) \/ o \in S
               /\ o.type = "number" => NumberRow(o)

\* The fields of a plain row.
LEMMA OptionRow ==
  ASSUME NEW n, NEW t, NEW c, NEW A
  PROVE  /\ Option(n, t, c, A).name = n /\ Option(n, t, c, A).type = t
         /\ Option(n, t, c, A).conv = c /\ Option(n, t, c, A).accept = A
         /\ Option(n, t, c, A).bad = "skip" /\ Option(n, t, c, A).missing = "skip"
         /\ Option(n, t, c, A).needs = {}
BY DEF Option

\* The largest int64_t is accepted wherever a number has only a lower limit.
LEMMA LargestAccepted ==
  /\ \A k \in 0 .. 1 : Num(MaxOf(W64)) \in AtLeast(k)
  /\ Num(MaxOf(W64)) \in AtLeast(MinAckTimeout)
  /\ Num(MaxOf(W64)) \in AnyInteger
<1>1. PICK g : g = 2^(W64 - 1) OBVIOUS
<1>2. PICK h : h = 2^(W32 - 1) OBVIOUS
<1>3. h \in Nat \ {0} /\ g \in Nat \ {0} /\ 2 * h < g BY <1>1, <1>2, PowersAssumption
<1>4. MaxOf(W64) = g - 1 /\ MinOf(W64) = -g BY <1>1 DEF MinOf, MaxOf
<1>5. MinAckTimeout \in 1 .. g - 1 BY AckAssumption, <1>4
<1>6. \A k \in Int : k <= g - 1 => g - 1 \in k .. g - 1 BY <1>3
<1> QED BY <1>3, <1>4, <1>5, <1>6 DEF AtLeast, AnyInteger

\* The names and types of rows.
LEMMA RowNames ==
  /\ \A n : Text(n).name = n /\ Name(n).name = n /\ Known(n).name = n
            /\ Flag(n).name = n /\ Switch(n).name = n /\ AnObject(n).name = n
  /\ \A n : Text(n).type = "string" /\ Name(n).type = "string" /\ Known(n).type = "string"
            /\ Flag(n).type = "boolean" /\ Switch(n).type = "boolean" /\ AnObject(n).type = "object"
  /\ \A n, k : Int32(n, k).name = n /\ Int64(n, k).name = n
               /\ Int32(n, k).type = "number" /\ Int64(n, k).type = "number"
  /\ \A n, a : Checked(n, a).name = n /\ Checked(n, a).type = "object"
  /\ \A n : Wrapped(n).name = n /\ Wrapped(n).type = "object"
  /\ \A n, t, A : Required(n, t, A).name = n /\ Required(n, t, A).type = t
  /\ \A n, t, c, A : Option(n, t, c, A).name = n /\ Option(n, t, c, A).type = t
  /\ \A n, t, c, A, P : /\ Needing(Option(n, t, c, A), P).name = n
                        /\ Needing(Option(n, t, c, A), P).type = t
  /\ \A n, P : /\ Needing(Text(n), P).name = n /\ Needing(Text(n), P).type = "string"
               /\ Needing(Known(n), P).name = n /\ Needing(Known(n), P).type = "string"
  /\ \A n, t, A, P : /\ Needing(Required(n, t, A), P).name = n
                     /\ Needing(Required(n, t, A), P).type = t
  /\ \A n, t, c, A : Rejecting(Option(n, t, c, A)).name = n /\ Rejecting(Option(n, t, c, A)).type = t
  /\ \A n, k : Rejecting(Int64(n, k)).name = n /\ Rejecting(Int64(n, k)).type = "number"
<1>1. \A n : Text(n).name = n /\ Name(n).name = n /\ Known(n).name = n
            /\ Flag(n).name = n /\ Switch(n).name = n /\ AnObject(n).name = n
  BY DEF Text, Name, Known, Flag, Switch, AnObject, Option
<1>2. \A n : Text(n).type = "string" /\ Name(n).type = "string" /\ Known(n).type = "string"
            /\ Flag(n).type = "boolean" /\ Switch(n).type = "boolean" /\ AnObject(n).type = "object"
  BY DEF Text, Name, Known, Flag, Switch, AnObject, Option
<1>3. \A n, k : Int32(n, k).name = n /\ Int64(n, k).name = n
               /\ Int32(n, k).type = "number" /\ Int64(n, k).type = "number"
  BY DEF Int32, Int64, Option
<1>4. \A n, a : Checked(n, a).name = n /\ Checked(n, a).type = "object" BY DEF Checked, Option
<1>5. \A n : Wrapped(n).name = n /\ Wrapped(n).type = "object" BY DEF Wrapped, Option
<1>6. \A n, t, A : Required(n, t, A).name = n /\ Required(n, t, A).type = t BY DEF Required, Option
<1>7. \A n, t, c, A : Option(n, t, c, A).name = n /\ Option(n, t, c, A).type = t BY OptionRow
<1>8. \A n, t, c, A, P : /\ Needing(Option(n, t, c, A), P).name = n
                         /\ Needing(Option(n, t, c, A), P).type = t
  BY DEF Needing, Option
<1>9. \A n, P : /\ Needing(Text(n), P).name = n /\ Needing(Text(n), P).type = "string"
               /\ Needing(Known(n), P).name = n /\ Needing(Known(n), P).type = "string"
  BY DEF Needing, Text, Known, Option
<1>10. \A n, t, A, P : /\ Needing(Required(n, t, A), P).name = n
                       /\ Needing(Required(n, t, A), P).type = t
  BY DEF Needing, Required, Option
<1>11. \A n, t, c, A : Rejecting(Option(n, t, c, A)).name = n /\ Rejecting(Option(n, t, c, A)).type = t
  BY DEF Rejecting, Option
<1>12. \A n, k : Rejecting(Int64(n, k)).name = n /\ Rejecting(Int64(n, k)).type = "number"
  BY DEF Rejecting, Int64, Option
<1> QED BY <1>1, <1>2, <1>3, <1>4, <1>5, <1>6, <1>7, <1>8, <1>9, <1>10, <1>11, <1>12

\* The rows that refuse nothing.
LEMMA MildRows ==
  ASSUME NEW S
  PROVE  /\ \A n : RowOk(Text(n), S) /\ RowOk(Name(n), S) /\ RowOk(Known(n), S)
         /\ \A n : RowOk(Flag(n), S) /\ RowOk(Switch(n), S) /\ RowOk(AnObject(n), S)
         /\ \A n, k : k \in 0 .. 1 => RowOk(Int32(n, k), S) /\ RowOk(Int64(n, k), S)
         /\ \A n, t, c, A : t # "number" => RowOk(Option(n, t, c, A), S)
         /\ \A n, c : c \in {"int32", "int64", "uint32"} => RowOk(Option(n, "number", c, AnyInteger), S)
         /\ \A n : RowOk(Option(n, "number", "uint32", AtLeast(1)), S)
         /\ \A n, P : RowOk(Needing(Text(n), P), S) /\ RowOk(Needing(Known(n), P), S)
         /\ \A n, t, c, A, P : t # "number" => RowOk(Needing(Option(n, t, c, A), P), S)
<1>1. \A n : RowOk(Text(n), S) /\ RowOk(Name(n), S) /\ RowOk(Known(n), S)
  BY OptionRow DEF Text, Name, Known, RowOk, Mild
<1>2. \A n : RowOk(Flag(n), S) /\ RowOk(Switch(n), S) /\ RowOk(AnObject(n), S)
  BY OptionRow DEF Flag, Switch, AnObject, RowOk, Mild
<1>3. \A n, k : k \in 0 .. 1 => RowOk(Int32(n, k), S) /\ RowOk(Int64(n, k), S)
  BY OptionRow, LargestAccepted DEF Int32, Int64, RowOk, Mild, NumberRow
<1>4. \A n, t, c, A : t # "number" => RowOk(Option(n, t, c, A), S)
  BY OptionRow DEF RowOk, Mild
<1>5. \A n, c : c \in {"int32", "int64", "uint32"} => RowOk(Option(n, "number", c, AnyInteger), S)
  BY OptionRow, LargestAccepted DEF RowOk, Mild, NumberRow
<1>6. \A n : RowOk(Option(n, "number", "uint32", AtLeast(1)), S)
  BY OptionRow, LargestAccepted DEF RowOk, Mild, NumberRow
<1>7. \A n, P : RowOk(Needing(Text(n), P), S) /\ RowOk(Needing(Known(n), P), S)
  BY DEF Needing, Text, Known, Option, RowOk, Mild
<1>8. \A n, t, c, A, P : t # "number" => RowOk(Needing(Option(n, t, c, A), P), S)
  BY DEF Needing, Option, RowOk, Mild
<1> QED BY <1>1, <1>2, <1>3, <1>4, <1>5, <1>6, <1>7, <1>8

\* The rows that may refuse a value are among the strict ones, and numbers are
\* what they should be.
LEMMA StrictRows ==
  /\ \A o \in ProducerStrict : RowOk(o, ProducerStrict)
  /\ \A o \in ConsumerStrict : RowOk(o, ConsumerStrict)
  /\ \A o \in ReaderStrict : RowOk(o, ReaderStrict)
<1>1. \A o \in ProducerStrict : o.type # "number" BY RowNames DEF ProducerStrict, TopicRow
<1>2. \A o \in ReaderStrict : o.type # "number" BY RowNames DEF ReaderStrict, TopicRow, StartRow
<1>3. NumberRow(AckRow)
  BY LargestAccepted DEF AckRow, Rejecting, Option, NumberRow
<1>4. NumberRow(NackRow)
  BY LargestAccepted DEF NackRow, Rejecting, Int64, Option, NumberRow
<1>5. \A o \in ConsumerStrict : o.type = "number" => o = AckRow \/ o = NackRow
  BY RowNames DEF ConsumerStrict, SubscriptionRow
<1> QED BY <1>1, <1>2, <1>3, <1>4, <1>5 DEF RowOk

\* The rows of each table.
LEMMA ProducerRows == \A i \in DOMAIN ProducerOptions : RowOk(ProducerOptions[i], ProducerStrict)
<1>1. PICK S : S = ProducerStrict OBVIOUS
<1>2. /\ RowOk(Checked("schema", "throw"), S) /\ RowOk(Wrapped("cryptoKeyReader"), S)
      /\ RowOk(Required("topic", "string", Nonempty), S)
  BY <1>1, StrictRows DEF ProducerStrict, TopicRow
<1>3. \A i \in DOMAIN ProducerOptions : RowOk(ProducerOptions[i], S)
  BY <1>2, MildRows, SMTT(60) DEF ProducerOptions
<1> QED BY <1>1, <1>3

LEMMA ConsumerRows ==
  /\ \A i \in DOMAIN ConsumerNames : RowOk(ConsumerNames[i], ConsumerStrict)
  /\ \A i \in DOMAIN ConsumerSettings : RowOk(ConsumerSettings[i], ConsumerStrict)
<1>1. PICK S : S = ConsumerStrict OBVIOUS
<1>2. PICK s, a, n : s = SubscriptionRow /\ a = AckRow /\ n = NackRow OBVIOUS
<1>3. /\ RowOk(Checked("schema", "throw"), S) /\ RowOk(Wrapped("cryptoKeyReader"), S)
      /\ RowOk(Checked("batchReceivePolicy", "reject"), S)
      /\ RowOk(Checked("keySharedPolicy", "reject"), S)
      /\ RowOk(s, S) /\ RowOk(a, S) /\ RowOk(n, S)
  BY <1>1, <1>2, StrictRows DEF ConsumerStrict
<1>4. \A i \in DOMAIN ConsumerNames : RowOk(ConsumerNames[i], S)
  BY <1>2, <1>3, MildRows DEF ConsumerNames, SubscriptionRow
<1>5. \A i \in DOMAIN ConsumerSettings : RowOk(ConsumerSettings[i], S)
  BY <1>2, <1>3, MildRows DEF ConsumerSettings, AckRow, NackRow
<1> QED BY <1>1, <1>4, <1>5

LEMMA ReaderRows == \A i \in DOMAIN ReaderOptions : RowOk(ReaderOptions[i], ReaderStrict)
BY MildRows, StrictRows DEF ReaderOptions, ReaderStrict, TopicRow, StartRow

LEMMA OtherRows ==
  /\ \A i \in DOMAIN ClientOptions : RowOk(ClientOptions[i], {})
  /\ \A i \in DOMAIN MessageOptions : RowOk(MessageOptions[i], {})
BY MildRows DEF ClientOptions, MessageOptions

\* No other row has the name of a row that is read as a number.
Unique(T) ==
  \A i, j \in DOMAIN T : T[i].type = "number" /\ T[i].name = T[j].name => i = j

LEMMA UniqueNames ==
  /\ Unique(ProducerOptions) /\ Unique(ConsumerSettings) /\ Unique(ReaderOptions)
  /\ Unique(ClientOptions) /\ Unique(MessageOptions)
  /\ \A i \in DOMAIN ConsumerNames : ConsumerNames[i].type # "number"
  /\ \A i \in DOMAIN ConsumerNames, j \in DOMAIN ConsumerSettings :
       ConsumerNames[i].name = ConsumerSettings[j].name => ConsumerSettings[j].type # "number"
<1>1. Unique(ProducerOptions) BY RowNames DEF ProducerOptions, Unique
<1>2. Unique(ConsumerSettings) BY RowNames DEF ConsumerSettings, Unique
<1>3. Unique(ReaderOptions) BY RowNames DEF ReaderOptions, Unique
<1>4. Unique(ClientOptions) BY RowNames DEF ClientOptions, Unique
<1>5. Unique(MessageOptions) BY RowNames DEF MessageOptions, Unique
<1>6. \A i \in DOMAIN ConsumerNames : ConsumerNames[i].type # "number"
  BY RowNames DEF ConsumerNames
<1>7. \A i \in DOMAIN ConsumerNames, j \in DOMAIN ConsumerSettings :
       ConsumerNames[i].name = ConsumerSettings[j].name => ConsumerSettings[j].type # "number"
  BY RowNames DEF ConsumerNames, ConsumerSettings
<1> QED BY <1>1, <1>2, <1>3, <1>4, <1>5, <1>6, <1>7

\* The two parts of the consumer's table.
LEMMA ConsumerTable ==
  /\ Len(ConsumerOptions) = 26 /\ DOMAIN ConsumerOptions = 1 .. 26
  /\ DOMAIN ConsumerNames = 1 .. 8 /\ DOMAIN ConsumerSettings = 1 .. 18
  /\ \A i \in 1 .. 8 : ConsumerOptions[i] = ConsumerNames[i]
  /\ \A i \in 1 .. 18 : ConsumerOptions[i + 8] = ConsumerSettings[i]
<1>1. PICK s, t : s = ConsumerNames /\ t = ConsumerSettings OBVIOUS
<1>2. DOMAIN s = 1 .. 8 /\ DOMAIN t = 1 .. 18 /\ Len(s) = 8 /\ Len(t) = 18
  BY <1>1 DEF ConsumerNames, ConsumerSettings
<1>3. PICK U : U = {s[i] : i \in 1 .. 8} \cup {t[i] : i \in 1 .. 18} OBVIOUS
<1>4. s \in Seq(U) /\ t \in Seq(U)
  <2>1. s \in Seq({s[i] : i \in 1 .. 8}) BY <1>1 DEF ConsumerNames
  <2>2. t \in Seq({t[i] : i \in 1 .. 18}) BY <1>1 DEF ConsumerSettings
  <2> QED BY <2>1, <2>2, <1>3
<1>5. PICK u : u = ConsumerOptions OBVIOUS
<1>6. /\ u \in Seq(U) /\ Len(u) = Len(s) + Len(t)
      /\ \A i \in 1 .. Len(s) + Len(t) : u[i] = IF i <= Len(s) THEN s[i] ELSE t[i - Len(s)]
  <2>1. u = s \o t BY <1>1, <1>5 DEF ConsumerOptions
  <2> QED BY <1>4, <2>1, ConcatProperties, Zenon
<1>7. Len(u) = 26 /\ \A i \in 1 .. 26 : u[i] = IF i <= 8 THEN s[i] ELSE t[i - 8]
  BY <1>2, <1>6
<1>8. DOMAIN u = 1 .. 26
  <2>1. u \in Seq(U) /\ Len(u) = 26 BY <1>6, <1>7
  <2> QED BY <2>1
<1>9. \A i \in 1 .. 18 : i + 8 \in 1 .. 26 /\ ~(i + 8 <= 8) /\ (i + 8) - 8 = i OBVIOUS
<1>10. \A i \in 1 .. 18 : u[i + 8] = t[i] BY <1>7, <1>9
<1> QED BY <1>1, <1>2, <1>5, <1>7, <1>8, <1>10

\* The rows of a class that may refuse a value.
Strict ==
  [producer |-> ProducerStrict, consumer |-> ConsumerStrict, reader |-> ReaderStrict,
   client |-> {}, message |-> {}]

\* What the proofs need of a table: it has just the strict rows S and mild ones.
TableOk(T, S) ==
  /\ Len(T) \in Nat /\ DOMAIN T = 1 .. Len(T)
  /\ \A i \in DOMAIN T : RowOk(T[i], S)
  /\ Unique(T)
  /\ \A o \in S : \E i \in DOMAIN T : T[i] = o

\* The classes and their tables.
LEMMA ClassNames == AllClasses = {"producer", "consumer", "reader", "client", "message"}
BY DEF AllClasses, Options

LEMMA Tables == \A c \in AllClasses : TableOk(Options[c], Strict[c])
<1>1. TableOk(ProducerOptions, ProducerStrict)
  <2>1. Len(ProducerOptions) = 25 /\ DOMAIN ProducerOptions = 1 .. 25 BY DEF ProducerOptions
  <2>2. \A o \in ProducerStrict : \E i \in 1 .. 25 : ProducerOptions[i] = o
    <3>1. /\ ProducerOptions[14] = Checked("schema", "throw")
          /\ ProducerOptions[19] = Wrapped("cryptoKeyReader")
          /\ ProducerOptions[25] = TopicRow
      BY DEF ProducerOptions, TopicRow
    <3> QED BY <3>1 DEF ProducerStrict
  <2> QED BY <2>1, <2>2, ProducerRows, UniqueNames DEF TableOk
<1>2. TableOk(ConsumerOptions, ConsumerStrict)
  <2>1. \A i \in 1 .. 26 : i \in 1 .. 8 \/ (i - 8 \in 1 .. 18 /\ i = (i - 8) + 8) OBVIOUS
  <2>2. \A i \in 1 .. 26 : \/ i \in 1 .. 8 /\ ConsumerOptions[i] = ConsumerNames[i]
                           \/ i - 8 \in 1 .. 18 /\ ConsumerOptions[i] = ConsumerSettings[i - 8]
    BY <2>1, ConsumerTable
  <2>3. \A i \in 1 .. 26 : RowOk(ConsumerOptions[i], ConsumerStrict)
    BY <2>2, ConsumerTable, ConsumerRows
  <2>4. Unique(ConsumerOptions)
    <3> SUFFICES ASSUME NEW i \in 1 .. 26, NEW j \in 1 .. 26, ConsumerOptions[i].type = "number",
                        ConsumerOptions[i].name = ConsumerOptions[j].name
                 PROVE  i = j
      BY ConsumerTable DEF Unique
    <3>1. i - 8 \in 1 .. 18 /\ ConsumerOptions[i] = ConsumerSettings[i - 8]
      BY <2>2, ConsumerTable, UniqueNames
    <3>2. j - 8 \in 1 .. 18 /\ ConsumerOptions[j] = ConsumerSettings[j - 8]
      BY <2>2, <3>1, ConsumerTable, UniqueNames
    <3>3. i - 8 = j - 8 BY <3>1, <3>2, ConsumerTable, UniqueNames DEF Unique
    <3> QED BY <3>3
  <2>5. \A o \in ConsumerStrict : \E i \in 1 .. 26 : ConsumerOptions[i] = o
    <3>1. ConsumerNames[4] = SubscriptionRow BY DEF ConsumerNames, SubscriptionRow
    <3>2. /\ ConsumerSettings[1] = AckRow /\ ConsumerSettings[2] = NackRow
          /\ ConsumerSettings[5] = Checked("schema", "throw")
          /\ ConsumerSettings[10] = Wrapped("cryptoKeyReader")
          /\ ConsumerSettings[16] = Checked("batchReceivePolicy", "reject")
          /\ ConsumerSettings[17] = Checked("keySharedPolicy", "reject")
      BY DEF ConsumerSettings, AckRow, NackRow
    <3>3. ConsumerOptions[4] = SubscriptionRow BY <3>1, ConsumerTable
    <3>4. \A i \in 1 .. 18 : i + 8 \in 1 .. 26 /\ ConsumerOptions[i + 8] = ConsumerSettings[i]
      BY ConsumerTable
    <3>5. \A i \in 1 .. 18 : \E j \in 1 .. 26 : ConsumerOptions[j] = ConsumerSettings[i] BY <3>4
    <3> QED BY <3>2, <3>3, <3>5 DEF ConsumerStrict
  <2> QED BY <2>3, <2>4, <2>5, ConsumerTable DEF TableOk
<1>3. TableOk(ReaderOptions, ReaderStrict)
  <2>1. Len(ReaderOptions) = 10 /\ DOMAIN ReaderOptions = 1 .. 10 BY DEF ReaderOptions
  <2>2. \A o \in ReaderStrict : \E i \in 1 .. 10 : ReaderOptions[i] = o
    <3>1. /\ ReaderOptions[1] = Wrapped("startMessageId") /\ ReaderOptions[9] = TopicRow
          /\ ReaderOptions[10] = StartRow
      BY DEF ReaderOptions, TopicRow, StartRow
    <3> QED BY <3>1 DEF ReaderStrict
  <2> QED BY <2>1, <2>2, ReaderRows, UniqueNames DEF TableOk
<1>4. TableOk(ClientOptions, {})
  <2>1. Len(ClientOptions) = 14 /\ DOMAIN ClientOptions = 1 .. 14 BY DEF ClientOptions
  <2> QED BY <2>1, OtherRows, UniqueNames DEF TableOk
<1>5. TableOk(MessageOptions, {})
  <2>1. Len(MessageOptions) = 10 /\ DOMAIN MessageOptions = 1 .. 10 BY DEF MessageOptions
  <2> QED BY <2>1, OtherRows, UniqueNames DEF TableOk
<1> QED BY <1>1, <1>2, <1>3, <1>4, <1>5, ClassNames DEF Options, Strict

-----------------------------------------------------------------------------
\* Reading.

\* A row that ends the reading.
Refused(o) == Verdict(o) \in {"reject", "throw"}

\* A row that was read: it refused nothing, and the client has its number.
ReadRow(o) ==
  /\ ~Refused(o)
  /\ o.type = "number" /\ Verdict(o) = "set" => got[o.name] = Convert(o, given[o.name])

\* The client has no number but one that was read.
PassedRow(o) ==
  o.type = "number" =>
    \/ got[o.name] = Absent
    \/ Verdict(o) = "set" /\ got[o.name] = Convert(o, given[o.name])

\* What was read so far refused nothing, and the client has its numbers and no
\* others; a reading that ended otherwise met a row that refused.
OptionsRead ==
  /\ class \in AllClasses
  /\ given \in [Names(class) -> Values]
  /\ DOMAIN got = Names(class)
  /\ pos \in Nat \ {0}
  /\ outcome \in {"reading", "asked", "rejected", "thrown"}
  /\ \A i \in DOMAIN Table : PassedRow(Table[i])
  /\ outcome \in {"reading", "asked"} => \A i \in DOMAIN Table : i < pos => ReadRow(Table[i])
  /\ outcome = "asked" => pos > Len(Table)
  /\ outcome \in {"rejected", "thrown"} => \E i \in DOMAIN Table : Refused(Table[i])

OptionsInv == IF part = "options" THEN OptionsRead ELSE outcome = "idle"

\* The values that a program must or may give besides one option.
LEMMA SomeValues ==
  /\ Absent \in Values /\ Val("string", "other") \in Values /\ Val("object", "good") \in Values
  /\ Val("string", "CustomPartition") \in Values /\ Val("array", "strings") \in Values
BY DEF Values, Absent, Strings, Instances, Arrays, Objects, Texts

\* The reading of any object whatsoever, with any values for all its options at
\* once; Init has one option at a time besides those that others need.
AnyObject ==
  /\ class \in Classes
  /\ given \in [Names(class) -> Values]
  /\ pos = 1
  /\ got = [n \in Names(class) |-> Absent]
  /\ outcome = "reading"

LEMMA InitIsObject == Init => AnyObject
<1> SUFFICES ASSUME Init PROVE AnyObject OBVIOUS
<1>1. class \in AllClasses BY ClassesAssumption DEF Init
<1>2. \A n \in DOMAIN Base[class] : Base[class][n] \in Values
  BY <1>1, ClassNames, SomeValues DEF Base
<1>3. \A n \in DOMAIN Companions[class] : Companions[class][n] \in Values
  BY <1>1, ClassNames, SomeValues DEF Companions
<1>4. PICK C \in SUBSET DOMAIN Companions[class], k \in DOMAIN Table, v \in Values :
        given = [n \in Names(class) |->
                   IF n = Table[k].name THEN v
                   ELSE IF n \in DOMAIN Base[class] THEN Base[class][n]
                   ELSE IF n \in C THEN Companions[class][n] ELSE Absent]
  BY DEF Init
<1>5. given \in [Names(class) -> Values] BY <1>2, <1>3, <1>4, SomeValues
<1> QED BY <1>5 DEF Init, AnyObject

LEMMA ReadingStarts == AnyObject => OptionsRead
<1> SUFFICES ASSUME AnyObject PROVE OptionsRead OBVIOUS
<1> USE DEF AnyObject
<1>1. class \in AllClasses BY ClassesAssumption
<1>2. \A i \in DOMAIN Table : Table[i].name \in Names(class) BY DEF Names, Table
<1>3. \A i \in DOMAIN Table : PassedRow(Table[i]) BY <1>2 DEF PassedRow
<1>4. \A i \in DOMAIN Table : ~(i < pos) BY <1>1, Tables DEF TableOk, Table
<1> QED BY <1>1, <1>3, <1>4 DEF OptionsRead

LEMMA ReadingGoesOn == OptionsRead /\ [Next]_vars => OptionsRead'
<1> SUFFICES ASSUME OptionsRead, [Next]_vars PROVE OptionsRead' OBVIOUS
<1> USE DEF OptionsRead
<1>1. UNCHANGED vars \/ Next OBVIOUS
<1>2. UNCHANGED <<class, given>> BY <1>1 DEF Next, ReadOption, Ask, Finished, vars
<1>3. /\ Table' = Table /\ Names(class)' = Names(class)
      /\ \A o : Verdict(o)' = Verdict(o) /\ Convert(o, given[o.name])' = Convert(o, given[o.name])
  BY <1>2 DEF Table, Names, Verdict, Present, Convert
<1>4. \A o : Refused(o)' = Refused(o) BY <1>3 DEF Refused
<1>5. TableOk(Table, Strict[class]) BY Tables DEF Table
<1>6. CASE UNCHANGED <<got, pos, outcome>> 
  <2>1. \A o : (ReadRow(o)' <=> ReadRow(o)) /\ (PassedRow(o)' <=> PassedRow(o))
    BY <1>2, <1>3, <1>4, <1>6 DEF ReadRow, PassedRow
  <2> QED BY <1>2, <1>3, <1>4, <1>6, <2>1
<1>7. CASE Ask
  <2>1. \A o : (ReadRow(o)' <=> ReadRow(o)) /\ (PassedRow(o)' <=> PassedRow(o))
    BY <1>2, <1>3, <1>4, <1>7 DEF ReadRow, PassedRow, Ask
  <2> QED BY <1>2, <1>3, <1>4, <1>7, <2>1 DEF Ask
<1>8. CASE ReadOption
  <2>1. pos \in DOMAIN Table BY <1>5, <1>8 DEF ReadOption, TableOk
  <2>2. PICK o : o = Table[pos] OBVIOUS
  <2>3. /\ got' = IF Verdict(o) = "set"
                  THEN [got EXCEPT ![o.name] = Convert(o, given[o.name])] ELSE got
        /\ outcome' = CASE Verdict(o) = "reject" -> "rejected"
                        [] Verdict(o) = "throw" -> "thrown"
                        [] OTHER -> "reading"
        /\ pos' = pos + 1 /\ outcome = "reading"
    BY <1>8, <2>2 DEF ReadOption
  <2>4. o.name \in DOMAIN got BY <2>1, <2>2 DEF Names, Table
  <2>5. ASSUME NEW i \in DOMAIN Table, Table[i].type = "number"
        PROVE  IF i = pos /\ Verdict(o) = "set"
               THEN got'[Table[i].name] = Convert(o, given[o.name])
               ELSE got'[Table[i].name] = got[Table[i].name]
    <3>1. Table[i].name = o.name => i = pos
      BY <1>5, <2>1, <2>2, <2>5 DEF TableOk, Unique
    <3> QED BY <2>2, <2>3, <2>4, <3>1
  <2>6. \A i \in DOMAIN Table : PassedRow(Table[i])'
    BY <1>2, <1>3, <2>2, <2>5 DEF PassedRow
  <2>7. /\ outcome' \in {"reading", "rejected", "thrown"}
        /\ outcome' = "reading" <=> ~Refused(o)
    BY <2>3 DEF Refused
  <2>8. ASSUME outcome' = "reading", NEW i \in DOMAIN Table, i < pos' PROVE ReadRow(Table[i])'
    <3>1. ~Refused(Table[i]) /\ (i < pos => ReadRow(Table[i])) /\ (i < pos \/ i = pos)
      BY <1>5, <2>2, <2>3, <2>7, <2>8 DEF ReadRow, TableOk
    <3> QED BY <1>3, <1>4, <2>2, <2>5, <3>1 DEF ReadRow
  <2>9. outcome' # "reading" => \E i \in DOMAIN Table : Refused(Table[i])
    BY <2>1, <2>2, <2>7
  <2>10. DOMAIN got' = DOMAIN got BY <2>3
  <2> QED BY <1>2, <1>3, <1>4, <2>3, <2>6, <2>7, <2>8, <2>9, <2>10
<1> QED BY <1>1, <1>6, <1>7, <1>8 DEF Next, Finished, vars

LEMMA OptionsInit == ProgramInit => OptionsInv
BY InitIsObject, ReadingStarts DEF ProgramInit, OptionsInv

LEMMA OptionsNext == OptionsInv /\ [ProgramNext]_allVars => OptionsInv'
<1> SUFFICES ASSUME OptionsInv, [ProgramNext]_allVars PROVE OptionsInv' OBVIOUS
<1>1. UNCHANGED part /\ (UNCHANGED vars \/ (part = "options" /\ Next))
  BY DEF ProgramNext, ReadOptions, ReadPolicies, ConstructClients, RouteMessages,
         ExchangeSchemas, UseMessages, allVars
<1>2. CASE part = "options" BY <1>1, <1>2, ReadingGoesOn DEF OptionsInv
<1>3. CASE part # "options" BY <1>1, <1>3 DEF OptionsInv, vars
<1> QED BY <1>2, <1>3

\* The inductive invariant of the options holds in every state.
THEOREM OptionsInvariance == ProgramSpec => []OptionsInv
BY OptionsInit, OptionsNext, PTL DEF ProgramSpec

-----------------------------------------------------------------------------
\* What the verdicts say about the program's values.

\* The types of values that are no numbers.
LEMMA TextTypes ==
  /\ \A t, X, v : v \in Texts(t, X) => v.type = t
  /\ Absent.type = "undefined"
<1>1. \A t, x : Val(t, x).type = t BY DEF Val
<1> QED BY <1>1 DEF Texts, Absent

\* A number among the values.
LEMMA NumberValue ==
  ASSUME NEW v \in Values, v.type = "number"
  PROVE  v = Num(v.number) /\ v.number \in Numbers /\ v \in OfType("number")
<1>1. v \notin Strings /\ v \notin Booleans /\ v \notin Objects /\ v # Absent
  BY TextTypes DEF Strings, Booleans, Objects, Arrays, Instances, Functions, Buffers
<1>2. PICK n \in Numbers : v = Num(n) BY <1>1 DEF Values
<1>3. v.number = n BY <1>2 DEF Num
<1> QED BY <1>2, <1>3 DEF OfType

\* Int64Value clamps, and a number that fits its type is not changed.
LEMMA Conversions ==
  ASSUME NEW n \in Numbers, n # NaN
  PROVE  /\ n \in Int /\ MaxOf(W64) \in Nat /\ MinOf(W64) \in Int /\ MinOf(W64) < 0
         /\ n > MaxOf(W64) => Int64Value(n) = MaxOf(W64)
         /\ n < MinOf(W64) => Int64Value(n) = MinOf(W64)
         /\ n \in MinOf(W64) .. MaxOf(W64) => Int64Value(n) = n
         /\ n \in 0 .. MaxUint32 => Uint32Value(n) = n
         /\ n \in MinOf(W32) .. MaxOf(W32) => Int32Value(n) = n
<1>1. PICK g : g = 2^(W64 - 1) OBVIOUS
<1>2. PICK h : h = 2^W32 OBVIOUS
<1>3. g \in Nat \ {0} /\ h \in Nat \ {0} /\ 2^W64 = 2 * g
  <2>1. g \in Nat \ {0} /\ 2^W64 = 2 * g BY <1>1, PowersAssumption
  <2>2. PICK k : k = 2^(W32 - 1) OBVIOUS
  <2>3. k \in Nat \ {0} /\ h = 2 * k BY <1>2, <2>2, PowersAssumption
  <2> QED BY <2>1, <2>3
<1>4. MinOf(W64) = -g /\ MaxOf(W64) = g - 1 /\ MaxUint32 = h - 1
  BY <1>1, <1>2 DEF MinOf, MaxOf, MaxUint32
<1>5. n \in Int
  <2>1. W64 + 1 - 1 = W64 BY WidthsAssumption
  <2>2. 2^(W64 + 1 - 1) \in Nat BY <1>3, <2>1
  <2> QED BY <2>2 DEF Numbers, MinOf, MaxOf
<1>6. n \in 0 .. MaxUint32 => Uint32Value(n) = n
  <2> SUFFICES ASSUME n \in 0 .. h - 1 PROVE n % h = n BY <1>2, <1>4 DEF Uint32Value
  <2> QED BY <1>3, <1>5
<1>7. n \in MinOf(W32) .. MaxOf(W32) => Int32Value(n) = n BY IntValues
<1> QED BY <1>3, <1>4, <1>5, <1>6, <1>7 DEF Int64Value

\* An object that is checked is refused if it is a bad one.
LEMMA CheckedVerdict ==
  ASSUME NEW n, NEW a \in {"reject", "throw"}, given[n] \in Values
  PROVE  Refused(Checked(n, a)) <=> given[n] = Val("object", "bad")
<1>1. PICK o : o = Checked(n, a) OBVIOUS
<1>2. /\ o.name = n /\ o.type = "object" /\ o.conv = "none" /\ o.needs = {}
      /\ o.accept = Objects \ Texts("object", {"bad"}) /\ o.bad = a /\ o.missing = "skip"
  BY <1>1 DEF Checked, Option
<1>3. Val("object", "bad") \in Objects /\ Texts("object", {"bad"}) = {Val("object", "bad")}
  BY DEF Objects, Instances, Texts
<1>4. Present(o) <=> given[n] \in Objects BY <1>2 DEF Present, OfType
<1>5. Convert(o, given[n]) = given[n] BY <1>2 DEF Convert
<1>6. Refused(o) <=> given[n] = Val("object", "bad")
  BY <1>2, <1>3, <1>4, <1>5 DEF Refused, Verdict
<1> QED BY <1>1, <1>6

\* One that has to be an instance of the class is refused if it is not.
LEMMA WrappedVerdict ==
  ASSUME NEW n, given[n] \in Values
  PROVE  Refused(Wrapped(n)) <=> given[n] \in Objects \ Texts("object", {"good", "unset"})
<1>1. PICK o : o = Wrapped(n) OBVIOUS
<1>2. /\ o.name = n /\ o.type = "object" /\ o.conv = "none" /\ o.needs = {}
      /\ o.accept = Texts("object", {"good", "unset"}) /\ o.bad = "throw" /\ o.missing = "skip"
  BY <1>1 DEF Wrapped, Option
<1>3. Present(o) <=> given[n] \in Objects BY <1>2 DEF Present, OfType
<1>4. Convert(o, given[n]) = given[n] BY <1>2 DEF Convert
<1>5. Refused(o) <=> given[n] \in Objects \ Texts("object", {"good", "unset"})
  BY <1>2, <1>3, <1>4 DEF Refused, Verdict
<1> QED BY <1>1, <1>5

\* A string that is not empty is a string.
LEMMA NonemptyStrings == Nonempty \subseteq OfType("string") 
<1>1. \A v \in Strings : v.type = "string" /\ v \in Values
  BY TextTypes DEF Strings, Values
<1> QED BY <1>1 DEF Nonempty, OfType

\* A topic that is missing or empty is refused.
LEMMA TopicVerdict ==
  ASSUME given["topic"] \in Values
  PROVE  Refused(TopicRow) <=> given["topic"] \notin Nonempty
<1>1. PICK o : o = TopicRow OBVIOUS
<1>2. /\ o.name = "topic" /\ o.type = "string" /\ o.conv = "none" /\ o.needs = {}
      /\ o.accept = Nonempty /\ o.bad = "reject" /\ o.missing = "reject"
  BY <1>1 DEF TopicRow, Required, Option
<1>3. Convert(o, given["topic"]) = given["topic"] BY <1>2 DEF Convert
<1>4. Present(o) <=> given["topic"] \in OfType("string") BY <1>2 DEF Present
<1>5. Refused(o) <=> given["topic"] \notin Nonempty
  BY <1>2, <1>3, <1>4, NonemptyStrings DEF Refused, Verdict
<1> QED BY <1>1, <1>5

\* A subscription needs a name, and a topic, topics or a pattern.
LEMMA SubscriptionVerdict ==
  ASSUME given["subscription"] \in Values
  PROVE  ~Refused(SubscriptionRow) <=>
           /\ given["subscription"] \in Nonempty
           /\ \/ given["topic"] \in Nonempty \/ given["topicsPattern"] \in Nonempty
              \/ given["topics"] = Val("array", "strings")
<1>1. PICK o : o = SubscriptionRow OBVIOUS
<1> DEFINE Named == \/ given["topic"] \in Nonempty \/ given["topicsPattern"] \in Nonempty
                    \/ given["topics"] = Val("array", "strings")
<1>2. /\ o.name = "subscription" /\ o.type = "string" /\ o.conv = "none"
      /\ o.accept = Nonempty /\ o.bad = "reject" /\ o.missing = "reject"
      /\ o.needs = {<<"topic", Nonempty>>, <<"topics", Texts("array", {"strings"})>>,
                    <<"topicsPattern", Nonempty>>}
  BY <1>1 DEF SubscriptionRow, Needing, Required, Option
<1>3. Texts("array", {"strings"}) = {Val("array", "strings")} BY DEF Texts
<1>4. (\E p \in o.needs : given[p[1]] \in p[2]) <=> Named BY <1>2, <1>3
<1>5. o.needs # {} BY <1>2
<1>6. Convert(o, given["subscription"]) = given["subscription"] BY <1>2 DEF Convert
<1> HIDE DEF Named
<1>7. Present(o) <=> given["subscription"] \in OfType("string") /\ Named
  BY <1>2, <1>4, <1>5 DEF Present
<1>8. ~Refused(o) <=> given["subscription"] \in Nonempty /\ Named
  BY <1>2, <1>6, <1>7, NonemptyStrings DEF Refused, Verdict
<1> QED BY <1>1, <1>8 DEF Named

\* A reader needs an id to start with, and one that has a C object.
LEMMA StartVerdict ==
  ASSUME given["startMessageId"] \in Values
  PROVE  Refused(StartRow) <=> given["startMessageId"] # Val("object", "good")
<1>1. PICK o : o = StartRow OBVIOUS
<1>2. /\ o.name = "startMessageId" /\ o.type = "object" /\ o.conv = "none" /\ o.needs = {}
      /\ o.accept = Texts("object", {"good"}) /\ o.bad = "reject" /\ o.missing = "reject"
  BY <1>1 DEF StartRow, Required, Option
<1>3. Convert(o, given["startMessageId"]) = given["startMessageId"] BY <1>2 DEF Convert
<1>4. Present(o) <=> given["startMessageId"] \in Objects BY <1>2 DEF Present, OfType
<1>5. Texts("object", {"good"}) = {Val("object", "good")} /\ Val("object", "good") \in Objects
  BY DEF Texts, Objects, Instances
<1>6. Refused(o) <=> given["startMessageId"] # Val("object", "good")
  BY <1>2, <1>3, <1>4, <1>5 DEF Refused, Verdict
<1> QED BY <1>1, <1>6

\* A number that is read as an int64_t and has to be in A is refused exactly if
\* the clamped one is not.
LEMMA RejectingVerdict ==
  ASSUME NEW o, NEW n, NEW A, given[n] \in Values,
         o.name = n, o.type = "number", o.conv = "int64", o.needs = {},
         o.accept = A, o.bad = "reject", o.missing = "skip"
  PROVE  Refused(o) <=> given[n].type = "number" /\ Num(Int64Value(given[n].number)) \notin A
<1>1. Present(o) <=> given[n].type = "number" BY DEF Present, OfType
<1>2. Convert(o, given[n]) = Num(Int64Value(given[n].number)) BY DEF Convert
<1> QED BY <1>1, <1>2 DEF Refused, Verdict

\* Numbers as values.
LEMMA NumEqual == \A m, k : Num(m) = Num(k) <=> m = k
<1> SUFFICES ASSUME NEW m, NEW k, Num(m) = Num(k) PROVE m = k OBVIOUS
<1>1. Num(m).number = m /\ Num(k).number = k BY DEF Num
<1> QED BY <1>1

LEMMA NumIn ==
  ASSUME NEW m \in Int, NEW k \in Int
  PROVE  Num(m) \in AtLeast(k) <=> m \in k .. MaxOf(W64)
BY NumEqual DEF AtLeast

\* The timeouts that are refused: after clamping as before it.
LEMMA AckVerdict ==
  ASSUME given["ackTimeoutMs"] \in Values
  PROVE  ~Refused(AckRow) <=>
           LET a == given["ackTimeoutMs"] IN
             a.type = "number" /\ a.number # NaN => a.number = 0 \/ a.number >= MinAckTimeout
<1>1. PICK o, A, a : /\ o = AckRow /\ A = {Num(0)} \cup AtLeast(MinAckTimeout)
                     /\ a = given["ackTimeoutMs"]
  OBVIOUS
<1>2. /\ o.name = "ackTimeoutMs" /\ o.type = "number" /\ o.conv = "int64" /\ o.needs = {}
      /\ o.accept = A /\ o.bad = "reject" /\ o.missing = "skip"
  BY <1>1 DEF AckRow, Rejecting, Option
<1>3. Refused(o) <=> a.type = "number" /\ Num(Int64Value(a.number)) \notin A
  BY <1>1, <1>2, RejectingVerdict
<1>4. \A m \in Int : Num(m) \in A <=> m = 0 \/ m \in MinAckTimeout .. MaxOf(W64)
  <2>1. \A m, k : Num(m) = Num(k) <=> m = k BY NumEqual
  <2> QED BY <1>1, <2>1, NumIn, AckAssumption
<1>5. ASSUME a.type = "number"
      PROVE  Num(Int64Value(a.number)) \in A <=>
               (a.number # NaN => a.number = 0 \/ a.number >= MinAckTimeout)
  <2>1. PICK n \in Numbers : a.number = n BY <1>1, <1>5, NumberValue
  <2>2. CASE n = NaN
    <3>1. Int64Value(n) = 0 BY <2>2 DEF Int64Value
    <3> QED BY <1>4, <2>1, <2>2, <3>1
  <2>3. CASE n # NaN
    <3>1. MinAckTimeout \in 1 .. MaxOf(W64) BY AckAssumption
    <3>2. PICK m : m = Int64Value(n) OBVIOUS
    <3>3. m \in Int /\ (m = 0 \/ m \in MinAckTimeout .. MaxOf(W64) <=> n = 0 \/ n >= MinAckTimeout)
      BY <2>3, <3>1, <3>2, Conversions
    <3> QED BY <1>4, <2>1, <2>3, <3>2, <3>3
  <2> QED BY <2>2, <2>3
<1> QED BY <1>1, <1>3, <1>5

LEMMA NackVerdict ==
  ASSUME given["nAckRedeliverTimeoutMs"] \in Values
  PROVE  ~Refused(NackRow) <=>
           LET k == given["nAckRedeliverTimeoutMs"] IN
             k.type = "number" /\ k.number # NaN => k.number >= 0
<1>1. PICK o, A, a : o = NackRow /\ A = AtLeast(0) /\ a = given["nAckRedeliverTimeoutMs"]
  OBVIOUS
<1>2. /\ o.name = "nAckRedeliverTimeoutMs" /\ o.type = "number" /\ o.conv = "int64"
      /\ o.needs = {} /\ o.accept = A /\ o.bad = "reject" /\ o.missing = "skip"
  BY <1>1 DEF NackRow, Rejecting, Int64, Option
<1>3. Refused(o) <=> a.type = "number" /\ Num(Int64Value(a.number)) \notin A
  BY <1>1, <1>2, RejectingVerdict
<1>4. \A m \in Int : Num(m) \in A <=> m \in 0 .. MaxOf(W64) BY <1>1, NumIn
<1>5. ASSUME a.type = "number"
      PROVE  Num(Int64Value(a.number)) \in A <=> (a.number # NaN => a.number >= 0)
  <2>1. PICK n \in Numbers : a.number = n BY <1>1, <1>5, NumberValue
  <2>2. PICK m : m = Int64Value(n) OBVIOUS
  <2>3. CASE n = NaN
    <3>1. m = 0 BY <2>2, <2>3 DEF Int64Value
    <3>2. 0 \in 0 .. MaxOf(W64) BY AckAssumption, PowersAssumption DEF MaxOf
    <3> QED BY <1>4, <2>1, <2>2, <2>3, <3>1, <3>2
  <2>4. CASE n # NaN
    <3>1. m \in Int /\ (m \in 0 .. MaxOf(W64) <=> n >= 0) BY <2>2, <2>4, Conversions
    <3> QED BY <1>4, <2>1, <2>2, <2>4, <3>1
  <2> QED BY <2>3, <2>4
<1> QED BY <1>1, <1>3, <1>5

\* An object is valid exactly if no row of its class refuses it.
LEMMA ValidIffNotRefused ==
  ASSUME class \in AllClasses, given \in [Names(class) -> Values]
  PROVE  Valid <=> \A o \in Strict[class] : ~Refused(o)
<1>1. \A o \in Strict[class] : given[o.name] \in Values
  BY Tables DEF TableOk, Names
<1>2. CASE class = "producer"
  <2>1. Strict[class] = {Checked("schema", "throw"), Wrapped("cryptoKeyReader"), TopicRow}
    BY <1>2 DEF Strict, ProducerStrict
  <2>2. given["schema"] \in Values /\ given["cryptoKeyReader"] \in Values /\ given["topic"] \in Values
    BY <1>1, <2>1, RowNames DEF TopicRow
  <2>3. Valid <=> /\ given["topic"] \in Nonempty
                  /\ given["schema"] # Val("object", "bad")
                  /\ given["cryptoKeyReader"] \notin Objects \ Texts("object", {"good", "unset"})
    BY <1>2 DEF Valid
  <2>4. Valid <=> /\ ~Refused(TopicRow) /\ ~Refused(Checked("schema", "throw"))
                  /\ ~Refused(Wrapped("cryptoKeyReader"))
    BY <2>2, <2>3, TopicVerdict, CheckedVerdict, WrappedVerdict
  <2> QED BY <2>1, <2>4
<1>3. CASE class = "consumer"
  <2>1. Strict[class] =
          {SubscriptionRow, AckRow, NackRow, Checked("schema", "throw"), Wrapped("cryptoKeyReader"),
           Checked("batchReceivePolicy", "reject"), Checked("keySharedPolicy", "reject")}
    BY <1>3 DEF Strict, ConsumerStrict
  <2>2. /\ given["subscription"] \in Values /\ given["ackTimeoutMs"] \in Values
        /\ given["nAckRedeliverTimeoutMs"] \in Values /\ given["schema"] \in Values
        /\ given["cryptoKeyReader"] \in Values /\ given["batchReceivePolicy"] \in Values
        /\ given["keySharedPolicy"] \in Values
    BY <1>1, <2>1, RowNames DEF SubscriptionRow, AckRow, NackRow
  <2>3. Valid <=>
          /\ \/ given["topic"] \in Nonempty \/ given["topicsPattern"] \in Nonempty
             \/ given["topics"] = Val("array", "strings")
          /\ given["subscription"] \in Nonempty
          /\ LET a == given["ackTimeoutMs"] IN
               a.type = "number" /\ a.number # NaN => a.number = 0 \/ a.number >= MinAckTimeout
          /\ LET k == given["nAckRedeliverTimeoutMs"] IN
               k.type = "number" /\ k.number # NaN => k.number >= 0
          /\ \A n \in {"schema", "batchReceivePolicy", "keySharedPolicy"} :
               given[n] # Val("object", "bad")
          /\ given["cryptoKeyReader"] \notin Objects \ Texts("object", {"good", "unset"})
    BY <1>3 DEF Valid, ValidObjects
  <2>4. Valid <=>
          /\ ~Refused(SubscriptionRow) /\ ~Refused(AckRow) /\ ~Refused(NackRow)
          /\ ~Refused(Checked("schema", "throw")) /\ ~Refused(Wrapped("cryptoKeyReader"))
          /\ ~Refused(Checked("batchReceivePolicy", "reject"))
          /\ ~Refused(Checked("keySharedPolicy", "reject"))
    BY <2>2, <2>3, SubscriptionVerdict, AckVerdict, NackVerdict, CheckedVerdict, WrappedVerdict
  <2> QED BY <2>1, <2>4
<1>4. CASE class = "reader"
  <2>1. Strict[class] = {Wrapped("startMessageId"), TopicRow, StartRow}
    BY <1>4 DEF Strict, ReaderStrict
  <2>2. given["topic"] \in Values /\ given["startMessageId"] \in Values
    BY <1>1, <2>1, RowNames DEF TopicRow, StartRow
  <2>3. Valid <=> given["topic"] \in Nonempty /\ given["startMessageId"] = Val("object", "good")
    BY <1>4 DEF Valid
  <2>4. Val("object", "good") \in Texts("object", {"good", "unset"}) BY DEF Texts
  <2> QED BY <2>1, <2>2, <2>3, <2>4, TopicVerdict, StartVerdict, WrappedVerdict
<1>5. CASE class \in {"client", "message"} BY <1>5 DEF Valid, Strict
<1> QED BY <1>2, <1>3, <1>4, <1>5, ClassNames

\* The client is asked exactly for what is valid.
LEMMA AskedRight == OptionsRead => AskedIffValid
<1> SUFFICES ASSUME OptionsRead PROVE AskedIffValid OBVIOUS
<1> USE DEF OptionsRead
<1>1. TableOk(Table, Strict[class]) BY Tables DEF Table
<1>2. \A i \in DOMAIN Table : Refused(Table[i]) => Table[i] \in Strict[class]
  <2>1. \A o : Mild(o) => ~Refused(o) BY DEF Mild, Refused, Verdict
  <2> QED BY <1>1, <2>1 DEF TableOk, RowOk
<1>3. outcome = "asked" => \A o \in Strict[class] : ~Refused(o)
  BY <1>1 DEF TableOk, ReadRow
<1>4. outcome \in {"rejected", "thrown"} => \E o \in Strict[class] : Refused(o)
  BY <1>2
<1> QED BY <1>3, <1>4, ValidIffNotRefused DEF AskedIffValid

\* A number that fits is what the client has, if the option accepts it.
LEMMA NumbersRight == OptionsRead => NumbersAsGiven
<1> SUFFICES ASSUME OptionsRead, outcome = "asked", NEW i \in DOMAIN Table, NEW o, NEW v,
                    o = Table[i], v = given[o.name], o.type = "number", v.type = "number"
             PROVE  /\ Fits(o, v.number) => got[o.name] = IF v \in o.accept THEN v ELSE Absent
                    /\ o.conv = "int64" /\ v.number # NaN /\ v.number > MaxOf(W64) =>
                         got[o.name] = Num(MaxOf(W64))
  BY DEF NumbersAsGiven
<1>1. TableOk(Table, Strict[class]) BY Tables DEF OptionsRead, Table
<1>2. NumberRow(o) BY <1>1 DEF TableOk, RowOk
<1>3. PICK n \in Numbers : v = Num(n) /\ v.number = n /\ v \in OfType("number")
  <2>1. v \in Values BY DEF OptionsRead, Names, Table
  <2> QED BY <2>1, NumberValue
<1>4. i < pos BY <1>1 DEF OptionsRead, TableOk
<1>5. ReadRow(o) /\ PassedRow(o) BY <1>4 DEF OptionsRead
<1>6. Present(o) BY <1>2, <1>3 DEF Present, NumberRow
<1>7. Verdict(o) = IF Convert(o, v) \in o.accept THEN "set" ELSE o.bad BY <1>6 DEF Verdict
<1>8. got[o.name] = IF Convert(o, v) \in o.accept THEN Convert(o, v) ELSE Absent
  BY <1>2, <1>5, <1>7 DEF ReadRow, PassedRow, NumberRow
<1>9. /\ o.conv = "int32" => Convert(o, v) = Num(Int32Value(n))
      /\ o.conv = "uint32" => Convert(o, v) = Num(Uint32Value(n))
      /\ o.conv = "int64" => Convert(o, v) = Num(Int64Value(n))
  BY <1>3 DEF Convert
<1>10. ASSUME Fits(o, n) PROVE Convert(o, v) = v
  <2>1. n # NaN BY <1>10 DEF Fits
  <2>2. CASE o.conv = "int32"
    <3>1. n \in MinOf(W32) .. MaxOf(W32) BY <1>10, <2>2 DEF Fits
    <3> QED BY <1>3, <1>9, <2>1, <2>2, <3>1, Conversions
  <2>3. CASE o.conv = "uint32"
    <3>1. n \in 0 .. MaxUint32 BY <1>10, <2>3 DEF Fits
    <3> QED BY <1>3, <1>9, <2>1, <2>3, <3>1, Conversions
  <2>4. CASE o.conv = "int64"
    <3>1. n \in MinOf(W64) .. MaxOf(W64) BY <1>10, <2>4 DEF Fits
    <3> QED BY <1>3, <1>9, <2>1, <2>4, <3>1, Conversions
  <2> QED BY <1>2, <2>2, <2>3, <2>4 DEF NumberRow
<1>11. o.conv = "int64" /\ n # NaN /\ n > MaxOf(W64) => Convert(o, v) = Num(MaxOf(W64))
  BY <1>9, Conversions
<1> QED BY <1>2, <1>3, <1>8, <1>10, <1>11 DEF NumberRow

\* The client is asked for exactly the configurations that have what they need,
\* and has the program's own numbers, for all five tables of options and all
\* widths of numbers (ProducerConfig.cc, ConsumerConfig.cc, ReaderConfig.cc,
\* Client.cc and Message.cc).
THEOREM ConfiguredRight == ProgramSpec => []ConfiguredAsGiven
<1>1. OptionsInv => ConfiguredAsGiven
  <2>1. part = "options" /\ OptionsInv => ConfiguredAsGiven
    BY AskedRight, NumbersRight DEF OptionsInv, ConfiguredAsGiven
  <2>2. part # "options" /\ OptionsInv => ConfiguredAsGiven
    BY DEF OptionsInv, ConfiguredAsGiven, AskedIffValid, NumbersAsGiven
  <2> QED BY <2>1, <2>2
<1> QED BY <1>1, OptionsInvariance, PTL

\* The same for any object: whatever values a program gives to all the options of
\* a class at once, no combination of them is asked for that is not valid, refused
\* that is, or changes a number that fits (the constructors of the same files).
THEOREM AnyObjectRight == AnyObject /\ [][Next]_vars => []ConfiguredAsGiven
<1>1. OptionsRead => ConfiguredAsGiven BY AskedRight, NumbersRight DEF ConfiguredAsGiven
<1> QED BY <1>1, ReadingStarts, ReadingGoesOn, PTL
=============================================================================
