--------------------------- MODULE LogHandlerProofs ---------------------------
(***************************************************************************)
(* Proofs about LogHandler for any finite number of client threads and any *)
(* number of handlers and messages.                                        *)
(***************************************************************************)
EXTENDS LogHandler, FiniteSetTheorems, TLAPS

\* The handlers are taken in order, and setLogHandler or LogMessage that has
\* begun has a LogCallback.
MainInv ==
  /\ pointer <= count
  /\ deleted \subseteq 1 .. count
  /\ \A h \in Handlers : field[h] <= count
  /\ main # "loop" => pointer # 0
  /\ \A t \in Threads : pc[t] # "outside" => mine[t] # 0

\* Without an overlap, threads are in LogMessage only between two calls of
\* setLogHandler, and all with the installed LogCallback; the new function of
\* one that is being installed is the main thread's alone.
QuietInv ==
  ~overlap =>
    /\ Running
    /\ \A t \in Inside : mine[t] = pointer /\ pointer # 0 /\ main = "loop"
    /\ main \in {"loop", "assign"} => pointer \notin deleted
    /\ main = "assign" => tsfn[count].state = "open" /\ tsfn[count].threads = 1
    /\ main = "loop" /\ pointer # 0 =>
         /\ field[pointer] # 0
         /\ tsfn[field[pointer]].state = "open"
         /\ tsfn[field[pointer]].threads = 1 + Cardinality(Holders)

IInv == TypeOK /\ MainInv /\ QuietInv

-----------------------------------------------------------------------------
\* The holders are finite in number, and counted as they come and go.
LEMMA HoldersCount ==
  /\ IsFiniteSet(Holders)
  /\ Cardinality(Holders) \in Nat
  /\ Holders = {} => Cardinality(Holders) = 0
  /\ Holders # {} => Cardinality(Holders) > 0
<1>1. Holders \subseteq Threads BY DEF Holders
<1>2. IsFiniteSet(Holders) BY <1>1, LogAssumption, FS_Subset
<1>3. Cardinality(Holders) \in Nat BY <1>2, FS_CardinalityType
<1>4. Cardinality(Holders) = 0 <=> Holders = {} BY <1>2, FS_EmptySet
<1> QED BY <1>2, <1>3, <1>4

\* A step of setLogHandler without overlap found no thread in LogMessage.
LEMMA NobodyInside ==
  ASSUME NoteOverlap, ~overlap', TypeOK
  PROVE  ~overlap /\ Inside = {} /\ Cardinality(Holders) = 0
<1>1. ~overlap /\ Inside = {} BY DEF NoteOverlap, TypeOK
<1>2. Holders = {} BY <1>1 DEF Holders, Inside
<1> QED BY <1>1, <1>2, HoldersCount

\* The operations on a thread-safe function, field by field.
Tsfns == [threads : Nat, queue : Seq(Threads), state : States]

LEMMA CreatedFunction ==
  Created(1) \in Tsfns /\ Created(1).threads = 1 /\ Created(1).state = "open"
BY DEF Created, Tsfns, States

LEMMA HeldFunction ==
  ASSUME NEW f \in Tsfns, NEW u \in Threads
  PROVE  /\ Released(f) \in Tsfns /\ Released(f).state = f.state
         /\ Released(f).threads = IF f.threads > 0 THEN f.threads - 1 ELSE 0
         /\ Acquired(f) \in Tsfns /\ Acquired(f).state = f.state
         /\ Acquired(f).threads = f.threads + 1
         /\ Pushed(f, u) \in Tsfns /\ Pushed(f, u).state = f.state
         /\ Pushed(f, u).threads = f.threads
<1>1. f \in [threads : Nat, queue : Seq(Threads), state : States] BY DEF Tsfns
<1>2. Append(f.queue, u) \in Seq(Threads) BY <1>1
<1>3. Pushed(f, u) \in Tsfns /\ Pushed(f, u).state = f.state /\ Pushed(f, u).threads = f.threads
  BY <1>1, <1>2 DEF Pushed, Tsfns
<1> QED BY <1>1, <1>3 DEF Released, Acquired, Tsfns

LEMMA LoopedFunction ==
  ASSUME NEW f \in Tsfns
  PROVE  /\ CanDispatch(f) => /\ Dispatched(f) \in Tsfns
                              /\ Dispatched(f).threads = f.threads
                              /\ f.threads > 0 => Dispatched(f).state = f.state
         /\ Released(f) \in Tsfns /\ Released(f).state = f.state
         /\ Closing(f) \in Tsfns /\ Finalized(f) \in Tsfns
<1>1. f \in [threads : Nat, queue : Seq(Threads), state : States] BY DEF Tsfns
<1>2. f.queue # <<>> => Tail(f.queue) \in Seq(Threads) BY <1>1
<1>3. ASSUME CanDispatch(f)
      PROVE  /\ Dispatched(f) \in Tsfns
             /\ Dispatched(f).threads = f.threads
             /\ f.threads > 0 => Dispatched(f).state = f.state
  <2>1. PICK q \in Seq(Threads) : q = Tail(f.queue) BY <1>2, <1>3 DEF CanDispatch
  <2>2. PICK s \in States : s = IF Len(f.queue) = 1 /\ f.threads = 0 THEN "closing" ELSE f.state
    BY <1>1 DEF States
  <2>3. Dispatched(f) = [f EXCEPT !.queue = q, !.state = s] BY <2>1, <2>2 DEF Dispatched
  <2>4. f.threads > 0 => s = f.state BY <1>1, <2>2
  <2> QED BY <1>1, <2>3, <2>4 DEF Tsfns
<1> QED BY <1>1, <1>3 DEF Released, Closing, Finalized, Tsfns, States

\* What the main thread does to the types and to the order of the handlers.
LEMMA HandlingTypes ==
  ASSUME IInv, Handling
  PROVE  TypeOK' /\ MainInv'
<1> USE LogAssumption DEF IInv, MainInv, handler, threads
<1>1. /\ TypeOK /\ tsfn \in [Handlers -> Tsfns] /\ count \in Nat
      /\ \A h \in Handlers : h \in Nat /\ h # 0
      /\ \A h \in Handlers : Released(tsfn[h]) \in Tsfns
  <2>1. TypeOK /\ tsfn \in [Handlers -> Tsfns] BY DEF TypeOK, Tsfns
  <2>2. count \in Nat /\ \A h \in Handlers : h \in Nat /\ h # 0 BY DEF TypeOK, Handlers
  <2> QED BY <2>1, <2>2, LoopedFunction
<1>2. CASE NewClient BY <1>2 DEF NewClient, TypeOK
<1>3. CASE SetLogHandler
  <2>1. tsfn' \in [Handlers -> Tsfns]
    BY <1>1, <1>3, CreatedFunction DEF SetLogHandler, ReplaceFunction
  <2>2. count' = count + 1 /\ count' \in 0 .. MaxInstalls /\ count' \in Handlers
    BY <1>1, <1>3 DEF SetLogHandler, Handlers, TypeOK
  <2>3. pointer' \in Handlers /\ pointer' <= count'
    BY <1>1, <1>3, <2>2 DEF SetLogHandler, ReplaceFunction, TypeOK
  <2>4. TypeOK' BY <1>3, <2>1, <2>2, <2>3 DEF SetLogHandler, NoteOverlap, TypeOK, Tsfns
  <2>5. \A h \in Handlers : field'[h] <= count'
    <3>1. \A h \in Handlers : field[h] \in Nat BY <1>1 DEF TypeOK
    <3>2. \A h \in Handlers : field[h] <= count + 1 BY <1>1, <3>1
    <3> QED BY <1>3, <2>2, <3>2 DEF SetLogHandler
  <2>6. 1 .. count \subseteq 1 .. count' BY <1>1, <2>2
  <2> QED BY <1>1, <1>3, <2>3, <2>4, <2>5, <2>6 DEF SetLogHandler
<1>4. CASE AssignFunction
  <2>1. count \in Handlers BY <1>1, <1>4 DEF AssignFunction, TypeOK, Handlers
  <2> QED BY <1>1, <1>4, <2>1 DEF AssignFunction, NoteOverlap, TypeOK
<1>5. CASE ReleaseHandler
  BY <1>1, <1>5 DEF ReleaseHandler, NoteOverlap, TypeOK, Tsfns
<1>6. CASE DeleteCallback
  <2>1. pointer \in 1 .. count BY <1>1, <1>6 DEF DeleteCallback, TypeOK, Handlers
  <2> QED BY <1>1, <1>6, <2>1 DEF DeleteCallback, NoteOverlap, TypeOK
<1>7. CASE ClearPointer BY <1>1, <1>7 DEF ClearPointer, NoteOverlap, TypeOK
<1>8. ASSUME NEW h \in Handlers, Dispatch(h) \/ CloseTsfn(h) \/ FinalizeTsfn(h)
      PROVE  TypeOK' /\ MainInv'
  <2>1. PICK f \in Tsfns : tsfn' = [tsfn EXCEPT ![h] = f]
    BY <1>1, <1>8, LoopedFunction DEF Dispatch, CloseTsfn, FinalizeTsfn
  <2>2. tsfn' \in [Handlers -> Tsfns] BY <1>1, <2>1
  <2>3. UNCHANGED <<pointer, field, deleted, count, main, clients, pc, mine, messages, overlap, fault>>
    BY <1>8 DEF Dispatch, CloseTsfn, FinalizeTsfn
  <2>4. TypeOK' BY <1>1, <2>2, <2>3 DEF TypeOK, Tsfns
  <2> QED BY <2>3, <2>4
<1> QED BY <1>2, <1>3, <1>4, <1>5, <1>6, <1>7, <1>8 DEF Handling

\* The same for a thread in LogMessage.
LEMMA LoggingTypes ==
  ASSUME IInv, NEW u \in Threads, LogMessage(u) \/ Logging(u)
  PROVE  TypeOK' /\ MainInv'
<1> USE LogAssumption DEF IInv, MainInv, handler, threads
<1>1. TypeOK /\ tsfn \in [Handlers -> Tsfns] BY DEF TypeOK, Tsfns
<1>2. pc[u] # "outside" /\ Usable(u) => Function(u) \in Handlers
  BY <1>1 DEF TypeOK, Usable, Function
<1>3. CASE LogMessage(u)
  <2>1. messages' \in 0 .. MaxMessages BY <1>1, <1>3 DEF LogMessage, TypeOK
  <2> QED BY <1>1, <1>3, <2>1 DEF LogMessage, TypeOK
<1>4. CASE AcquireRefused(u) BY <1>1, <1>4 DEF AcquireRefused, TypeOK
<1>5. CASE UseDeleted(u) BY <1>1, <1>5 DEF UseDeleted, TypeOK
<1>6. CASE Acquire(u)
  <2>1. tsfn' \in [Handlers -> Tsfns] BY <1>1, <1>2, <1>6, HeldFunction DEF Acquire
  <2> QED BY <1>1, <1>6, <2>1 DEF Acquire, TypeOK, Tsfns
<1>7. CASE BlockingCall(u)
  <2>1. tsfn' \in [Handlers -> Tsfns] BY <1>1, <1>2, <1>7, HeldFunction DEF BlockingCall
  <2> QED BY <1>1, <1>7, <2>1 DEF BlockingCall, TypeOK, Tsfns
<1>8. CASE Release(u)
  <2>1. tsfn' \in [Handlers -> Tsfns] BY <1>1, <1>2, <1>8, HeldFunction DEF Release
  <2> QED BY <1>1, <1>8, <2>1 DEF Release, TypeOK, Tsfns
<1> QED BY <1>3, <1>4, <1>5, <1>6, <1>7, <1>8 DEF Logging

\* Without an overlap, what setLogHandler and the event loop do to the
\* installed function.
LEMMA HandlingQuiet ==
  ASSUME IInv, Handling
  PROVE  QuietInv'
<1> SUFFICES ASSUME ~overlap' PROVE QuietInv' BY DEF QuietInv
<1> USE DEF IInv, handler, threads
<1>1. TypeOK /\ tsfn \in [Handlers -> Tsfns] BY DEF TypeOK, Tsfns
<1>2. CASE NewClient
  BY <1>2 DEF NewClient, QuietInv, Running, Inside, Holders
<1>3. CASE SetLogHandler
  <2>1. ~overlap /\ Inside = {} BY <1>1, <1>3, NobodyInside DEF SetLogHandler
  <2>2. Inside' = {} BY <1>3, <2>1 DEF SetLogHandler, Inside
  <2>3. count + 1 \in Handlers /\ count + 1 \notin deleted
    BY <1>1, <1>3, LogAssumption DEF SetLogHandler, TypeOK, Handlers, MainInv
  <2>4. tsfn'[count + 1] = Created(1)
    <3>1. pointer # 0 => field[pointer] # count + 1
      BY <1>1, LogAssumption DEF TypeOK, MainInv, Handlers
    <3> QED BY <1>3, <2>3, <3>1 DEF SetLogHandler, ReplaceFunction
  <2>5. tsfn'[count'].state = "open" /\ tsfn'[count'].threads = 1
    BY <1>3, <2>4, CreatedFunction DEF SetLogHandler
  <2>6. pointer' \notin deleted'
    BY <1>3, <2>1, <2>3 DEF SetLogHandler, ReplaceFunction, QuietInv
  <2> QED BY <1>3, <2>1, <2>2, <2>5, <2>6 DEF SetLogHandler, QuietInv, Running
<1>4. CASE AssignFunction
  <2>1. ~overlap /\ Inside = {} /\ Cardinality(Holders) = 0
    BY <1>1, <1>4, NobodyInside DEF AssignFunction
  <2>2. Inside' = {} /\ Cardinality(Holders)' = 0
    BY <1>4, <2>1 DEF AssignFunction, Inside, Holders
  <2>3. pointer \in Handlers /\ count # 0
    BY <1>1, <1>4, LogAssumption DEF AssignFunction, TypeOK, MainInv, Handlers
  <2>4. field'[pointer'] = count BY <1>1, <1>4, <2>3 DEF AssignFunction, TypeOK
  <2>5. pointer \notin deleted /\ tsfn[count].state = "open" /\ tsfn[count].threads = 1
        /\ Running
    BY <1>4, <2>1 DEF AssignFunction, QuietInv
  <2> QED BY <1>4, <2>2, <2>3, <2>4, <2>5 DEF AssignFunction, QuietInv, Running
<1>5. CASE ReleaseHandler \/ DeleteCallback \/ ClearPointer
  <2>1. ~overlap /\ Inside = {}
    BY <1>1, <1>5, NobodyInside DEF ReleaseHandler, DeleteCallback, ClearPointer
  <2>2. Inside' = {}
    BY <1>5, <2>1 DEF ReleaseHandler, DeleteCallback, ClearPointer, Inside
  <2>3. 0 \notin deleted BY DEF MainInv
  <2> QED
    BY <1>5, <2>1, <2>2, <2>3
    DEF ReleaseHandler, DeleteCallback, ClearPointer, QuietInv, Running
<1>6. ASSUME NEW h \in Handlers, Dispatch(h) \/ CloseTsfn(h) \/ FinalizeTsfn(h)
      PROVE  QuietInv'
  <2>1. UNCHANGED <<pointer, field, deleted, count, main, pc, mine, overlap, fault>> /\ main = "loop"
    BY <1>6 DEF Dispatch, CloseTsfn, FinalizeTsfn
  <2>2. Inside' = Inside /\ Holders' = Holders /\ ~overlap BY <2>1 DEF Inside, Holders
  <2>3. CASE pointer = 0 BY <2>1, <2>2, <2>3 DEF QuietInv, Running
  <2>4. CASE pointer # 0
    <3> DEFINE f == field[pointer]
    <3>1. f \in Handlers /\ tsfn[f].state = "open" /\ tsfn[f].threads > 0
      BY <1>1, <2>1, <2>2, <2>4, HoldersCount DEF QuietInv, TypeOK
    <3>2. tsfn'[f].state = "open" /\ tsfn'[f].threads = tsfn[f].threads
      <4>1. CASE h # f BY <1>1, <1>6, <3>1, <4>1 DEF Dispatch, CloseTsfn, FinalizeTsfn
      <4>2. CASE h = f
        <5>1. Dispatch(h)
          BY <1>6, <3>1, <4>2 DEF CloseTsfn, CanClose, FinalizeTsfn, CanFinalize
        <5> QED BY <1>1, <3>1, <4>2, <5>1, LoopedFunction DEF Dispatch
      <4> QED BY <4>1, <4>2
    <3> QED BY <2>1, <2>2, <2>4, <3>1, <3>2 DEF QuietInv, Running
  <2> QED BY <2>3, <2>4
<1> QED BY <1>2, <1>3, <1>4, <1>5, <1>6 DEF Handling

\* Without an overlap, what a thread in LogMessage does to the installed function.
LEMMA LoggingQuiet ==
  ASSUME IInv, NEW u \in Threads, LogMessage(u) \/ Logging(u)
  PROVE  QuietInv'
<1> SUFFICES ASSUME ~overlap' PROVE QuietInv' BY DEF QuietInv
<1> USE DEF IInv, handler, threads
<1>1. TypeOK /\ tsfn \in [Handlers -> Tsfns] BY DEF TypeOK, Tsfns
<1>2. ~overlap
  BY <1>1 DEF Logging, LogMessage, Acquire, AcquireRefused, BlockingCall, Release, UseDeleted,
     TypeOK
<1>3. Running /\ UNCHANGED <<pointer, field, deleted, count, main>>
  BY DEF Logging, LogMessage, Acquire, AcquireRefused, BlockingCall, Release, UseDeleted
<1> DEFINE f == field[pointer]
<1>4. main = "loop" /\ pointer # 0
  BY <1>2 DEF Logging, LogMessage, Acquire, AcquireRefused, BlockingCall, Release, UseDeleted,
     QuietInv, Inside
<1>5. /\ pointer \in Handlers /\ pointer \notin deleted
      /\ f \in Handlers /\ tsfn[f].state = "open"
      /\ tsfn[f].threads = 1 + Cardinality(Holders)
  BY <1>1, <1>2, <1>4 DEF QuietInv, TypeOK
<1>6. pc[u] # "outside" => mine[u] = pointer /\ Function(u) = f /\ Usable(u)
  BY <1>2, <1>5, LogAssumption DEF QuietInv, Inside, Function, Usable, Handlers
<1> HIDE DEF f
<1>7. ASSUME NEW t \in Threads, pc'[t] # "outside" PROVE mine'[t] = pointer
  <2>1. CASE t = u
    BY <1>1, <1>6, <1>7, <2>1
    DEF Logging, LogMessage, Acquire, AcquireRefused, BlockingCall, Release, UseDeleted, TypeOK
  <2>2. CASE t # u
    <3>1. pc'[t] = pc[t] /\ mine'[t] = mine[t]
      BY <1>1, <2>2
      DEF Logging, LogMessage, Acquire, AcquireRefused, BlockingCall, Release, UseDeleted, TypeOK
    <3> QED BY <1>2, <1>7, <3>1 DEF QuietInv, Inside
  <2> QED BY <2>1, <2>2
<1>8. fault' = "none" /\ ~UseDeleted(u)
  BY <1>3, <1>6
  DEF Logging, LogMessage, Acquire, AcquireRefused, BlockingCall, Release, UseDeleted, Running
<1>9. tsfn'[f].state = "open" /\ tsfn'[f].threads = 1 + Cardinality(Holders)'
  <2> DEFINE n == Cardinality(Holders)
  <2>1. n \in Nat /\ IsFiniteSet(Holders) BY HoldersCount
  <2>2. CASE LogMessage(u) \/ AcquireRefused(u)
    <3>1. Holders' = Holders BY <1>1, <2>2 DEF LogMessage, AcquireRefused, Holders, TypeOK
    <3> QED BY <1>5, <2>2, <3>1 DEF LogMessage, AcquireRefused
  <2>3. CASE Acquire(u)
    <3>1. Holders' = Holders \cup {u} /\ u \notin Holders
      BY <1>1, <2>3 DEF Acquire, Holders, TypeOK
    <3>2. Cardinality(Holders)' = n + 1 BY <2>1, <3>1, FS_AddElement
    <3>3. tsfn'[f] = Acquired(tsfn[f]) BY <1>1, <1>5, <1>6, <2>3 DEF Acquire
    <3>4. tsfn'[f].state = "open" /\ tsfn'[f].threads = 1 + n + 1
      BY <1>1, <1>5, <3>3, HeldFunction
    <3> QED BY <2>1, <3>2, <3>4
  <2>4. CASE BlockingCall(u)
    <3>1. Holders' = Holders BY <1>1, <2>4 DEF BlockingCall, Holders, TypeOK
    <3>2. tsfn'[f] = Pushed(tsfn[f], u) BY <1>1, <1>5, <1>6, <2>4 DEF BlockingCall
    <3> QED BY <1>1, <1>5, <3>1, <3>2, HeldFunction
  <2>5. CASE Release(u)
    <3>1. Holders' = Holders \ {u} /\ u \in Holders
      BY <1>1, <2>5 DEF Release, Holders, TypeOK
    <3>2. Cardinality(Holders)' = n - 1 BY <2>1, <3>1, FS_RemoveElement
    <3>3. tsfn'[f] = Released(tsfn[f]) BY <1>1, <1>5, <1>6, <2>5 DEF Release
    <3>4. tsfn'[f].state = "open" /\ tsfn'[f].threads = n
      BY <1>1, <1>5, <2>1, <3>3, HeldFunction
    <3> QED BY <2>1, <3>2, <3>4
  <2> QED BY <1>8, <2>2, <2>3, <2>4, <2>5 DEF Logging
<1> QED
  BY <1>3, <1>4, <1>5, <1>7, <1>8, <1>9, LogAssumption DEF QuietInv, Running, Inside, Handlers, f

-----------------------------------------------------------------------------
LEMMA InitInv == Init => IInv
<1> SUFFICES ASSUME Init PROVE IInv OBVIOUS
<1>1. TypeOK
  <2>1. Absent \in [threads : Nat, queue : Seq(Threads), state : States]
    BY DEF Absent, States
  <2>2. tsfn \in [Handlers -> [threads : Nat, queue : Seq(Threads), state : States]]
    BY <2>1 DEF Init
  <2>3. count \in 0 .. MaxInstalls /\ messages \in 0 .. MaxMessages BY LogAssumption DEF Init
  <2> QED BY <2>2, <2>3 DEF Init, TypeOK
<1>2. MainInv /\ QuietInv BY DEF Init, MainInv, QuietInv, Running, Inside
<1> QED BY <1>1, <1>2 DEF IInv

LEMMA NextInv == IInv /\ [Next]_vars => IInv'
<1> SUFFICES ASSUME IInv, [Next]_vars PROVE IInv' OBVIOUS
<1>1. CASE UNCHANGED vars
  BY <1>1 DEF vars, handler, threads, IInv, TypeOK, MainInv, QuietInv, Running, Inside, Holders
<1> QED
  BY <1>1, HandlingTypes, HandlingQuiet, LoggingTypes, LoggingQuiet DEF Next, Terminated, IInv

\* The inductive invariant holds of every reachable state.
THEOREM Invariance == Spec => []IInv
BY InitInv, NextInv, PTL DEF Spec

\* Every variable has its type, also once threads and setLogHandler overlap.
THEOREM TypeCorrect == Spec => []TypeOK
<1>1. IInv => TypeOK BY DEF IInv
<1> QED BY <1>1, Invariance, PTL

\* As long as setLogHandler and LogMessage do not overlap, nothing deleted is
\* used, and the installed function is open and its holds are balanced.
THEOREM QuietIsBalanced == Spec => []QuietHandlerBalanced
<1>1. IInv => QuietHandlerBalanced BY DEF IInv, QuietInv, QuietHandlerBalanced
<1> QED BY <1>1, Invariance, PTL
=============================================================================
