---------------------------- MODULE MessageDelivery ----------------------------
(***************************************************************************)
(* What a listener promises to the client that delivers messages to it,    *)
(* whatever threads, queues and references it is made of.  A thread of the *)
(* client offers a message and gets it back:                               *)
(*   - the listener is called for it at most once, and only after the      *)
(*     promise of subscribe() or createReader() has settled;               *)
(*   - it comes back without such a call only if the listener has ended    *)
(*     or, where Misses allows it, if it was offered while it opened;      *)
(*   - nothing deleted is used before the listener has ended;              *)
(*   - every message comes back, unless its listener call was lost, and    *)
(*     where Losses forbids that, every message comes back.                *)
(* ConsumerListener and ReaderListener implement it.                       *)
(***************************************************************************)

CONSTANTS
  Threads,  \* the threads of the client that deliver messages
  Misses,   \* TRUE if a message offered too early may pass the listener by
  Losses    \* TRUE if a listener call that fails keeps its thread for ever

VARIABLES
  state,     \* of the listener: "none", "opening", "open", "ended" or "crashed"
  delivery   \* [Threads -> how far the message of the thread has come]

vars == <<state, delivery>>

\* What a listener call, or the promise that it returned, may come to.
Outcomes == {"handled"} \cup (IF Losses THEN {"lost"} ELSE {})

Init == state = "none" /\ delivery = [t \in Threads |-> "none"]

Move(t, from, to) ==
  /\ state # "crashed" /\ delivery[t] = from
  /\ delivery' = [delivery EXCEPT ![t] = to]
  /\ UNCHANGED state

Become(from, to) == state \in from /\ state' = to /\ UNCHANGED delivery

Begin == Become({"none"}, "opening")
Open  == Become({"opening"}, "open")
End   == Become({"opening", "open"}, "ended")
Crash == Become({"ended"}, "crashed")

Offer(t)  == state # "none" /\ Move(t, "none", "offered")
Miss(t)   == Misses /\ state = "opening" /\ Move(t, "offered", "missed")
Call(t)   == /\ state \in {"open", "ended"}
             /\ \E d \in Outcomes \cup {"handling"} : Move(t, "offered", d)
Finish(t) == \E d \in Outcomes : Move(t, "handling", d)
Return(t) == \E d \in {"missed", "handled"} : Move(t, d, "none")
Drop(t)   == state = "ended" /\ Move(t, "offered", "none")

Answer(t) == Miss(t) \/ Call(t) \/ Finish(t) \/ Return(t) \/ Drop(t)

Next == \/ Begin \/ Open \/ End \/ Crash
        \/ \E t \in Threads : Offer(t) \/ Answer(t)

Fairness == /\ WF_vars(Open \/ (state = "opening" /\ End))
            /\ \A t \in Threads : WF_vars(Answer(t))

\* What is promised of every step, and what is promised to happen.
Contract == Init /\ [][Next]_vars
Spec == Contract /\ Fairness
=============================================================================
