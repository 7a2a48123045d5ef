----------------------------- MODULE AsyncPromise -----------------------------
(***************************************************************************)
(* What an asynchronous method of the binding promises its JavaScript      *)
(* caller, with no thread, callback or finalizer in sight: a call returns  *)
(* a pending promise (or throws, and returns none); the method decides     *)
(* once how the promise ends; the promise is settled once, that way.       *)
(*                                                                         *)
(* ThreadSafeDeferred is shown to implement this module.                   *)
(***************************************************************************)
CONSTANTS Calls,       \* the calls of one run of the program
          Settlements  \* [state |-> "resolved" or "rejected", value |-> ...]

VARIABLES promise,  \* [Calls -> the state of the promise the caller holds]
          decision  \* [Calls -> how the method decided that it ends]

vars == <<promise, decision>>

NoPromise == [state |-> "none", value |-> "none"]
Pending == [state |-> "pending", value |-> "none"]
Thrown == [state |-> "thrown", value |-> "none"]

TypeOK == /\ promise \in [Calls -> {NoPromise, Pending, Thrown} \cup Settlements]
          /\ decision \in [Calls -> {NoPromise} \cup Settlements]

Init == /\ promise = [c \in Calls |-> NoPromise]
        /\ decision = [c \in Calls |-> NoPromise]

\* The method is called: its caller gets a promise, or an exception at once.
Begin(c) == /\ promise[c] = NoPromise
            /\ promise' = [promise EXCEPT ![c] = Pending]
            /\ UNCHANGED decision

Refuse(c) == /\ promise[c] = NoPromise
             /\ promise' = [promise EXCEPT ![c] = Thrown]
             /\ UNCHANGED decision

\* The method throws after it made the promise, which nobody will ever see.
Throw(c) == /\ promise[c] = Pending
            /\ decision[c] = NoPromise
            /\ promise' = [promise EXCEPT ![c] = Thrown]
            /\ UNCHANGED decision

Decide(c) == /\ promise[c] = Pending
             /\ decision[c] = NoPromise
             /\ \E s \in Settlements : decision' = [decision EXCEPT ![c] = s]
             /\ UNCHANGED promise

Settle(c) == /\ promise[c] = Pending
             /\ decision[c] # NoPromise
             /\ promise' = [promise EXCEPT ![c] = decision[c]]
             /\ UNCHANGED decision

Next == \E c \in Calls : Begin(c) \/ Refuse(c) \/ Throw(c) \/ Decide(c) \/ Settle(c)

\* What was decided is carried out: no promise stays pending after its decision.
Fairness == \A c \in Calls : WF_vars(Settle(c))

\* What the caller sees of a promise, leaving aside that it is ever settled.
Contract == Init /\ [][Next]_vars

Spec == Contract /\ Fairness
=============================================================================
