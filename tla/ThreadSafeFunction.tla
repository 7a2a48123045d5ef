------------------------- MODULE ThreadSafeFunction -------------------------
(***************************************************************************)
(* The thread-safe function of Node-API (napi_threadsafe_function), as the *)
(* binding uses it through Napi::ThreadSafeFunction.  It is the only way a *)
(* thread of the Pulsar C++ client reaches JavaScript: the thread acquires *)
(* the function, pushes a call, and releases it; the Node event loop pops  *)
(* one call at a time, and when no thread holds the function and no call   *)
(* is queued it closes it and then runs the finalizer that the binding     *)
(* registered.                                                             *)
(*                                                                         *)
(* External: the code is Node's.  It is stated here as operators on one    *)
(* record, and the specifications of the components hold one such record   *)
(* per function they create.                                               *)
(***************************************************************************)
EXTENDS Naturals, Sequences

\* No thread-safe function has been created yet.
Absent == [threads |-> 0, queue |-> <<>>, state |-> "none"]

\* ThreadSafeFunction::New(..., initialThreadCount): open, nothing queued.
Created(n) == [threads |-> n, queue |-> <<>>, state |-> "open"]

\* napi_acquire_threadsafe_function answers napi_closing once the loop has
\* closed the function, and counts one more holder before that.
CanAcquire(f) == f.state = "open"
Acquired(f) == [f EXCEPT !.threads = @ + 1]

\* napi_release_threadsafe_function(napi_tsfn_release): one holder less; a
\* call with no holder left is refused with napi_invalid_arg.
Released(f) == [f EXCEPT !.threads = IF @ > 0 THEN @ - 1 ELSE 0]

\* napi_call_threadsafe_function(napi_tsfn_blocking): waits while the queue is
\* full; max = 0 means that the queue is not bounded.
HasRoom(f, max) == max = 0 \/ Len(f.queue) < max
Pushed(f, c) == [f EXCEPT !.queue = Append(@, c)]

\* One iteration of the event loop: pop a call; when it was the last one and
\* nobody holds the function any more, the function closes before the call runs.
CanDispatch(f) == f.state = "open" /\ f.queue # <<>>
Dispatched(f) ==
  [f EXCEPT !.queue = Tail(@),
            !.state = IF Len(f.queue) = 1 /\ f.threads = 0 THEN "closing" ELSE @]

\* The loop was woken by the last Release with nothing queued.
CanClose(f) == f.state = "open" /\ f.queue = <<>> /\ f.threads = 0
Closing(f) == [f EXCEPT !.state = "closing"]

\* The finalizer runs, once, in a later iteration of the event loop.
CanFinalize(f) == f.state = "closing"
Finalized(f) == [f EXCEPT !.state = "finalized"]

States == {"none", "open", "closing", "finalized"}
=============================================================================
