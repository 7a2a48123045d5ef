--------------------------- MODULE ConsumerPolicies ---------------------------
(***************************************************************************)
(* The policies inside a consumer's configuration that are objects         *)
(* themselves: how much batchReceive() waits for, when a message counts as *)
(* dead, and which hash ranges a consumer with sticky keys takes.  A limit *)
(* is read as 32 or as 64 bits and kept in a C int; ranges are checked one *)
(* by one, and the first bad one ends the reading.                         *)
(***************************************************************************)
EXTENDS JsNumbers, JsObjects, FiniteSets

CONSTANTS
  Absent,      \* no number is given
  Limits,      \* the numbers that a program gives as limits
  Elements,    \* the elements of its array of ranges
  MaxRanges,   \* how many elements an array has
  DefaultBytes, DefaultTimeout  \* 10 * 1024 * 1024 and 100

\* What the constants have to be.
PolicyAssumption ==
  /\ Limits \subseteq Numbers
  /\ DefaultBytes \in 1 .. MaxOf(W32) /\ DefaultTimeout \in 1 .. MaxOf(W32)
  /\ MaxRanges \in Nat
  /\ \A e \in Elements : e.kind = "range" => e.start \in Numbers /\ e.end \in Numbers

VARIABLES
  given,     \* batchReceivePolicy and deadLetterPolicy: [Fields -> Limits or Absent]
  ranges,    \* stickyRanges: a sequence of Elements
  pos,       \* what is read next: "dead", "batch", "ranges" or "end"
  policy,    \* [Fields -> what the client is passed], or << >> before
  sticky,    \* the ranges read so far
  outcome    \* "reading", "accepted" or "rejected"

vars == <<given, ranges, pos, policy, sticky, outcome>>

Fields == {"maxRedeliverCount", "maxNumMessages", "maxNumBytes", "timeoutMs"}
BatchLimits == Fields \ {"maxRedeliverCount"}

\* Any limits and no ranges, or any ranges and no limits.
Init ==
  /\ \/ given \in [Fields -> Limits \cup {Absent}] /\ ranges = << >>
     \/ /\ given = [f \in Fields |-> Absent]
        /\ ranges \in UNION {[1 .. n -> Elements] : n \in 0 .. MaxRanges}
  /\ pos = "dead" /\ policy = << >> /\ sticky = << >> /\ outcome = "reading"

-----------------------------------------------------------------------------
\* Slips of the kind that the properties below are there to catch; no action
\* of the specification uses them.

\* A default for the messages as for the other limits.
DefaultMessages(f) ==
  CASE f = "maxNumMessages" -> DefaultBytes
    [] f = "maxNumBytes" -> DefaultBytes
    [] f = "timeoutMs" -> DefaultTimeout
    [] OTHER -> 0

\* An element that is no range is passed over.
PassOver ==
  /\ outcome = "reading" /\ pos = "ranges" /\ Len(sticky) < Len(ranges)
  /\ LET e == ranges[Len(sticky) + 1] IN
     IF e.kind = "range" /\ Int32Value(e.start) > Int32Value(e.end)
     THEN outcome' = "rejected" /\ UNCHANGED sticky
     ELSE sticky' = Append(sticky, <<Int32Value(e.start), Int32Value(e.end)>>) /\ UNCHANGED outcome
  /\ UNCHANGED <<given, ranges, pos, policy>>

-----------------------------------------------------------------------------
\* Reading.

Default(f) ==
  CASE f = "maxNumMessages" -> -1
    [] f = "maxNumBytes" -> DefaultBytes
    [] f = "timeoutMs" -> DefaultTimeout
    [] OTHER -> 0

\* Int32Value(), or Int64Value() assigned to an int.
IntValue(f, n) ==
  IF f \in {"maxNumBytes", "timeoutMs"} THEN Narrow(Int64Value(n), W32) ELSE Int32Value(n)

Read(f) == IF given[f] = Absent THEN Default(f) ELSE IntValue(f, given[f])

\* The dead letter policy is passed on as it is.
ReadDeadLetterPolicy ==
  /\ outcome = "reading" /\ pos = "dead"
  /\ policy' = [f \in {"maxRedeliverCount"} |-> Read(f)]
  /\ pos' = "batch"
  /\ UNCHANGED <<given, ranges, sticky, outcome>>

HasLimit(p) == \E f \in BatchLimits : p[f] > 0

\* A batch receive policy without a positive limit is refused.
ReadBatchReceivePolicy ==
  /\ outcome = "reading" /\ pos = "batch"
  /\ LET p == [f \in Fields |-> IF f \in BatchLimits THEN Read(f) ELSE policy[f]] IN
     IF HasLimit(p)
     THEN policy' = p /\ pos' = "ranges" /\ UNCHANGED outcome
     ELSE outcome' = "rejected" /\ UNCHANGED <<policy, pos>>
  /\ UNCHANGED <<given, ranges, sticky>>

\* One element of stickyRanges.
ReadRange ==
  /\ outcome = "reading" /\ pos = "ranges" /\ Len(sticky) < Len(ranges)
  /\ LET e == ranges[Len(sticky) + 1] IN
     IF e.kind # "range" \/ Int32Value(e.start) > Int32Value(e.end)
     THEN outcome' = "rejected" /\ UNCHANGED sticky
     ELSE sticky' = Append(sticky, <<Int32Value(e.start), Int32Value(e.end)>>) /\ UNCHANGED outcome
  /\ UNCHANGED <<given, ranges, pos, policy>>

\* setStickyRanges() and setKeySharedPolicy().
SetKeySharedPolicy ==
  /\ outcome = "reading" /\ pos = "ranges" /\ Len(sticky) = Len(ranges)
  /\ pos' = "end" /\ outcome' = "accepted"
  /\ UNCHANGED <<given, ranges, policy, sticky>>

Finished == outcome # "reading" /\ UNCHANGED vars

Next ==
  \/ ReadDeadLetterPolicy \/ ReadBatchReceivePolicy \/ ReadRange \/ SetKeySharedPolicy
  \/ Finished

Spec == Init /\ [][Next]_vars

-----------------------------------------------------------------------------
\* Properties.

InInt(n) == n \in MinOf(W32) .. MaxOf(W32)

\* A consumer that gives policies gets what it gave or an error: an accepted
\* batch receive policy has a positive limit, so that a batch is full at some
\* time; without numbers it has the defaults, and a number that fits an int is
\* the limit that the client has.  The client takes the ranges of an array one
\* for one and in order, each with its start no later than its end.
PolicyAsGiven ==
  outcome = "accepted" =>
    /\ \E f \in BatchLimits : policy[f] \in 1 .. MaxOf(W32)
    /\ \A f \in Fields :
         /\ given[f] = Absent =>
              policy[f] = [maxRedeliverCount |-> 0, maxNumMessages |-> -1,
                           maxNumBytes |-> DefaultBytes, timeoutMs |-> DefaultTimeout][f]
         /\ given[f] \notin {Absent, NaN} /\ InInt(given[f]) => policy[f] = given[f]
    /\ Len(sticky) = Len(ranges)
    /\ \A i \in DOMAIN ranges :
         LET e == ranges[i] IN
         /\ e.kind = "range"
         /\ sticky[i][1] <= sticky[i][2]
         /\ e.start # NaN /\ InInt(e.start) => sticky[i][1] = e.start
         /\ e.end # NaN /\ InInt(e.end) => sticky[i][2] = e.end
=============================================================================
