---------------------------- MODULE Configuration ----------------------------
(***************************************************************************)
(* How the binding reads the options of a client, a producer, a consumer,  *)
(* a reader and a message.  An option is read if the object has it with    *)
(* the right type (and sometimes only if another option is there too), is  *)
(* converted, and is then passed to the C client, silently left out,       *)
(* answered with a rejected promise or with an exception.  The order of    *)
(* the tables is the order of the code: the first refusal ends the reading.*)
(*                                                                         *)
(* A string is empty, one that the option's table of names knows, or       *)
(* another; an object is what the option wants or is not (a foreign class, *)
(* a schema type that nobody knows, a policy without a limit).             *)
(***************************************************************************)
EXTENDS JsNumbers, Sequences

CONSTANTS
  Classes,       \* the classes whose configurations are read
  MinAckTimeout  \* MIN_ACK_TIMEOUT_MILLIS

ASSUME AckAssumption == MinAckTimeout \in 1 .. MaxOf(W64)

VARIABLES
  class,    \* whose configuration it is
  given,    \* [Names -> the JavaScript values in the object]
  pos,      \* the next option
  got,      \* [Names -> what the client was passed, or Absent]
  outcome   \* "reading", then "asked" (the client), "rejected" or "thrown"

vars == <<class, given, pos, got, outcome>>

-----------------------------------------------------------------------------
\* JavaScript values.

Num(n) == [type |-> "number", number |-> n, text |-> ""]
Val(t, x) == [type |-> t, number |-> 0, text |-> x]
Absent == Val("undefined", "")
Texts(t, X) == {Val(t, x) : x \in X}

Strings == Texts("string", {"", "known", "CustomPartition", "other"})
Nonempty == Strings \ Texts("string", {""})
Booleans == Texts("boolean", {"true", "false"})
Arrays == Texts("array", {"empty", "strings", "others"})
Instances == Texts("object", {"good", "bad", "unset"})
Functions == Texts("function", {"f"})
Buffers == Texts("buffer", {"b"})
Objects == Arrays \cup Instances \cup Functions \cup Buffers
Values == {Absent} \cup {Num(n) : n \in Numbers} \cup Strings \cup Booleans \cup Objects

\* IsString, IsNumber, ...; arrays, functions and Buffers are objects too.
OfType(t) ==
  CASE t = "any" -> Values
    [] t = "object" -> Objects
    [] OTHER -> {v \in Values : v.type = t}

-----------------------------------------------------------------------------
\* Options.

Option(n, t, c, A) ==
  [name |-> n, type |-> t, conv |-> c,
   accept |-> A,          \* the converted values that the client is passed
   bad |-> "skip",        \* what becomes of the others
   missing |-> "skip",    \* what becomes of no value, or one of another type
   needs |-> {}]          \* one of these <<option, values>> must be there too

AtLeast(k) == {Num(n) : n \in k .. MaxOf(W64)}
AnyInteger == {Num(n) : n \in MinOf(W64) .. MaxOf(W64)}
Int32(n, k) == Option(n, "number", "int32", AtLeast(k))
Int64(n, k) == Option(n, "number", "int64", AtLeast(k))
Text(n) == Option(n, "string", "none", Strings)
Name(n) == Option(n, "string", "none", Nonempty)
Known(n) == Option(n, "string", "none", Texts("string", {"known"}))
Flag(n) == Option(n, "boolean", "none", Booleans)
Switch(n) == Option(n, "boolean", "none", Texts("boolean", {"true"}))
AnObject(n) == Option(n, "object", "none", Objects)
Checked(n, answer) == [Option(n, "object", "none", Objects \ Texts("object", {"bad"})) EXCEPT !.bad = answer]
Wrapped(n) == [Option(n, "object", "none", Texts("object", {"good", "unset"})) EXCEPT !.bad = "throw"]
Needing(o, P) == [o EXCEPT !.needs = P]            \* read only with another option
Rejecting(o) == [o EXCEPT !.bad = "reject"]
Required(n, t, A) == [Option(n, t, "none", A) EXCEPT !.bad = "reject", !.missing = "reject"]

ProducerOptions == <<
  Name("producerName"), Int32("sendTimeoutMs", 1),
  Option("initialSequenceId", "number", "int64", AnyInteger),
  Int32("maxPendingMessages", 1), Int32("maxPendingMessagesAcrossPartitions", 1),
  Flag("blockIfQueueFull"),
  Option("messageRoutingMode", "string", "none", Texts("string", {"known", "CustomPartition"})),
  Known("hashingScheme"), Known("compressionType"), Flag("batchingEnabled"),
  Int64("batchingMaxPublishDelayMs", 1),
  Option("batchingMaxMessages", "number", "uint32", AtLeast(1)),
  Int64("batchingMaxAllowedSizeInBytes", 1),
  Checked("schema", "throw"), AnObject("properties"), Text("publicKeyPath"),
  Needing(Text("encryptionKey"), {<<"publicKeyPath", Strings>>}),
  Option("encryptionKeys", "array", "none", Arrays),
  Wrapped("cryptoKeyReader"), Known("cryptoFailureAction"), Flag("chunkingEnabled"),
  Option("accessMode", "any", "none", Texts("string", {"known"})),
  Option("batchingType", "any", "none", Texts("string", {"known"})),
  Needing(Option("messageRouter", "function", "none", Functions),
          {<<"messageRoutingMode", Texts("string", {"CustomPartition"})>>}),
  Required("topic", "string", Nonempty) >>

ConsumerNames == <<
  Text("topic"), Option("topics", "array", "none", Arrays), Text("topicsPattern"),
  Needing(Required("subscription", "string", Nonempty),
          {<<"topic", Nonempty>>, <<"topics", Texts("array", {"strings"})>>,
           <<"topicsPattern", Nonempty>>}),
  Known("subscriptionType"), Known("subscriptionInitialPosition"),
  Known("regexSubscriptionMode"), Name("consumerName") >>

ConsumerSettings == <<
  Rejecting(Option("ackTimeoutMs", "number", "int64", {Num(0)} \cup AtLeast(MinAckTimeout))),
  Rejecting(Int64("nAckRedeliverTimeoutMs", 0)),
  Int32("receiverQueueSize", 0), Int32("receiverQueueSizeAcrossPartitions", 0),
  Checked("schema", "throw"), AnObject("properties"),
  Option("listener", "function", "none", Functions), Switch("readCompacted"),
  Text("privateKeyPath"), Wrapped("cryptoKeyReader"), Known("cryptoFailureAction"),
  Int32("maxPendingChunkedMessage", 0), Flag("autoAckOldestChunkedMessageOnQueueFull"),
  Flag("batchIndexAckEnabled"), AnObject("deadLetterPolicy"),
  Checked("batchReceivePolicy", "reject"), Checked("keySharedPolicy", "reject"),
  Flag("replicateSubscriptionState") >>

ConsumerOptions == ConsumerNames \o ConsumerSettings

ReaderOptions == <<
  Wrapped("startMessageId"), Int32("receiverQueueSize", 0), Name("readerName"),
  Name("subscriptionRolePrefix"), Switch("readCompacted"),
  Option("listener", "function", "none", Functions), Text("privateKeyPath"),
  Needing(Known("cryptoFailureAction"), {<<"privateKeyPath", Strings>>}),
  Required("topic", "string", Nonempty),
  Required("startMessageId", "object", Texts("object", {"good"})) >>

ClientOptions == <<
  Option("logLevel", "number", "int32", AnyInteger),
  Option("log", "function", "none", Functions),
  Int32("operationTimeoutSeconds", 1), Int32("ioThreads", 1), Int32("connectionTimeoutMs", 1),
  Int32("messageListenerThreads", 1), Int32("concurrentLookupRequest", 1),
  Text("tlsTrustCertsFilePath"), Text("tlsCertificateFilePath"), Text("tlsPrivateKeyFilePath"),
  Flag("tlsValidateHostname"), Flag("tlsAllowInsecureConnection"),
  Option("statsIntervalInSeconds", "number", "uint32", AnyInteger), Text("listenerName") >>

MessageOptions == <<
  Option("data", "buffer", "none", Buffers), AnObject("properties"),
  Int64("eventTimestamp", 0), Option("sequenceId", "number", "int64", AnyInteger),
  Text("partitionKey"), Option("replicationClusters", "array", "none", Arrays),
  Option("deliverAfter", "number", "int64", AnyInteger),
  Option("deliverAt", "number", "int64", AnyInteger),
  Switch("disableReplication"), Text("orderingKey") >>

Options == [producer |-> ProducerOptions, consumer |-> ConsumerOptions,
            reader |-> ReaderOptions, client |-> ClientOptions, message |-> MessageOptions]
AllClasses == DOMAIN Options
ASSUME ClassesAssumption == Classes \subseteq AllClasses
Table == Options[class]
Names(c) == {Options[c][i].name : i \in DOMAIN Options[c]}

\* What a program must give, and what other options need to be read.
Base ==
  [producer |-> [topic |-> Val("string", "other")],
   consumer |-> [subscription |-> Val("string", "other")],
   reader |-> [topic |-> Val("string", "other"), startMessageId |-> Val("object", "good")],
   client |-> << >>, message |-> << >>]
Companions ==
  [producer |-> [publicKeyPath |-> Val("string", "other"), cryptoKeyReader |-> Val("object", "good"),
                 messageRoutingMode |-> Val("string", "CustomPartition")],
   consumer |-> [topic |-> Val("string", "other"), topics |-> Val("array", "strings"),
                 topicsPattern |-> Val("string", "other")],
   reader |-> [privateKeyPath |-> Val("string", "other")],
   client |-> << >>, message |-> << >>]

\* A valid object with any of the companions, but one option of any value; one
\* number is enough for an option that is no number.
Init ==
  /\ class \in Classes
  /\ \E C \in SUBSET DOMAIN Companions[class], i \in DOMAIN Table :
     \E v \in {w \in Values : w.type = "number" /\ Table[i].type # "number" => w.number = 1} :
       given = [n \in Names(class) |->
                  IF n = Table[i].name THEN v
                  ELSE IF n \in DOMAIN Base[class] THEN Base[class][n]
                  ELSE IF n \in C THEN Companions[class][n] ELSE Absent]
  /\ pos = 1
  /\ got = [n \in Names(class) |-> Absent]
  /\ outcome = "reading"

-----------------------------------------------------------------------------
\* Slips of the kind that the properties below are there to catch; no action
\* of the specification uses them.

\* An unsigned option read as a signed one.
ReadSigned(o, v) ==
  CASE o.conv \in {"int32", "uint32"} -> Num(Int32Value(v.number))
    [] o.conv = "int64" -> Num(Int64Value(v.number))
    [] OTHER -> v

\* NewInstance without its test of IsDone.
AskAnyway ==
  /\ outcome = "rejected" \/ (outcome = "reading" /\ pos > Len(Table))
  /\ outcome' = "asked"
  /\ UNCHANGED <<class, given, pos, got>>

-----------------------------------------------------------------------------
\* Reading.

Convert(o, v) ==
  CASE o.conv = "int32" -> Num(Int32Value(v.number))
    [] o.conv = "int64" -> Num(Int64Value(v.number))
    [] o.conv = "uint32" -> Num(Uint32Value(v.number))
    [] OTHER -> v

\* The condition under which the code looks at the value of an option.
Present(o) ==
  /\ given[o.name] \in OfType(o.type)
  /\ o.needs = {} \/ \E p \in o.needs : given[p[1]] \in p[2]

\* What becomes of an option: "set", "skip", "reject" or "throw".
Verdict(o) ==
  IF ~Present(o) THEN o.missing
  ELSE IF Convert(o, given[o.name]) \in o.accept THEN "set"
  ELSE o.bad

\* The next option of the table.
ReadOption ==
  /\ outcome = "reading" /\ pos <= Len(Table)
  /\ LET o == Table[pos] IN
       /\ got' = IF Verdict(o) = "set"
                 THEN [got EXCEPT ![o.name] = Convert(o, given[o.name])] ELSE got
       /\ outcome' = CASE Verdict(o) = "reject" -> "rejected"
                       [] Verdict(o) = "throw" -> "thrown"
                       [] OTHER -> "reading"
  /\ pos' = pos + 1
  /\ UNCHANGED <<class, given>>

\* createProducer(), subscribe(), createReader(), new Client() and send() call
\* the client when nothing was refused.
Ask ==
  /\ outcome = "reading" /\ pos > Len(Table)
  /\ outcome' = "asked"
  /\ UNCHANGED <<class, given, pos, got>>

Finished == outcome # "reading" /\ UNCHANGED vars

Next == ReadOption \/ Ask \/ Finished

Spec == Init /\ [][Next]_vars

-----------------------------------------------------------------------------
\* Properties.

\* The limits of the C++ type that an option is read as.
Fits(o, n) ==
  /\ n # NaN
  /\ n \in CASE o.conv = "int32" -> MinOf(W32) .. MaxOf(W32)
             [] o.conv = "uint32" -> 0 .. MaxUint32
             [] OTHER -> MinOf(W64) .. MaxOf(W64)

\* The client is passed the program's own number and no other, unless the number
\* does not fit the type that the option is read as; then it may be passed a
\* wrapped one, but only one that the option accepts.  A fitting number that
\* the option accepts is never lost on the way, and 64-bit options keep theirs.
NumbersAsGiven ==
  outcome = "asked" =>
    \A i \in DOMAIN Table :
      LET o == Table[i]
          v == given[o.name]
      IN o.type = "number" /\ v.type = "number" =>
           /\ Fits(o, v.number) => got[o.name] = IF v \in o.accept THEN v ELSE Absent
           /\ o.conv = "int64" /\ v.number # NaN /\ v.number > MaxOf(W64) =>
                got[o.name] = Num(MaxOf(W64))

\* What a program has to give, in its own terms.
ValidObjects(S, b) == \A n \in S : given[n] # Val("object", b)
Valid ==
  CASE class = "producer" ->
         /\ given["topic"] \in Nonempty
         /\ given["schema"] # Val("object", "bad")
         /\ given["cryptoKeyReader"] \notin Objects \ Texts("object", {"good", "unset"})
    [] class = "consumer" ->
         /\ \/ given["topic"] \in Nonempty \/ given["topicsPattern"] \in Nonempty
            \/ given["topics"] = Val("array", "strings")
         /\ given["subscription"] \in Nonempty
         /\ LET a == given["ackTimeoutMs"] IN
              a.type = "number" /\ a.number # NaN => a.number = 0 \/ a.number >= MinAckTimeout
         /\ LET k == given["nAckRedeliverTimeoutMs"] IN
              k.type = "number" /\ k.number # NaN => k.number >= 0
         /\ ValidObjects({"schema", "batchReceivePolicy", "keySharedPolicy"}, "bad")
         /\ given["cryptoKeyReader"] \notin Objects \ Texts("object", {"good", "unset"})
    [] class = "reader" ->
         given["topic"] \in Nonempty /\ given["startMessageId"] = Val("object", "good")
    [] OTHER -> TRUE

\* The client is asked for exactly the configurations that are valid: none that
\* a check refuses gets through, whatever was read before it, and none is
\* refused, or lost to an exception, that has what it needs.
AskedIffValid ==
  /\ outcome = "asked" => Valid
  /\ outcome \in {"rejected", "thrown"} => ~Valid
=============================================================================
