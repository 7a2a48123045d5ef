------------------------------ MODULE MCProgram ------------------------------
(***************************************************************************)
(* What a program meets on the main thread, for TLC: it reads options and  *)
(* policies, constructs clients, sends through a router, fetches schemas   *)
(* and uses messages.  These parts share no state, so that interleaving    *)
(* them would show nothing: a behaviour exercises one of them.             *)
(***************************************************************************)
EXTENDS Configuration, JsObjects, TLC

CONSTANTS
  Limits, Elements, MaxRanges, DefaultBytes, DefaultTimeout, \* ConsumerPolicies
  FailoverClients, FailoverConfigs, LevelClients, LevelConfigs, Authentications, Levels,
  DefaultNumber, NoNumber, Disabled, NoClient,               \* ClientConstruction
  Sends, NumPartitions, Answers,                             \* ProducerRouter
  Given, Foreign, Versions, MaxVersions, MaxSafe,            \* Schemas
  MaxObjects, MaxCells, MaxBatch, Static, Null,              \* MessageObjects
  Nothing, Idle

VARIABLES
  part,                                                     \* the part that runs
  limits, ranges, stage, policy, sticky, verdict,           \* ConsumerPolicies
  object, client, conf, authRefs, services, numbers, gone, logger, logged,
  method, callback, answerer, fate, self, producer, router, open, stack, sends,
  partition, threw, target, routerFault,                    \* ProducerRouter
  registry, asked, fetched, failed,                         \* Schemas
  used, live, wrapper, cell, deleter, listening, batch, routing, last, fault

policyVars == <<limits, ranges, stage, policy, sticky, verdict>>
clientVars == <<object, client, conf, authRefs, services, numbers, gone, logger, logged>>
routerVars == <<method, callback, answerer, fate, self, producer, router, open, stack, sends,
                partition, threw, target, routerFault>>
schemaVars == <<registry, asked, fetched, failed>>
messageVars == <<used, live, wrapper, cell, deleter, listening, batch, routing, last, fault>>
allVars == <<part, vars, policyVars, clientVars, routerVars, schemaVars, messageVars>>

Policies == INSTANCE ConsumerPolicies
  WITH given <- limits, pos <- stage, outcome <- verdict, Absent <- Nothing
Failover == INSTANCE ClientConstruction
  WITH Clients <- FailoverClients, Configs <- FailoverConfigs, Absent <- Nothing
LogLevels == INSTANCE ClientConstruction
  WITH Clients <- LevelClients, Configs <- LevelConfigs, Absent <- Nothing
Routers == INSTANCE ProducerRouter WITH asked <- partition, fault <- routerFault
Schema == INSTANCE Schemas WITH Absent <- Nothing
Messages == INSTANCE MessageObjects WITH class <- wrapper

ASSUME ConstantsAssumption ==
  /\ Policies!PolicyAssumption /\ Failover!ClientAssumption /\ LogLevels!ClientAssumption
  /\ Routers!PartitionsAssumption /\ Schema!SchemasAssumption /\ Messages!PlacesAssumption

-----------------------------------------------------------------------------
\* The parts whose initial state is a choice of inputs are idle when another
\* part runs.
ProgramInit ==
  /\ part \in {"options", "policies", "failover", "levels", "router", "schemas", "messages"}
  /\ IF part = "options" THEN Init
     ELSE class = Idle /\ given = Idle /\ pos = 1 /\ got = Idle /\ outcome = "idle"
  /\ IF part = "policies" THEN Policies!Init
     ELSE /\ limits = Idle /\ ranges = Idle /\ stage = "end"
          /\ policy = Idle /\ sticky = Idle /\ verdict = "idle"
  /\ IF part = "levels" THEN LogLevels!Init ELSE Failover!Init
  /\ Routers!Init /\ Schema!Init /\ Messages!Init

\* Options are read for a new client, producer, consumer or reader, or a message.
ReadOptions ==
  /\ part = "options" /\ Next
  /\ UNCHANGED <<part, policyVars, clientVars, routerVars, schemaVars, messageVars>>

\* The policies of a consumer are read.
ReadPolicies ==
  /\ part = "policies" /\ Policies!Next
  /\ UNCHANGED <<part, vars, clientVars, routerVars, schemaVars, messageVars>>

\* Clients are constructed and collected: one with any services, or several that
\* differ in their levels.
ConstructClients ==
  /\ \/ part = "failover" /\ Failover!Next
     \/ part = "levels" /\ LogLevels!Next
  /\ UNCHANGED <<part, vars, policyVars, routerVars, schemaVars, messageVars>>

\* A producer with a router.
RouteMessages ==
  /\ part = "router" /\ Routers!Next
  /\ UNCHANGED <<part, vars, policyVars, clientVars, schemaVars, messageVars>>

\* Schemas are registered and fetched.
ExchangeSchemas ==
  /\ part = "schemas" /\ Schema!Next
  /\ UNCHANGED <<part, vars, policyVars, clientVars, routerVars, messageVars>>

\* Messages and their ids come, are used and go.
UseMessages ==
  /\ part = "messages" /\ Messages!Next
  /\ UNCHANGED <<part, vars, policyVars, clientVars, routerVars, schemaVars>>

ProgramNext ==
  \/ ReadOptions \/ ReadPolicies \/ ConstructClients \/ RouteMessages \/ ExchangeSchemas
  \/ UseMessages

ProgramSpec == ProgramInit /\ [][ProgramNext]_allVars

-----------------------------------------------------------------------------
\* The properties of the parts.

\* The client is asked for exactly the valid configurations, and is passed the
\* program's own numbers (ProducerConfig.cc, ConsumerConfig.cc, ReaderConfig.cc,
\* Client.cc and Message.cc).
ConfiguredAsGiven == AskedIffValid /\ NumbersAsGiven

\* An accepted policy has a positive limit and the numbers that the program gave,
\* and the ranges of the program one for one (ConsumerConfig.cc).
PolicyAsGiven == Policies!PolicyAsGiven

\* Each service of a failover client has the authentication and certificates of
\* the configuration, and numbers that never wrapped (Client.cc).
ServicesAsConfigured == part = "failover" => Failover!ServicesAsConfigured

\* An Authentication that a service uses is there as long as the Client (Client.cc).
UsedAuthKept == part = "failover" => Failover!UsedAuthKept

\* The level of the first Client that was created rules for all (Client.cc).
FirstLevelRules == [][part = "levels" => LogLevels!LevelStep]_allVars

\* The router is there while the producer may call it, and nobody keeps that of a
\* producer that failed or is gone (Producer.cc, ProducerConfig.cc).
RouterLivesAsProducer == Routers!RouterLivesAsProducer

\* A message goes where its own router call says, or nowhere (ProducerConfig.cc).
RoutedAsAsked == Routers!RoutedAsAsked

\* A fetched schema is the one of the version that was asked for (Client.cc).
FetchedAsRegistered == Schema!FetchedAsRegistered

\* A fetched schema given back is the version it came from (SchemaInfo.cc).
FetchedReused == [][Schema!ReuseStep]_allVars

\* The objects that the client made can be used while the program has them
\* (Message.cc, MessageId.cc, Consumer.cc).
ClientObjectsUsable == Messages!ClientObjectsUsable

\* A C object exists exactly as long as somebody has it (Message.cc, MessageId.cc).
LiveIffOwned == Messages!LiveIffOwned

-----------------------------------------------------------------------------
\* Values of the constants.

CONSTANTS k1, k2, k3, a1, a2, m1, m2

\* Configuration: every class.
EveryClass == {"producer", "consumer", "reader", "client", "message"}

\* ConsumerPolicies: limits below, at and beyond the borders of both widths, and
\* ranges that wrap into one another.
SomeLimits == {-1, 0, 1, 3, 4, 7, 8, 9, 16, NaN}
Bounds == {-1, 0, 2, 3, 4, 8, NaN}
SomeElements ==
  {KeyRange(s, e) : s, e \in Bounds} \cup {Incomplete, NoObject}

\* ClientConstruction: every kind of service as primary and as one of two
\* secondaries, and every number; plain configurations that differ in level.
TwoAuthentications == {a1, a2}
OneClient == {k1}
ThreeClients == {k1, k2, k3}
Url == Service("string", "ok", Nothing, Nothing)
Kinds == {Url, Service("object", "ok", a2, Nothing), Service("object", "ok", Nothing, "own"),
          Service("string", "empty", Nothing, Nothing), Service("object", "empty", Nothing, Nothing),
          Service("other", "ok", Nothing, Nothing), Service("object", "ok", "foreign", Nothing),
          Service("object", "ok", "unbound", Nothing), Service("object", "ok", a1, "bad")}
Lists == {Nothing, << >>} \cup {<<s>> : s \in Kinds} \cup {<<Url, s>> : s \in Kinds}
NoProvider == Provider("absent", Nothing, << >>, Nothing)
Providers ==
  {NoProvider, Provider("other", Nothing, << >>, Nothing)}
  \cup {Provider("object", p, s, Nothing) : p \in Kinds \cup {Nothing}, s \in Lists}
  \cup {Provider("object", Url, <<Url>>, n) : n \in Numbers \cup {NoNumber}}
ServiceConfigs ==
  {Config(u, p, a, t, 1) : u \in {Nothing, "ok", "empty"}, p \in Providers,
                           a \in {Nothing, a1, "foreign", "unbound"}, t \in {Nothing, "certs"}}
ThreeLevels == {0, 1, 2}
PlainConfigs ==
  {Config(u, NoProvider, Nothing, Nothing, l) :
     u \in {"ok", Nothing}, l \in ThreeLevels}

\* ProducerRouter: two sends to two partitions; the router may name a partition,
\* one too many, one too few, one only in its low bits, or no number.
TwoSends == {m1, m2}
SomeAnswers == {0, 1, 2, -1, 2^W32 + 1, NaN}

\* Schemas: every type with and without a name, text and binary data as a string
\* or a Buffer, a foreign type, and numbers that are no versions.
SomeGiven ==
  {SchemaObject(t, n, JsString("text"), {"owner"}) :
     t \in TypeNames \cup {Nothing, "Unknown"}, n \in {Nothing, ""}}
  \cup {SchemaObject("KeyValue", "kv", s, {"__proto__"}) :
     s \in {Nothing, JsBuffer("text"), JsBuffer("binary"), JsString("binary")}}
SomeForeign == {Info(c, "f", "binary", {}) : c \in {4, 12, 15, 21}}
SomeVersions == [int : {-1, 0, 1, 4}, whole : BOOLEAN]
=============================================================================
