------------------------------- MODULE Schemas -------------------------------
(***************************************************************************)
(* Schemas on their way between a program and a topic.  A producer or a    *)
(* consumer registers the schema of its configuration; getSchemaInfo()     *)
(* fetches the one that is registered as a version, and the object that it *)
(* resolves with may be given to a producer again.  Schema data are bytes: *)
(* some of them are no text, and a string would not keep them.             *)
(***************************************************************************)
EXTENDS JsObjects

CONSTANTS
  Given,        \* schema objects of the program
  Foreign,      \* schemas that other clients register, with types of their own
  Versions,     \* numbers that the program asks for: [int, whole]
  MaxVersions,  \* versions of the topic (a bound for TLC)
  MaxSafe,      \* Number.MAX_SAFE_INTEGER
  Absent        \* a property that an object does not have

VARIABLES
  registry,  \* the schemas of the topic, version by version
  asked,     \* the last number that getSchemaInfo() was called with
  fetched,   \* what it resolved with, or Absent
  failed     \* how the last call failed: "none", "thrown" or "rejected"

vars == <<registry, asked, fetched, failed>>

\* The bytes of a string or a Buffer; bytes that were no text when they became a
\* string come out of it as other bytes.
Data(s) == IF s = Absent THEN ""
           ELSE IF s.form = "string" /\ s.data = "binary" THEN "replaced"
           ELSE s.data

\* What the constants have to be: a schema of another client has a name.
SchemasAssumption ==
  /\ MaxVersions \in Nat /\ MaxSafe \in Nat
  /\ Absent \notin TypeNames \cup {"BYTES"}
  /\ \A o \in Given : JsBuffer(Data(o.schema)) # Absent
  /\ \A s \in Foreign : /\ s = Info(s.code, s.name, s.data, s.properties)
                        /\ s.name # Absent /\ JsBuffer(s.data) # Absent

Init == registry = << >> /\ asked = Absent /\ fetched = Absent /\ failed = "none"

-----------------------------------------------------------------------------
\* Slips of the kind that the properties below are there to catch; no action
\* of the specification uses them.

\* The name of the type as the name of the schema.
TypeAsName(o) ==
  Info(IF o.schemaType = Absent THEN -1 ELSE SCHEMA_TYPE[o.schemaType],
       IF o.schemaType = Absent THEN "BYTES" ELSE o.schemaType,
       Data(o.schema),
       o.properties)

\* A version that is only tested for being a number.
AnyNumber(v) == TRUE

-----------------------------------------------------------------------------
\* SchemaInfo::SchemaInfo.
KnownType(o) == o.schemaType \in TypeNames \cup {Absent}
SchemaInfo(o) ==
  Info(IF o.schemaType = Absent THEN -1 ELSE SCHEMA_TYPE[o.schemaType],
       IF o.name # Absent THEN o.name ELSE IF o.schemaType = Absent THEN "BYTES" ELSE o.schemaType,
       Data(o.schema),
       o.properties)

\* SchemaInfo::GetSchemaTypeName; empty for a type that the table does not have.
GetSchemaTypeName(code) == {t \in TypeNames : SCHEMA_TYPE[t] = code}

\* SchemaInfo::NewObject
NewObject(t, s) == SchemaObject(t, s.name, JsBuffer(s.data), s.properties)

\* The broker gives a schema that it has its old version.
Registered(s) ==
  IF \E i \in DOMAIN registry : registry[i] = s THEN registry ELSE Append(registry, s)

-----------------------------------------------------------------------------
\* createProducer() or subscribe() with a schema.
Register(o) ==
  /\ Len(registry) < MaxVersions
  /\ failed' = IF KnownType(o) THEN "none" ELSE "thrown"
  /\ registry' = IF KnownType(o) THEN Registered(SchemaInfo(o)) ELSE registry
  /\ UNCHANGED <<asked, fetched>>

\* The same with the object that getSchemaInfo() resolved with.
RegisterFetched ==
  /\ fetched # Absent
  /\ failed' = IF KnownType(fetched) THEN "none" ELSE "thrown"
  /\ registry' = IF KnownType(fetched) THEN Registered(SchemaInfo(fetched)) ELSE registry
  /\ UNCHANGED <<asked, fetched>>

\* Another client, perhaps of another language.
RegisterForeign(s) ==
  /\ Len(registry) < MaxVersions
  /\ registry' = Registered(s)
  /\ UNCHANGED <<asked, fetched, failed>>

ValidVersion(v) == v.whole /\ v.int >= 0 /\ v.int <= MaxSafe

\* getSchemaInfo(topic, version)
GetSchemaInfo(v) ==
  /\ asked' = v
  /\ LET s == registry[v.int + 1] IN
        IF ~ValidVersion(v)
        THEN failed' = "thrown" /\ fetched' = Absent
        ELSE IF v.int + 1 \notin DOMAIN registry \/ GetSchemaTypeName(s.code) = {}
        THEN failed' = "rejected" /\ fetched' = Absent
        ELSE /\ failed' = "none"
             /\ fetched' \in {NewObject(t, s) : t \in GetSchemaTypeName(s.code)}
  /\ UNCHANGED registry

Next ==
  \/ \E o \in Given : Register(o)
  \/ \E s \in Foreign : RegisterForeign(s)
  \/ \E v \in Versions : GetSchemaInfo(v)
  \/ RegisterFetched

Spec == Init /\ [][Next]_vars

-----------------------------------------------------------------------------
\* Properties.

\* What getSchemaInfo() resolves with is the schema that is registered as the
\* very number it was called with, byte for byte and under its own type.
FetchedAsRegistered ==
  fetched # Absent =>
    /\ asked.whole /\ asked.int + 1 \in DOMAIN registry
    /\ LET s == registry[asked.int + 1] IN
         /\ SCHEMA_TYPE[fetched.schemaType] = s.code
         /\ fetched.name = s.name /\ Data(fetched.schema) = s.data
         /\ fetched.properties = s.properties

\* A fetched schema is accepted back as it is: giving it to a producer reuses
\* the version that it came from, and never throws.
ReuseStep == RegisterFetched => registry' = registry /\ failed' = "none"
FetchedReused == [][ReuseStep]_vars
=============================================================================
