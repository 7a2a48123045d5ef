------------------------------ MODULE JsObjects ------------------------------
(***************************************************************************)
(* The JavaScript objects that a program gives: services and providers of  *)
(* a client, ranges of a consumer, schemas.  What an object may lack, or   *)
(* have of another type than the code asks for, is a field of the record.  *)
(***************************************************************************)
EXTENDS Integers, Sequences

\* A service is a string, an object or something else; a provider is an object
\* with all its parts or something else.
Service(f, u, a, t) == [form |-> f, url |-> u, auth |-> a, tls |-> t]
Provider(f, p, s, n) == [form |-> f, primary |-> p, secondary |-> s, number |-> n]
Config(u, p, a, t, l) == [url |-> u, provider |-> p, auth |-> a, tls |-> t, level |-> l]

\* An element of stickyRanges: an object with two numbers or without, or no object.
KeyRange(s, e) == [kind |-> "range", start |-> s, end |-> e]
Incomplete == [kind |-> "incomplete", start |-> 0, end |-> 0]
NoObject == [kind |-> "other", start |-> 0, end |-> 0]

\* A schema, whose data are a string or a Buffer, and the types that it may name.
SchemaObject(t, n, s, p) == [schemaType |-> t, name |-> n, schema |-> s, properties |-> p]
JsString(d) == [form |-> "string", data |-> d]
JsBuffer(d) == [form |-> "buffer", data |-> d]

SCHEMA_TYPE ==
  [None |-> 0, String |-> 1, Json |-> 2, Protobuf |-> 3, Avro |-> 4, Boolean |-> 5,
   Int8 |-> 6, Int16 |-> 7, Int32 |-> 8, Int64 |-> 9, Float32 |-> 10, Float64 |-> 11,
   KeyValue |-> 15, ProtobufNative |-> 20, Bytes |-> -1, AutoConsume |-> -3, AutoPublish |-> -4]
TypeNames == DOMAIN SCHEMA_TYPE

\* A schema as the C++ client has it.
Info(c, n, d, p) == [code |-> c, name |-> n, data |-> d, properties |-> p]
=============================================================================
