-------------------------- MODULE ClientConstruction --------------------------
(***************************************************************************)
(* The constructor of Client: one service URL, or a provider with a        *)
(* primary and secondary services to fail over to, each with an            *)
(* authentication and certificates of its own or those of the client; and  *)
(* what the constructed object answers for afterwards.  The Client keeps   *)
(* the Authentication objects that its C++ client uses, and the logger of  *)
(* the process, which the first C++ client sets once and for all, reads    *)
(* the level to log at inside the Client object it was made for.           *)
(***************************************************************************)
EXTENDS JsNumbers, JsObjects, FiniteSets

CONSTANTS
  Clients,          \* the Client objects
  Authentications,  \* Authentication objects of the program
  Configs,          \* configurations that the program gives
  Levels,           \* log levels, numbers
  DefaultNumber,    \* what the C++ client has for a number that is not given
  Absent, NoNumber, \* no value; a value that is no number
  Disabled,         \* no authentication
  NoClient          \* no logger is set

\* What a program gives as a service or a provider: a string has no properties.
IsService(s) ==
  /\ s.tls \in {Absent, "own", "bad"}
  /\ s.form # "object" => s.auth = Absent /\ s.tls = Absent
IsProvider(p) ==
  /\ p.primary # Absent => IsService(p.primary)
  /\ p.secondary # Absent =>
       /\ p.secondary \in Seq({p.secondary[i] : i \in DOMAIN p.secondary})
       /\ \A i \in DOMAIN p.secondary : IsService(p.secondary[i])
  /\ p.number \in Numbers \cup {NoNumber, Absent}

\* What the constants have to be.
ClientAssumption ==
  /\ NoClient \notin Clients /\ Levels \subseteq Int
  /\ Absent \notin Authentications \cup {"own"}
  /\ \A k \in Configs : k.provider.form # "absent" => IsProvider(k.provider)

VARIABLES
  object,    \* [Clients -> "none", "thrown", "alive" or "collected"]
  client,    \* [Clients -> the C++ client: "none", "alive" or "freed"]
  conf,      \* [Clients -> the configuration it was constructed with]
  authRefs,  \* [Clients -> the Authentications its authRefs_ keep]
  services,  \* [Clients -> the services of its C++ client, the primary first]
  numbers,   \* [Clients -> the failover numbers of its C++ client]
  gone,      \* the Authentication objects that were collected
  logger,    \* the Client whose level the process's logger reads, or NoClient
  logged     \* the last use of the logger: [level, verdict]

vars == <<object, client, conf, authRefs, services, numbers, gone, logger, logged>>

NumberNames == {"checkIntervalMs", "failoverThreshold", "switchBackThreshold"}

Init ==
  /\ object = [c \in Clients |-> "none"]
  /\ client = [c \in Clients |-> "none"]
  /\ conf = [c \in Clients |-> Absent]
  /\ authRefs = [c \in Clients |-> {}]
  /\ services = [c \in Clients |-> << >>]
  /\ numbers = [c \in Clients |-> << >>]
  /\ gone = {}
  /\ logger = NoClient
  /\ logged = [level |-> 0, verdict |-> "none"]

-----------------------------------------------------------------------------
\* Slips of the kind that the properties below are there to catch; no action
\* of the specification uses them.

\* References only to the client's own authentication.
OnlyDefaultRef(k) == {k.auth} \cap Authentications

\* A number that is converted before it is checked.
CheckConverted(n) == n # Absent => n # NoNumber /\ Uint32Value(n) > 0

\* An object that does not inherit what the client has.
NoInheritance(s, d) ==
  [auth |-> IF s.form = "object" THEN IF s.auth = Absent THEN Disabled ELSE s.auth ELSE d.auth,
   tls |-> IF s.form = "object" /\ s.tls # Absent THEN s.tls ELSE d.tls]

\* A logger that is set before the constructor has checked everything.
ThrowsAfterLogger(c, k) ==
  /\ object[c] = "none"
  /\ object' = [object EXCEPT ![c] = "thrown"]
  /\ conf' = [conf EXCEPT ![c] = k]
  /\ logger' = IF logger = NoClient THEN c ELSE logger
  /\ UNCHANGED <<client, authRefs, services, numbers, gone, logged>>

-----------------------------------------------------------------------------
\* Parts of the constructor.

\* BuildAuthenticationPtr: an object with a binding that is an Authentication.
IsAuthentication(a) == a \in Authentications

\* BuildServiceInfo, without an error ...
ServiceOk(s) ==
  /\ s.form \in {"string", "object"}
  /\ s.url = "ok"
  /\ s.form = "object" => /\ s.auth # Absent => IsAuthentication(s.auth)
                          /\ s.tls # "bad"

\* ... and what it returns, with the client's own for what is missing.
ServiceInfo(s, d) ==
  [auth |-> IF s.form = "object" /\ s.auth # Absent THEN s.auth ELSE d.auth,
   tls |-> IF s.form = "object" /\ s.tls # Absent THEN s.tls ELSE d.tls]

\* SetPositiveUint32, without an error.
PositiveUint32(n) ==
  n # Absent => n # NoNumber /\ Int64Value(n) > 0 /\ Int64Value(n) <= MaxUint32
SetPositiveUint32(n) == IF n = Absent THEN DefaultNumber ELSE Uint32Value(Int64Value(n))

\* BuildServiceInfoProvider, without an error.
ProviderOk(p) ==
  /\ p.form = "object"
  /\ p.primary # Absent /\ ServiceOk(p.primary)
  /\ p.secondary # Absent /\ p.secondary # << >>
  /\ \A i \in DOMAIN p.secondary : ServiceOk(p.secondary[i])
  /\ PositiveUint32(p.number)

\* Exactly one of serviceUrl and serviceUrlProvider, and a URL that is one.
HasUrl(k) == k.url # Absent
HasProvider(k) == k.provider.form # "absent"
UrlsOk(k) == /\ HasUrl(k) # HasProvider(k)
             /\ HasUrl(k) => k.url = "ok"

\* The client's own authentication: an object without a binding is passed over,
\* one with a binding that is no Authentication is an error.
DefaultAuth(k) == IF IsAuthentication(k.auth) THEN k.auth ELSE Disabled

ConfigOk(k) == /\ UrlsOk(k)
               /\ k.auth # "foreign"
               /\ HasProvider(k) => ProviderOk(k.provider)

\* The services of a provider, the primary first.
GivenServices(p) == <<p.primary>> \o p.secondary

Services(k) ==
  LET d == [auth |-> DefaultAuth(k), tls |-> k.tls] IN
  IF HasUrl(k) THEN <<d>>
  ELSE [i \in DOMAIN GivenServices(k.provider) |-> ServiceInfo(GivenServices(k.provider)[i], d)]

\* authRefs_: BuildAuthenticationPtr adds every object that it takes a pointer from.
AuthRefs(k) ==
  ({k.auth} \cap Authentications) \cup
  (IF HasUrl(k) THEN {}
   ELSE {s.auth : s \in {GivenServices(k.provider)[i] : i \in {j \in DOMAIN GivenServices(k.provider) :
                            GivenServices(k.provider)[j].form = "object"}}} \cap Authentications)

\* The process's logger is set once, by the first C++ client that is created.
SetLogger(c) == IF logger = NoClient THEN c ELSE logger

-----------------------------------------------------------------------------
\* new Client(k) succeeds ...
New(c, k) ==
  /\ object[c] = "none" /\ ConfigOk(k) /\ AuthRefs(k) \cap gone = {}
  /\ object' = [object EXCEPT ![c] = "alive"]
  /\ client' = [client EXCEPT ![c] = "alive"]
  /\ conf' = [conf EXCEPT ![c] = k]
  /\ authRefs' = [authRefs EXCEPT ![c] = AuthRefs(k)]
  /\ services' = [services EXCEPT ![c] = Services(k)]
  /\ numbers' = [numbers EXCEPT ![c] =
       IF HasProvider(k) THEN [n \in NumberNames |-> SetPositiveUint32(k.provider.number)] ELSE << >>]
  /\ logger' = SetLogger(c)
  /\ UNCHANGED <<gone, logged>>

\* ... or throws, for its configuration or because the C++ client could not be
\* created; the object is of no use then.
NewThrows(c, k) ==
  /\ object[c] = "none"
  /\ object' = [object EXCEPT ![c] = "thrown"]
  /\ conf' = [conf EXCEPT ![c] = k]
  /\ UNCHANGED <<client, authRefs, services, numbers, gone, logger, logged>>

Construct(c, k) == New(c, k) \/ (~ConfigOk(k) /\ NewThrows(c, k))
CreateFails(c, k) == ConfigOk(k) /\ NewThrows(c, k)

\* A Client object that nobody needs is collected; asynchronous calls may keep
\* its C++ client for a while.
CollectClient(c) ==
  /\ object[c] = "alive"
  /\ object' = [object EXCEPT ![c] = "collected"]
  /\ authRefs' = [authRefs EXCEPT ![c] = {}]
  /\ UNCHANGED <<client, conf, services, numbers, gone, logger, logged>>
FreeClient(c) ==
  /\ object[c] = "collected" /\ client[c] = "alive"
  /\ client' = [client EXCEPT ![c] = "freed"]
  /\ UNCHANGED <<object, conf, authRefs, services, numbers, gone, logger, logged>>

\* An Authentication that the program has dropped and no Client keeps.
CollectAuthentication(a) ==
  /\ a \notin gone /\ \A c \in Clients : a \notin authRefs[c]
  /\ gone' = gone \cup {a}
  /\ UNCHANGED <<object, client, conf, authRefs, services, numbers, logger, logged>>

\* A thread of a C++ client asks whether to log at a level: is_enabled.
IsEnabled(c, l) ==
  /\ client[c] = "alive" /\ logger # NoClient
  /\ logged' = [level |-> l,
                verdict |-> IF object[logger] # "alive" THEN "stale"
                            ELSE IF l >= conf[logger].level THEN "on" ELSE "off"]
  /\ UNCHANGED <<object, client, conf, authRefs, services, numbers, gone, logger>>

Next ==
  \/ \E c \in {d \in Clients : object[d] = "none"} :
       \E k \in Configs : Construct(c, k) \/ CreateFails(c, k)
  \/ \E c \in Clients : CollectClient(c) \/ FreeClient(c) \/ \E l \in Levels : IsEnabled(c, l)
  \/ \E a \in Authentications : CollectAuthentication(a)

Spec == Init /\ [][Next]_vars

-----------------------------------------------------------------------------
\* Properties.

\* Whatever service a client fails over to, the Authentication object that the
\* service uses is there for as long as the Client is.
UsedAuthKept ==
  \A c \in Clients : object[c] = "alive" =>
    \A i \in DOMAIN services[c] :
      services[c][i].auth # Disabled => services[c][i].auth \notin gone

\* A client has the services of its configuration, one for one: each with the
\* authentication and the certificates that it names, else the client's.  The
\* failover numbers are the program's own: one that is not positive or does not
\* fit 32 bits is refused, and never wraps into one that does.
ServicesAsConfigured ==
  \A c \in Clients : client[c] # "none" =>
    LET k == conf[c]
        s == services[c]
        given == IF HasUrl(k) THEN <<Service("string", "ok", Absent, Absent)>>
                 ELSE GivenServices(k.provider)
    IN /\ Len(s) = Len(given)
       /\ \A i \in DOMAIN s :
            /\ s[i].auth = IF given[i].auth \in Authentications THEN given[i].auth
                           ELSE IF k.auth \in Authentications THEN k.auth ELSE Disabled
            /\ s[i].tls = IF given[i].tls = "own" THEN "own" ELSE k.tls
       /\ HasProvider(k) =>
            \A n \in NumberNames :
              IF k.provider.number = Absent THEN numbers[c][n] = DefaultNumber
              ELSE numbers[c][n] = k.provider.number /\ numbers[c][n] \in 1 .. MaxUint32

\* One level rules for the whole process, that of the first client that was
\* created: as long as that Client is there every client logs at its level, and
\* the level is never read from a Client that was not created.  (Once it has been
\* collected, the logger reads what is left of it.)
LevelStep ==
  /\ logger # NoClient => logger' = logger
  /\ logged' # logged =>
       /\ client[logger] # "none"
       /\ IF object[logger] = "alive"
          THEN logged'.verdict = IF logged'.level >= conf[logger].level THEN "on" ELSE "off"
          ELSE object[logger] = "collected"
FirstLevelRules == [][LevelStep]_vars
=============================================================================
