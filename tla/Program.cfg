SPECIFICATION ProgramSpec
CONSTANTS
  NaN = NaN
  W32 = 3
  W64 = 5
  Nothing = Nothing
  Idle = Idle
  Classes <- EveryClass
  MinAckTimeout = 3
  Limits <- SomeLimits
  Elements <- SomeElements
  MaxRanges = 2
  DefaultBytes = 3
  DefaultTimeout = 2
  k1 = k1
  k2 = k2
  k3 = k3
  a1 = a1
  a2 = a2
  FailoverClients <- OneClient
  FailoverConfigs <- ServiceConfigs
  LevelClients <- ThreeClients
  LevelConfigs <- PlainConfigs
  Authentications <- TwoAuthentications
  Levels <- ThreeLevels
  DefaultNumber = 5
  NoNumber = NoNumber
  Disabled = Disabled
  NoClient = NoClient
  m1 = m1
  m2 = m2
  Sends <- TwoSends
  NumPartitions = 2
  Answers <- SomeAnswers
  Given <- SomeGiven
  Foreign <- SomeForeign
  Versions <- SomeVersions
  MaxVersions = 2
  MaxSafe = 3
  MaxObjects = 2
  MaxCells = 5
  MaxBatch = 2
  Static = Static
  Null = Null
INVARIANTS
  ConfiguredAsGiven
  PolicyAsGiven
  ServicesAsConfigured
  UsedAuthKept
  RouterLivesAsProducer
  RoutedAsAsked
  FetchedAsRegistered
  ClientObjectsUsable
  LiveIffOwned
PROPERTIES
  FirstLevelRules
  FetchedReused
CHECK_DEADLOCK FALSE
