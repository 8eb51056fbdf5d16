\* The calls of a remote upstream, its auth repair, the process supervisor, tool
\* routing, the shared worker, rollouts, break glass, the configuration, and the commands
\* that rewrite the files of clients and projects.
SPECIFICATION OperationsSpec
CONSTANTS
  t1 = t1
  t2 = t2
  v1 = v1
  v2 = v2
  HttpThreads = {t1, t2}
  HttpClients = {c1, c2}
  HttpSessions = {s1, s2}
  NoHttp = NoHttp
  RetryAttempts = 1
  MaxHttpCalls = 3
  RepairThreads = {r1, r2}
  Nobody = Nobody
  MaxRepairedCalls = 2
  Keys = {k1}
  MaxAttempts = 2
  BackoffSeconds = 2
  IdleSeconds = 1
  MaxClock = 5
  MaxManual = 1
  Upstreams <- MCUpstreams
  MaxUpstreams = 2
  ProfileNames <- MCProfiles
  NoProfile = NoProfile
  Budgets = {3}
  WorkerTools = {"known"}
  MaxAbnormal = 2
  Brokers = {"b1", "b2"}
  Bundles = {v1, v2}
  NoBundle = NoBundle
  MaxRuns = 2
  BypassReasons = {"r1"}
  LastInstant = 3
  Payloads <- MCPayloads
  PathChoices <- MCPaths
  CapChoices = {NoCap, 0, 1, 2}
  NoCap = NoCap
  LayerKeys = {"a", "b", "c", "d", "e", "secret_ref"}
  LayerDocuments <- MCDocuments
  MaxLayers = 3
  EnvTargets = {"A", "B"}
  TimedTools = {"t"}
  Numbers = {0, 1, 301}
  MainFile = "main"
  Targets = {"main", "other"}
  BackupPaths <- MCBackupPaths
  Caches <- MCCaches
  BaseName <- MCBaseName
  UserSettings = {"x", "y"}
  Connectors = {"k", "l"}
  Disabled = {"k"}
  Labels = {2}
  LastClientSecond = 2
  MaxClientEvents = 3
  Absent = Absent
  Empty = Empty
  Unreadable = Unreadable
  ProjectEntries <- MCEntries
  PathOf <- MCPathOf
  ClaudePath = "claude"
  Servers = {"a", "b"}
  Convertible <- MCConvertible
  Profiled = {"a"}
  MaxProjectEdits = 1
  LastImportSecond = 1
INVARIANTS
  RetriesSafe
  
  RecordsSafe
  ConfigSafe
  
SYMMETRY Interchangeable
CHECK_DEADLOCK FALSE
