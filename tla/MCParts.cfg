SPECIFICATION MCSpec
CONSTANTS
  Tasks = {t1}
  Messages = {m1}
  Artifacts = {}
  ArtifactID <- MCArtifactID
  Configs = {c1}
  Procs = {p1, p2}
  UpdateStates = {"completed", "canceled"}
  PushEnabled = TRUE
  NoTask = NoTask
  FaultKinds = {"crash", "storage"}
  MaxVersion = 3
  MaxFaults = 1
  Handles = {h1, h2}
  ContentLen = 1
  MaxBytes = 2
  MaxPutFails = 1
  rpc = rpc
  profile = profile
  data = data
  Requests = {r1, r2}
  Extensions = {rpc, profile, data}
  ExtKind <- MCExtKind
  HandlerConfigs <- MCConfigs
  Hooks <- MCHooks
  Supported <- MCSupported
  Methods <- MCMethods
  MaxExts = 2
  MaxEvents = 2
  Window = 2
  MaxHistory = 3
  Users = {u1, u2}
  Added = {x, y}
  MaxRuns = 2
  Providers = {"bedrock", "openai", "ollama"}
  Tools = {a}
  MaxSteps = 2
  MaxCalls = 2
  MaxFails = 2
  Files = {f}
  TaskArtifacts = {b}
  MaxMessages = 2
  MaxBlocks = 2
  MaxBuilds = 1
SYMMETRY MCS3Symmetry
INVARIANTS
  UpdatedIsListed
  UnracedInStep
  ReadersSeeContent
  AnsweredOnce
  CalledOnlyIfAdmitted
  CompletionIsRemote
  EarlyConfigurationIsServed
  ListeningIsStarted
  CallsAreAnswered
  HistoryInStep
  ToolsRunOnce
  ReferencesResolve
PROPERTIES
  UnracedIsLedger
  WritersStoreAll
CHECK_DEADLOCK FALSE
