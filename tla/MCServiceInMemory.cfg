SPECIFICATION FairSvcSpec
CONSTANTS
  Tasks = {t1}
  Messages = {m1}
  Artifacts = {}
  ArtifactID <- MCArtifactID
  Configs = {}
  Procs <- MCProcs
  PushEnabled = FALSE
  NoTask = NoTask
  NoProc = NoProc
  UpdateStates = {"working", "completed", "failed", "canceled", "input-required"}
  AgentStates = {"input-required", "completed"}
  StatusErrors = {"input-required"}
  Workers = {w1}
  Clients = {c1, c2}
  Durable = FALSE
  UseLocker = FALSE
  ClientOps = {"create", "cancel"}
  QueueSize = 1
  CanClose = FALSE
  FaultKinds = {}
  MaxFaults = 0
  MaxVersion = 9
  MaxAgentUpdates = 2
  MaxOps = 1
PROPERTIES
  BlockingSendReturns
  CancellationReachesAgent
CHECK_DEADLOCK FALSE
