SPECIFICATION FairSvcSpec
CONSTANTS
  Tasks = {t1}
  Messages = {m1}
  Artifacts = {}
  ArtifactID <- MCArtifactID
  Configs = {}
  Procs <- MCProcs
  PushEnabled = FALSE
  NoTask = NoTask
  NoProc = NoProc
  UpdateStates = {"working", "completed", "failed", "canceled", "input-required"}
  AgentStates = {}
  StatusErrors = {}
  Workers = {w1, w2}
  Clients = {c1, c2}
  Durable = TRUE
  UseLocker = TRUE
  ClientOps = {"create", "message"}
  QueueSize = 1
  CanClose = FALSE
  FaultKinds = {"visibility"}
  MaxFaults = 1
  MaxVersion = 9
  MaxAgentUpdates = 0
  MaxOps = 1
INVARIANTS
  LiveTaskHasJob
PROPERTIES
  BlockingSendReturns
CHECK_DEADLOCK FALSE
