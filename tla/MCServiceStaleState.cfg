SPECIFICATION SvcSpec
CONSTANTS
  Tasks = {t1}
  Messages = {m1}
  Artifacts = {}
  ArtifactID <- MCArtifactID
  Configs = {}
  Procs <- MCProcs
  PushEnabled = FALSE
  NoTask = NoTask
  NoProc = NoProc
  UpdateStates = {"working", "completed", "failed", "canceled", "input-required"}
  AgentStates = {"input-required", "completed"}
  StatusErrors = {"input-required"}
  Workers = {w1}
  Clients = {c1, c2}
  Durable = FALSE
  UseLocker = FALSE
  ClientOps = {"create", "message"}
  QueueSize = 1
  CanClose = FALSE
  FaultKinds = {}
  MaxFaults = 0
  MaxVersion = 6
  MaxAgentUpdates = 0
  MaxOps = 1
INVARIANTS
  InputIsTakenUp
CHECK_DEADLOCK FALSE
