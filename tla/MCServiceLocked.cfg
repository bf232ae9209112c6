SPECIFICATION SvcSpec
CONSTANTS
  Tasks = {t1}
  Messages = {m1}
  Artifacts = {}
  ArtifactID <- MCArtifactID
  Configs = {}
  Procs <- MCProcs
  PushEnabled = FALSE
  NoTask = NoTask
  NoProc = NoProc
  UpdateStates = {"working", "completed", "failed", "canceled", "input-required"}
  AgentStates = {"input-required", "completed"}
  StatusErrors = {"input-required"}
  Workers = {w1, w2}
  Clients = {c1}
  Durable = TRUE
  UseLocker = TRUE
  ClientOps = {"create", "message", "cancel"}
  QueueSize = 1
  CanClose = TRUE
  FaultKinds = {"crash", "storage", "queue", "visibility"}
  MaxFaults = 2
  MaxVersion = 5
  MaxAgentUpdates = 1
  MaxOps = 2
SYMMETRY MCSymmetry
INVARIANTS
  StartedTaskHasJob
PROPERTIES
  TerminalNotRestarted
CHECK_DEADLOCK FALSE
