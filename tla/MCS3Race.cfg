SPECIFICATION S3Spec
CONSTANTS
  Tasks = {t1}
  Messages = {m1}
  Artifacts = {}
  ArtifactID <- MCArtifactID
  Configs = {c1}
  Procs = {p1, p2}
  UpdateStates = {"completed", "canceled"}
  PushEnabled = TRUE
  NoTask = NoTask
  FaultKinds = {"crash", "storage"}
  MaxVersion = 3
  MaxFaults = 0
SYMMETRY MCS3Symmetry
PROPERTIES
  CanceledOnS3
CHECK_DEADLOCK FALSE
