SPECIFICATION Spec
CONSTANTS
  Tasks = {t1}
  Messages = {m1}
  Artifacts = {a1, a2}
  ArtifactID <- MCArtifactID
  Configs = {c1}
  Procs = {p1, p2}
  UpdateStates = {"completed", "canceled"}
  PushEnabled = TRUE
  NoTask = NoTask
  FaultKinds = {"crash", "storage", "notify"}
  MaxVersion = 3
  MaxFaults = 1
SYMMETRY MCSymmetry
INVARIANTS
  TypeOK
  SaveNeverConflicts
  SnapshotInStep
  SnapshotReplays
  PushedIsSaved
  UpdateInv
PROPERTIES
  CanceledIsFinal
  WedgedForever
  ImplementsLedger
CHECK_DEADLOCK FALSE
