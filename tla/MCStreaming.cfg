SPECIFICATION FairSpec
CONSTANTS
  Tasks = {t1}
  Task = t1
  Messages = {m1}
  Artifacts = {}
  ArtifactID <- MCArtifactID
  Configs = {}
  StreamEvents <- MCEvents
  Subs = {s1}
  Limit = 5
  ChanCap = 2
  MaxEvents = 5
INVARIANTS
  NoEventSkipped
PROPERTIES
  EventsDelivered
  StreamCloses
  WaitReturns
CHECK_DEADLOCK FALSE
