SPECIFICATION FairSpec
CONSTANTS
  Requests = {r1, r2, r3}
  QueueSize = 1
INVARIANTS
  NoSendOnClosedChannel
  QueueOutlivesWorker
PROPERTIES
  StopsUnlessStuck
  AcceptedJobIsTaken
CHECK_DEADLOCK FALSE
