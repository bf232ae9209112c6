SPECIFICATION FileSpec
CONSTANTS
  Handles = {h1}
  ContentLen = 1
  MaxBytes = 2
  MaxPutFails = 0
INVARIANTS
  ReadersReachTheEnd
CHECK_DEADLOCK FALSE
