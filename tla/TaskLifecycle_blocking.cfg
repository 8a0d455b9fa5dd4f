SPECIFICATION FairSpec
CONSTANTS
  s1 = s1
  s2 = s2
  k1 = k1
  req = req
  NoRequest = NoRequest
  NoTask = NoTask
  Submits <- Single
  RequestOf <- SingleRequest
  ModeOf <- SingleSync
  Cancels <- NoCancel
  MaxFaults = 1
  MaxCrashes = 0
INVARIANTS
  SyncCompletes
CHECK_DEADLOCK FALSE
