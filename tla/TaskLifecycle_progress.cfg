SPECIFICATION FairSpec
ACTION_CONSTRAINT Apart
CONSTANTS
  s1 = s1
  s2 = s2
  k1 = k1
  req = req
  NoRequest = NoRequest
  NoTask = NoTask
  Submits <- Pair
  RequestOf <- PairRequest
  ModeOf <- AutoSync
  Cancels <- OneCancel
  MaxFaults = 1
  MaxCrashes = 1
PROPERTIES
  ImplementsTaskBook
  CallsReturn
  TasksEnd
CHECK_DEADLOCK FALSE
