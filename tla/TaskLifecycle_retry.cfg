SPECIFICATION Spec
CONSTANTS
  s1 = s1
  s2 = s2
  k1 = k1
  req = req
  NoRequest = NoRequest
  NoTask = NoTask
  Submits <- Pair
  RequestOf <- PairRequest
  ModeOf <- SyncAsync
  Cancels <- OneCancel
  MaxFaults = 2
  MaxCrashes = 0
INVARIANTS
  ActiveHasDriver
  RuntimeHasFinisher
  WaiterHasRuntime
  AnswersStand
  RetriesJoin
  SyncCompletesUnlessFault
CHECK_DEADLOCK FALSE
