SPECIFICATION Spec
CONSTANTS
  c1 = c1
  c2 = c2
  c3 = c3
  Root = Root
  User = User
  NoAccount = NoAccount
  NoOrder = NoOrder
  Calls <- Three
  MaxAttempts = 2
SYMMETRY Interchangeable
INVARIANTS
  SessionsCurrent
  TokensStand
  OneSysPerOwner
  CreatedIsUsable
  NothingLeft
  RefusedHasWorker
CHECK_DEADLOCK FALSE
