SPECIFICATION FairSpec
ACTION_CONSTRAINT Apart
CONSTANTS
  c1 = c1
  c2 = c2
  c3 = c3
  c4 = c4
  p1 = p1
  s1 = s1
  s2 = s2
  NoSession = NoSession
  NoBox = NoBox
  Calls <- Mixed
  Ids <- TwoSessions
  IdOf <- MixedIds
  KindOf <- MixedKinds
  Removable <- First
INVARIANTS
  HeldSessions
  NothingLeaks
  PythonTruthful
PROPERTIES
  LeaseKept
  ContainersGo
CHECK_DEADLOCK FALSE
