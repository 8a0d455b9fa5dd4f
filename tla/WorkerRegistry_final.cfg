SPECIFICATION Spec
CONSTANTS
  c1 = c1
  c2 = c2
  d1 = d1
  NoSession = NoSession
  Conns <- TwoConns
  Deletes <- OneDelete
  MaxFaults = 0
  MaxRestarts = 0
INVARIANTS
  DeleteIsFinal
CHECK_DEADLOCK FALSE
