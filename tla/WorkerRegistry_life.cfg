SPECIFICATION FairSpec
CONSTANTS
  c1 = c1
  c2 = c2
  d1 = d1
  NoSession = NoSession
  Conns <- TwoConns
  Deletes <- OneDelete
  MaxFaults = 2
  MaxRestarts = 1
INVARIANTS
  UnmappedIsClosed
  ProvisionedKept
PROPERTIES
  ImplementsSessionLife
  ReplacedCloses
CHECK_DEADLOCK FALSE
