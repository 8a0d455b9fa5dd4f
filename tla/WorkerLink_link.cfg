SPECIFICATION FairSpec
ACTION_CONSTRAINT Apart
CONSTANTS
  c1 = c1
  c2 = c2
  Commands <- Two
  Workers = {"docker", "sys"}
  OutboundRoom = 1
  AckRoom = 1
  ControlRoom = 1
  WireRoom = 1
  MaxFaults = 1
INVARIANTS
  NotOverdue
CHECK_DEADLOCK FALSE
PROPERTIES
  HeartbeatsGo
  DeathNoticed
  ServedAgain
  CommandsResolved
