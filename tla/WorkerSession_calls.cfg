SPECIFICATION FairSpec
CONSTANTS
  c1 = c1
  c2 = c2
  exec = exec
  Commands <- TwoCommands
  Capabilities <- ExecOnly
  CapabilityOf <- TwoExec
  MaxInflight <- OneSlot
  OutboundCapacity = 1
INVARIANTS
  InflightAccounting
  ClosedAnswersAll
  OpenHasOwner
PROPERTIES
  ImplementsSlotPool
  CallsReturn
  ClosedSessionDrains
CHECK_DEADLOCK FALSE
