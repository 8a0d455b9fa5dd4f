SPECIFICATION Spec
CONSTANTS
  a = a
  b = b
  a1 = a1
  a2 = a2
  b1 = b1
  c1 = c1
  c2 = c2
  c3 = c3
  shell = shell
  None = None
  Terminals <- OneTerminal
  Nodes <- TwoNodes
  NodeOf <- ConnNode
  Connected <- TwoConns
  Conns <- ThreeConns
  Deletable <- OnlyB
  Calls <- ThreeCalls
  TerminalOf <- TwoShells
  MaxInflight <- TwoAndOne
INVARIANTS
  IndexAgrees
  SlotsHeld
  Sticky
  RouteTraced
  RefusalExplained
ACTION_CONSTRAINT Apart
SYMMETRY ShellSymmetry
CHECK_DEADLOCK FALSE
