SPECIFICATION Spec
CONSTANTS
  a = a
  b = b
  a1 = a1
  a2 = a2
  b1 = b1
  c1 = c1
  c2 = c2
  c3 = c3
  shell = shell
  None = None
  Terminals <- OneTerminal
  Nodes <- TwoNodes
  NodeOf <- ConnNode
  Connected <- TwoConns
  Conns <- TwoConns
  Deletable <- NoNode
  Calls <- ThreeCalls
  TerminalOf <- AllPlain
  MaxInflight <- TwoAndOne
INVARIANTS
  RefusedOnlyIfFull
SYMMETRY CallSymmetry
CHECK_DEADLOCK FALSE
