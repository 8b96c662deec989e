SPECIFICATION Spec
CONSTANTS
  a = a
  b = b
  d = d
  c1 = c1
  c2 = c2
  NoNode = NoNode
  Node <- MCNode2
  Client <- MCClient2
  Deps <- MCDeps
  FlowLinks <- MCFlowBack
  Requests <- MCMenu
  MaxCalls = 2
SYMMETRY Symmetry
INVARIANTS TypeOK WorkerOwnsTransient NoStaleReinit RequestKept
CHECK_DEADLOCK FALSE
