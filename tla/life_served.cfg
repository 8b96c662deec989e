SPECIFICATION FairSpec
CONSTANTS
  a = a
  b = b
  d = d
  c1 = c1
  c2 = c2
  NoNode = NoNode
  Node <- MCNode1
  Client <- MCClient2
  Deps <- MCNoDeps
  FlowLinks <- MCNoDeps
  Requests <- MCNoDisable
  MaxCalls = 3
PROPERTIES StatesServed ReinitServed CallsReturn
CHECK_DEADLOCK FALSE
