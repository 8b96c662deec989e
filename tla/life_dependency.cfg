SPECIFICATION Spec
CONSTANTS
  a = a
  b = b
  d = d
  c1 = c1
  c2 = c2
  NoNode = NoNode
  Node <- MCNode3
  Client <- MCClient1
  Deps <- MCDeps
  FlowLinks <- MCFlowBack
  Requests <- MCUpAndDown
  MaxCalls = 4
INVARIANTS DependencyHeld
PROPERTIES StatesFollowDiagram
CHECK_DEADLOCK FALSE
