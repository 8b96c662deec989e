SPECIFICATION Spec
CONSTANTS
  x = x
  P = P
  plot = plot
  logger = logger
  monitor = monitor
  Pins <- MCPins
  Nodes <- MCLogger
  Links <- MCOneLink
  Uses <- MCGets
  Batches <- MCOnePin
  MaxChanges = 3
  MaxPolls = 0
  MaxClears = 0
INVARIANTS NoEditingWhileRead
CHECK_DEADLOCK FALSE
