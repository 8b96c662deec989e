SPECIFICATION Spec
CONSTANTS
  x = x
  P = P
  plot = plot
  logger = logger
  monitor = monitor
  Pins <- MCPins
  Nodes <- MCNodes
  Links <- MCLinks
  Uses <- MCUses
  Batches <- MCBatches
  MaxChanges = 3
  MaxPolls = 1
  MaxClears = 1
INVARIANTS TypeOK CounterJustified
PROPERTIES WriterProceeds
CHECK_DEADLOCK FALSE
