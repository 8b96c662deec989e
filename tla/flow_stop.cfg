SPECIFICATION Spec
CONSTANTS
  a = a
  b = b
  c = c
  Node <- MCNode2
  Link <- MCLine
  Data <- MCData2
  Order <- MCOrder2
  Woken <- MCNode2
  Timeouts = TRUE
  Modes <- MCAnyMode
  Calls <- MCRun
  MaxStarts = 2
  MaxStops = 0
  SizeLimit = 8
INVARIANTS TypeOK QuietOutsideRun
PROPERTIES StopHolds
CHECK_DEADLOCK FALSE
