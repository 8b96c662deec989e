SPECIFICATION Spec
CONSTANTS
  a = a
  b = b
  c = c
  Node <- MCNode2
  Link <- MCLine
  Data <- MCData2
  Order <- MCOrder2
  Woken <- MCNone
  Timeouts = FALSE
  Modes <- MCPost
  Calls <- MCRun
  MaxStarts = 1
  MaxStops = 0
  SizeLimit = 8
INVARIANTS FinishedWithData
CHECK_DEADLOCK FALSE
