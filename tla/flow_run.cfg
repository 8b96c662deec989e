SPECIFICATION FairSpec
CONSTANTS
  a = a
  b = b
  c = c
  Node <- MCNode3
  Link <- MCTriangle
  Data <- MCData3
  Order <- MCOrder3
  Woken <- MCBehind
  Timeouts = FALSE
  Modes <- MCPost
  Calls <- MCRun
  MaxStarts = 1
  MaxStops = 0
  SizeLimit = 8
INVARIANTS CountAccurate NoDataLeft FinishedInTurn
PROPERTIES TemporalOrder NoMoreIsFinal ExecutionEnds WaitReturns
CHECK_DEADLOCK FALSE
