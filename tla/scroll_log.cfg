SPECIFICATION Spec
CONSTANTS
  Value <- MCValue
  NoValue = 0
  Padding = 0
  Users <- MCInOrder
  MaxData = 6
INVARIANTS EndsAgree
PROPERTIES IsLog
CHECK_DEADLOCK FALSE
