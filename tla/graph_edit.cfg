SPECIFICATION Spec
CONSTANTS
  Slots <- MCSlots
  MaxId = 99
  MaxEdits = 4
  Sessions <- MCSessions
INVARIANTS TypeOK EndsAgree UniqueIds
PROPERTIES LoadRestores PasteLinksCopies
CHECK_DEADLOCK FALSE
