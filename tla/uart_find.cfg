SPECIFICATION Spec
CONSTANTS
  Streams <- MCStreams
  Capacity <- MCCapacity
  MaxAscii = 12
  MaxRewinds = 1
INVARIANTS TypeOK FoundWereSent HeardIsFound Recovers
CHECK_DEADLOCK FALSE
