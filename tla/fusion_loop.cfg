\* The feedback loop of integrator and filter over five recordings.
SPECIFICATION FairSpec
CONSTANT Recordings <- MCRecordings
INVARIANTS TypeOK Corrected SyncInTime SyncEndIsFinal
PROPERTY LoopEnds
CHECK_DEADLOCK FALSE
