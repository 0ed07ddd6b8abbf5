SPECIFICATION FairSpec
CONSTANTS
  BatchLimit = 3
  Window = 4
  Flush = TRUE
  MaxTurns = 8
INVARIANTS TypeOK OneBatch BatchHasStore RunningIsAlive RequestIsTracked EndReadsWindow
PROPERTY RequestIsServed
CHECK_DEADLOCK FALSE
