CONSTANTS
  Gap = 4
  SeqWord = 4
  TimeWord = 10
  Backlog = 2
  MaxTime = 11
  MaxFrames = 5
SPECIFICATION Spec
INVARIANT LocalMediaInv
PROPERTIES TimestampsGrow InOrder
CHECK_DEADLOCK FALSE
