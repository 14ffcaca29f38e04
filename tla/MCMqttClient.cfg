SPECIFICATION FairSpec
CONSTANTS
  MaxSize = 3
  MaxPublish = 4
  MaxLosses = 1
  Values <- MCValues
  Empty = 0
  Moves = TRUE
INVARIANTS SentInOrder NullOnlyByStop StoppedIsOffline
PROPERTIES QueuedIsTaken StopReturns
CHECK_DEADLOCK FALSE
