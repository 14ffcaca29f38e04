SPECIFICATION FairSpec
CONSTANTS
  MaxSize = 3
  MaxLogs = 5
  Values <- MCValues
  Empty = 0
  Moves = TRUE
  Callers = {main, thread}
  Contents = {"absent", "levels", "other"}
INVARIANTS WrittenInOrder ReleaseKeepsMessages
PROPERTIES WrittenUnlessMissed ReleaseReturns
CHECK_DEADLOCK FALSE
