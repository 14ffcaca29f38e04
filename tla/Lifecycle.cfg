SPECIFICATION LifecycleFairSpec
CONSTANTS
  N = 2
  Modes = {"child", "single"}
  MaxSignals = 2
  MaxNotes = 1
INVARIANTS ReleasedWhenUnused
PROPERTIES TermEnds FailedStartEnds
