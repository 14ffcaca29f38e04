SPECIFICATION Spec
CONSTANTS
  Kinds = {"strip", "blinker", "inputs", "light", "dust"}
  Offers <- MCOffers
  Lengths = {2}
  MaxSleds = 2
  MaxMade = 2
  Ten = 2
  Settings <- MCSettings
  LoopDelay = 4
  Long = 2
  Wide = 8
  LedStart = FALSE
  MaxShown = 3
  Pins = {1}
  Edges = {"none", "both"}
  MaxChanges = 1
  Channels = {0, 1}
  LightInput = 0
  Readings = {1, 3}
  Diff = 1
  MaxSize = 1
  Window = 2
INVARIANTS NoWorkLeftAsleep FiguresAgree
PROPERTIES ReportsAreTrue WorkEnds StopEnds
CHECK_DEADLOCK FALSE
