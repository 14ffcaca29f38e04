SPECIFICATION LifecycleSpec
CONSTANTS
  N = 1
  Modes = {"child"}
  MaxSignals = 1
  MaxNotes = 0
INVARIANT LoggerOutlivesWeb
