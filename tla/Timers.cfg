SPECIFICATION TimersFairSpec
CONSTANTS
  Ids = {t1, t2}
  Times = {0, 1}
  Main = main
  Worker = worker
  None = none
  MaxStarts = 3
  MaxExpiries = 2
INVARIANTS OneEventPerStart StuckOnlyOnOverlap
PROPERTY SignalHandled
CHECK_DEADLOCK FALSE
