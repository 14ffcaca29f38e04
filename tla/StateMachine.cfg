SPECIFICATION FairSpec
CONSTANTS
  States = {s1, s2, s3}
  Producers = {p1, p2}
  Unknown = Unknown
  NoEvent = NoEvent
  Forces = {FALSE, TRUE}
  MaxPuts = 3
INVARIANTS StackUnique ChangeReachesTarget NoOtherMissedWakeup
PROPERTIES ImplementsEventLoop TakenUnlessMissed StopAfterFinish
