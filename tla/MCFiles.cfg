SPECIFICATION FilesSpec
CONSTANTS
  Days = {1, 2, 3}
  MonthOf <- MCMonthOf
  MDayOf <- MCMDayOf
  NoPath = NoPath
  NoList = NoList
  MaxClock = 3
  MaxRuns = 2
  MaxFailures = 1
  MaxDeletes = 2
INVARIANTS ListInSync OpenFileKept LineInItsFile
CHECK_DEADLOCK FALSE
