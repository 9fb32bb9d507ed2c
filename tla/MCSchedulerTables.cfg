SPECIFICATION Spec
CONSTANTS
  Tables <- TwoTables
  WINDOW = 2
  StartTimes = {0, 2, 6}
  Cycles = {0, 2}
  MaxTime = 4
  MaxRequests = 3
INVARIANTS
  ScheduleIsWhole
  WrittenTableIsFree
PROPERTIES
  StartInWindow
  StartEventuallyWritten
  CleanupEnds
CHECK_DEADLOCK FALSE
