\* A full run and a forced one that overlap, one fault.
SPECIFICATION Spec
CONSTANTS
  Full = Full
  Forced = Forced
  DayLen = 2
  SonInterval = 1
  SonWindow = 2
  DailyDays = 2
  MaxNow = 4
  MaxFaults = 1
INVARIANTS
  TypeOK
  RestorePoints
  RecentKept
CHECK_DEADLOCK FALSE
