SPECIFICATION ScheduleSpec
CONSTANTS
  Day = 16
  Change = 20
  Gap = 2
  Probe = 6
  Hours = {0, 4, 5, 6, 9, 15}
  Hard <- MCHard
  Default <- MCDefault
  Windows <- MCWindows
  Zones = {"fixed", "spring", "fall", "corrupt"}
  MaxLag = 1
  MaxEdits = 1
INVARIANTS
  NextOpenIsEarliest
  SavedInsideBound
PROPERTIES
  CallInsideHardBound
  JobIsCalled
\* A job that has been called is done; the clock runs on.
