SPECIFICATION FairSpec
CONSTANTS
  Task <- OfEveryClass
  NoTask = NoTask
  WatchdogMs = 2
  WatchdogGraceMs = 1
  AgeCap = 4
  MaxClockSteps = 0
PROPERTY UserTaskStarts
PROPERTY CallersReleased
