SPECIFICATION Spec
CONSTANTS
  Task <- OfEveryClass
  NoTask = NoTask
  WatchdogMs = 2
  WatchdogGraceMs = 1
  AgeCap = 4
  MaxClockSteps = 1
INVARIANT TypeOK
INVARIANT QueueIsSound
INVARIANT TimersCover
INVARIANT WaitBounded
PROPERTY DrainIsBarrier
PROPERTY ImplementsExclusiveRuns
