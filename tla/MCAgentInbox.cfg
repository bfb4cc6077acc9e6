SPECIFICATION FairSpec
CONSTANTS
  MaxMessages = 3
  MaxTurns = 1
  MaxStops = 1
INVARIANTS
  QueuesAreSound
  FlagIsExact
  ShownOnceRunTwice
PROPERTY EveryMessageEnds
CHECK_DEADLOCK FALSE
