SPECIFICATION WakesFairSpec
CONSTANTS
  sub = sub  cloud = cloud  sh = sh
  Work <- OneOfEach
  KindOf <- Kinds
  MaxWakeFaults = 2
  MaxFollowups = 1
INVARIANTS
  MarkersAreRight
PROPERTIES
  GoneStaysQuiet
  Reported
CHECK_DEADLOCK FALSE
