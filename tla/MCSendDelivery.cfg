CONSTANTS
    m1 = m1  m2 = m2  d1 = d1  d2 = d2
    Send <- TwoSends
    Redrive <- TwoRedrives
    NoRun = NoRun
    MAX_ACK_REDRIVES = 3
    MaxCrashes = 2
    MaxThrows = 1
SPECIFICATION FairSpec
INVARIANTS
    TypeOK
    NoSilentLoss
    RedriveCovered
    RunsAreAccounted
    DuplicateIsKept
PROPERTIES
    ObligationSettles
CHECK_DEADLOCK FALSE
