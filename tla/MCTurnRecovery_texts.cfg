CONSTANTS
    m1 = m1  m2 = m2  m3 = m3  m4 = m4
    Send <- FourSends
    Shape <- Texts
    NoSend = NoSend
    Blank = Blank
    MaxPrependedUserMessages = 5
    MaxFailures = 1
SPECIFICATION Spec
SYMMETRY Interchangeable
INVARIANTS
    AgentKnows
PROPERTIES
    SkipsAreCarried
CHECK_DEADLOCK FALSE
