CONSTANTS
    a = a  b = b  c = c
    Roster <- ThreeMembers
    User = User
    Pass = Pass
    UserContent <- NameOneOrAll
    Output <- Handoffs
    GROUP_MAX_ROUNDS = 2
    GROUP_MAX_MEMBER_TURNS = 4
    GROUP_MAX_MESSAGES_PER_TURN = 2
    GROUP_PROMPT_HISTORY_LIMIT = 6
    MaxSends = 2
SPECIFICATION Spec
INVARIANTS
    TurnIsBounded
    HeardByThoseCalled
    NoBystanderWoken
PROPERTIES
    RoomTurnEnds
CHECK_DEADLOCK FALSE
CONSTRAINT ShortOverlap
