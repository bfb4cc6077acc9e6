CONSTANTS
    a = a  b = b  c = c
    Roster <- TwoMembers
    User = User
    Pass = Pass
    UserContent <- NameOneOrAll
    Output <- OneOrTwoTexts
    GROUP_MAX_ROUNDS = 3
    GROUP_MAX_MEMBER_TURNS = 10
    GROUP_MAX_MESSAGES_PER_TURN = 2
    GROUP_PROMPT_HISTORY_LIMIT = 24
    MaxSends = 2
SPECIFICATION Spec
INVARIANTS
    RunsKnowingAll
CHECK_DEADLOCK FALSE
