SPECIFICATION Spec
CONSTANTS
    EnableReconnect = FALSE
    UserRejects = FALSE
    Modes = {"connect3"}
    Slots = {}
    MaxAnswers = 2
INVARIANTS
    NoUseAfterFree
CHECK_DEADLOCK FALSE
