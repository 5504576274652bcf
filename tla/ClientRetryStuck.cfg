SPECIFICATION Spec
CONSTANTS
    EnableReconnect = TRUE
    UserRejects = FALSE
    Modes = {"connect3"}
    Slots = {2}
    MaxAnswers = 2
INVARIANTS
    StillReconnecting
CHECK_DEADLOCK FALSE
