SPECIFICATION Spec
CONSTANTS
    EnableReconnect = FALSE
    UserRejects = FALSE
    Modes = {"connect3"}
    Slots = {}
    MaxAnswers = 2
INVARIANTS
    StoppedDiscards
CHECK_DEADLOCK FALSE
