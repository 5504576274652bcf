SPECIFICATION Spec
CONSTANTS
    EnableReconnect = FALSE
    UserRejects = FALSE
    Modes = {"connect"}
    Slots = {}
    MaxAnswers = 2
INVARIANTS
    NoLostWakeup
CHECK_DEADLOCK FALSE
