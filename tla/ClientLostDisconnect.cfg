SPECIFICATION FairSpec
CONSTANTS
    EnableReconnect = TRUE
    UserRejects = FALSE
    Modes = {"connect3"}
    Slots = {2, 3}
    MaxAnswers = 1
PROPERTIES
    DisconnectStops
CHECK_DEADLOCK FALSE
