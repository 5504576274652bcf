SPECIFICATION Spec
CONSTANTS
    EnableReconnect = TRUE
    UserRejects = TRUE
    Modes = {"connect3"}
    Slots = {2}
    MaxAnswers = 2
INVARIANTS
    ConnCbAtMostOnce
    OneLiveTransport
    ReconnectScheduled
    RetryFromReset
    WritesHaveTransport
CHECK_DEADLOCK FALSE
