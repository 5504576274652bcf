SPECIFICATION FairSpec
CONSTANTS
    EnableReconnect = FALSE
    UserRejects = FALSE
    Modes = {"connect", "connect2"}
    Slots = {}
    MaxAnswers = 2
INVARIANTS
    TypeOK
    ConnCbAtMostOnce
    ConnectOkIsConnected
    TornDownStaysDown
    NullTimerOnlyInFeed
    WatchdogArmed
    NothingLeaked
    HeartbeatAsAgreed
PROPERTIES
    DisconnectStops
    WaiterIsWoken
    HandshakeEnds
CHECK_DEADLOCK FALSE
