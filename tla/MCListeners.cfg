SPECIFICATION FairSpec
CONSTANTS
    Threads = {app, worker}
    Cbs = {f, g}
    Heads = {1, 2}
    Items = {3, 4, 5}
    Keys = {"onA", "onB"}
    Hash <- MCHash
    Capacity = 2
INVARIANTS
    TypeOK
    QueuesWellFormed
    NothingLeaked
PROPERTIES
    ImplementsRegistry
    MutexReleased
CHECK_DEADLOCK FALSE
