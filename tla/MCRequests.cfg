SPECIFICATION FairSpec
CONSTANTS
    Reqs = {r0, r1, r2}
    Notes = {n1}
    MaxConns = 2
    IdModulus = 4
    FirstId = 3
    Older = {r0}
    Keys = {0, 1, 2, 3}
    Hash <- MCHash
    Capacity = 2
INVARIANTS
    TypeOK
    ResponseIsOwn
    NotifyToldOnce
    ErrorIsFinal
    MapIsWaiting
    
PROPERTIES
    LostCallIsTold
CHECK_DEADLOCK FALSE
