SPECIFICATION Spec
CONSTANTS
    Reqs = {r1}
    Notes = {}
    MaxConns = 2
    IdModulus = 4
    FirstId = 0
    Older = {}
    Keys = {0, 1, 2, 3}
    Hash <- MCHash
    Capacity = 2
INVARIANTS
    RequestToldOnce
CHECK_DEADLOCK FALSE
