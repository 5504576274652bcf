SPECIFICATION Spec
CONSTANTS
    KeyLen = 1
    RouteLen <- MCRouteLen
    Defs <- MCDefs
    Peers <- MCPeers
    Configs <- MCConfigs
    Dirs <- MCDirs
    Shipped <- MCShipped
    ClientMsgs <- MCClientMsgs
    PeerMsgs <- MCPeerMsgs
    MaxReconnects = 6
    encode_sub <- MCEncode
    decode_sub <- MCDecode
    json_sub <- MCJsonLen
    carried_sub <- MCCarried
    known_sub <- MCKnown
    wide_sub <- MCWide
    Nested <- MCNested
INVARIANTS
    TypeOK
    DefinitionsInSync
    ClientMessageArrives
    PeerMessageArrives
PROPERTIES
    BaseDelayGrows
CHECK_DEADLOCK FALSE
