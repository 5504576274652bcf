SPECIFICATION FairSpec
CONSTANTS
    Base = 2
    Types <- MCTypes
    Bodies <- MCBodies
    MaxSent = 2
INVARIANTS
    TypeOK
    DeliveredPrefix
    AlignedUnlessCut
PROPERTIES
    ImplementsStream
    EventuallyDelivered
CHECK_DEADLOCK FALSE
