CONSTANTS
    UseTls = TRUE
    EnforceTls = TRUE
    Cycles = 2
    MaxRequests = 3
    MaxPackets = 3
SPECIFICATION Spec
INVARIANTS
    OneThingPending
    RequestsBounded
PROPERTY DiscoveryEnds
CHECK_DEADLOCK FALSE
