CONSTANTS
    UseTls = TRUE
    EnforceTls = TRUE
    Cycles = 2
    MaxRequests = 3
    MaxPackets = 3
SPECIFICATION Spec
INVARIANT OnlySecured
CHECK_DEADLOCK FALSE
