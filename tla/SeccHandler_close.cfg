CONSTANTS
    Peers = {ev1, ev2}
    NoPeer = NoPeer
    EnforceTls = TRUE
    MaxSessions = 3
    MaxPackets = 2
SPECIFICATION Spec
INVARIANT CloseSessionHeard
CHECK_DEADLOCK FALSE
