CONSTANTS
    Peers = {ev1, ev2}
    NoPeer = NoPeer
    EnforceTls = TRUE
    MaxSessions = 3
    MaxPackets = 2
SPECIFICATION Spec
INVARIANTS
    SomeoneResumes
    SessionOwnsHandler
    ResumesPausedOnly
PROPERTY DiscoveryReturns
CHECK_DEADLOCK FALSE
