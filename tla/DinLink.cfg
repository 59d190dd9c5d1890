CONSTANTS
    NoId = NoId
    SessionIds = {i1, i2}
    Ids = {i1, i2}
    ZeroId = NoId
SPECIFICATION SpecLink
INVARIANTS
    PowerAfterTests
    EnabledInSession
    RequestsFit
    PowerIntoVehicle
PROPERTIES EveryWaitEnds ImplementsSession
CHECK_DEADLOCK FALSE
