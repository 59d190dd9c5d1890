CONSTANTS
    NoId = NoId
    NoTuple = NoTuple
    NoService = NoService
    SessionIds = {i1}
    ACServices = {ac}
    DCServices = {dc}
    OtherServices = {wpt}
    ValueAdded = {}
    BPT = {}
    Tuples = {t1, t2}
    Renegotiable = TRUE
    Standby = FALSE
    Ids = {i1}
    ZeroId = NoId
    ACEnergy = {ac}
    DCEnergy = {dc}
    OtherEnergy = {wpt}
    NoEnergy = NoService
    Schedules = {t1, t2}
    NoSchedule = NoTuple
SPECIFICATION SpecLink
INVARIANTS
    EnabledInSession
    StopIsFinal
    RequestsFit
    AgreedInLoop
    PowerIntoVehicle
    SuccessAgreed
PROPERTIES
    WaitingEnds
    EndTogether
CHECK_DEADLOCK FALSE
