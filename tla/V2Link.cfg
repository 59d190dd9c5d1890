CONSTANTS
    NoId = NoId
    NoTuple = NoTuple
    SessionIds = {i1, i2}
    Tuples = {t1, t2}
    SupportedAuth = {"EIM", "PNC"}
    Modes = {"AC", "DC"}
    CertInstall = TRUE
    MaxSessions = 1
    Ids = {i1, i2}
    ZeroId = NoId
    Schedules = {t1, t2}
    NoSchedule = NoTuple
    MaxServices = 2
SPECIFICATION SpecLink
INVARIANTS
    EnabledInSession
    TimerOwn
    StopIsFinal
    NoSequenceError
    AgreedInLoop
    PowerIntoVehicle
    SuccessAgreed
PROPERTIES WaitingEnds EndTogether
CHECK_DEADLOCK FALSE
