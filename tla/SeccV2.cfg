CONSTANTS
    NoId = NoId
    NoTuple = NoTuple
    SessionIds = {i1, i2}
    Tuples = {t1, t2}
    SupportedAuth = {"EIM", "PNC"}
    Modes = {"AC", "DC"}
    CertInstall = TRUE
    MaxSessions = 2
SPECIFICATION Spec
INVARIANTS
    IsolatedBeforeCurrentDemand
    ChargingAsAgreed
    ContextNamesSession
PROPERTIES
    PaymentOptionSettled
    ImplementsSession
    SilentSessionEnds
CHECK_DEADLOCK FALSE
