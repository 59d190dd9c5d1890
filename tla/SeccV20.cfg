CONSTANTS
    NoId = NoId
    NoTuple = NoTuple
    NoService = NoService
    SessionIds = {i1}
    ACServices = {ac}
    DCServices = {dc}
    OtherServices = {vas}
    ValueAdded = {vas}
    BPT = {}
    Tuples = {t1, t2}
    Renegotiable = TRUE
    Standby = FALSE
SPECIFICATION Spec
INVARIANTS
    DecidedBeforePower
    SelectionServed
    LoopAsAgreed
    CleanEnd
CHECK_DEADLOCK FALSE
