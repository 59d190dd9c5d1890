CONSTANTS
    NoId = NoId
    NoTuple = NoTuple
    NoService = NoService
    SessionIds = {i1}
    ACServices = {ac}
    DCServices = {dc}
    OtherServices = {vas}
    ValueAdded = {vas}
    BPT = {dc}
    Tuples = {t1, t2}
    Renegotiable = TRUE
    Standby = FALSE
SPECIFICATION Spec
INVARIANT LoopDelivers
CHECK_DEADLOCK FALSE
