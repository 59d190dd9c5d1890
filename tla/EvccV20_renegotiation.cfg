CONSTANTS
    Ids = {i1}
    ZeroId = ZeroId
    ACEnergy = {ac}
    DCEnergy = {dc}
    OtherEnergy = {wpt}
    NoEnergy = NoEnergy
    Schedules = {t1, t2}
    NoSchedule = NoSchedule
SPECIFICATION SpecEV
PROPERTY RenegotiationGoesOn
CHECK_DEADLOCK FALSE
