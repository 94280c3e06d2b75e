SPECIFICATION FairSpec
CONSTANTS
    t1 = t1
    t2 = t2
    Tab = {t1, t2}
    Frozen = {t1}
    Reading = {t2}
    MaxClaims = 1
    MaxFaults = 1
INVARIANTS
    HolderKnows
PROPERTIES
    SeatKept
    SomeTabComesUp
    UseHereTakesTheSeat
CHECK_DEADLOCK FALSE
