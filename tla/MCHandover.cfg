SPECIFICATION Spec
CONSTANTS
    t1 = t1
    t2 = t2
    Tab = {t1, t2}
    Frozen = {}
    Reading = {}
    MaxClaims = 1
    MaxFaults = 0
INVARIANTS
    ReleasedOnceDown
CHECK_DEADLOCK FALSE
