SPECIFICATION Spec
CONSTANTS
    t1 = t1
    t2 = t2
    Tab = {t1, t2}
    Frozen = {}
    Reading = {}
    MaxClaims = 2
    MaxFaults = 0
INVARIANTS
    OneNode
CHECK_DEADLOCK FALSE
