SPECIFICATION Spec
CONSTANTS
    s1 = s1
    s2 = s2
    j1 = j1
    j2 = j2
    Session = {s1, s2}
    Joiner = {j1, j2}
    CodeOf <- HandedOut
    Mistyped = {}
    Locator = {"l"}
    Nobody = Nobody
    Uses = 1
    Spare = 1
    Batch = 2
    CreateTries = 2
    MaxFaults = 1
INVARIANTS
    UsesKept
    RunningIsRouted
    ShownIsHosted
PROPERTIES
    TransferCollected
    JoinersHeard
CHECK_DEADLOCK FALSE
