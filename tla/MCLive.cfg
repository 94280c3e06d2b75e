SPECIFICATION FairSpec
CONSTANTS
    p1 = p1
    p2 = p2
    alice = alice
    bob = bob
    me = me
    Self = me
    Sender = {alice}
    Peer = {p1}
    Row <- Alice2
    Quiet = {}
    PageSize = 1
    BatchSize = 1
    Verdict <- AllVerify
    MaxFloorSenders = 1
    MaxPushes = 4
    MaxNonce = 2
    Author <- AliceWrites
    Legacy = {}
    FirstRows <- EveryRow
    OwnRows = {}
    Faulty = {"stop", "close", "refuse"}
    MaxFaults = 1
PROPERTIES
    EveryPushEnds
    EveryDigestAnswered
CHECK_DEADLOCK FALSE
