SPECIFICATION Spec
CONSTANTS
    p1 = p1
    p2 = p2
    alice = alice
    bob = bob
    me = me
    Self = me
    Sender = {alice}
    Peer = {p1}
    Row <- Alice3
    Quiet = {}
    PageSize = 3
    BatchSize = 1
    Verdict <- AllVerify
    MaxFloorSenders = 1
    MaxPushes = 2
    MaxNonce = 2
    Author <- AliceWrites
    Legacy = {}
    FirstRows <- EveryoneHasFirst
    OwnRows <- First
    Faulty = {"lose", "stop", "refuse"}
    MaxFaults = 2
INVARIANTS
    WatermarkMeansHeld
CHECK_DEADLOCK FALSE
