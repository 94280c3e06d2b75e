SPECIFICATION Spec
CONSTANTS
    p1 = p1
    p2 = p2
    alice = alice
    bob = bob
    me = me
    Self = me
    Sender = {alice}
    Peer = {p1, p2}
    Row <- Alice2
    Quiet = {}
    PageSize = 1
    BatchSize = 1
    Verdict <- AllVerify
    MaxFloorSenders = 1
    MaxPushes = 3
    MaxNonce = 2
    Author <- AliceWrites
    Legacy = {p2}
    FirstRows <- EveryRow
    OwnRows = {}
    Faulty = {"close", "repeat", "stop", "throttle", "unsent", "timeout", "refuse", "commit", "skip"}
    MaxFaults = 1
INVARIANTS
    TypeOK
    HeldWhileUnsettled
    PushClaimsSkipNothing
    
PROPERTIES
    MarksNeverRegress
    OwedByOpenPushes
CHECK_DEADLOCK FALSE
