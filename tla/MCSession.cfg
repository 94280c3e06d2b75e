SPECIFICATION Spec
CONSTANTS
    p1 = p1
    p2 = p2
    alice = alice
    bob = bob
    me = me
    Self = me
    Sender = {alice, bob, me}
    Peer = {p1}
    Row <- Three
    Quiet = {}
    PageSize = 3
    BatchSize = 1
    Verdict <- SomeBad
    MaxFloorSenders = 1
    MaxPushes = 1
    MaxNonce = 1
    Author <- AliceWrites
    Legacy = {}
    FirstRows <- AliceStarts
    OwnRows = {}
    Faulty = {"lock", "reload", "store", "commit", "copy", "expire"}
    MaxFaults = 1
INVARIANTS
    HeldWhileUnsettled
    PushClaimsSkipNothing
CHECK_DEADLOCK FALSE
