SPECIFICATION FairSpec
CONSTANTS
    alice = alice
    bob = bob
    Sender = {alice, bob}
    Row <- FiveRows
    Quiet <- TwoQuiet
    PageSize = 2
    BatchSize = 2
    MaxBatchBytes = 3
    RowBytes = {1, 4}
    Tries = 2
INVARIANTS
    PushIsAPlan
    BatchesFit
    FramesInOrder
PROPERTIES
    PushEnds
