SPECIFICATION Spec
CONSTANTS
  alice = alice
  bob = bob
  alice1 = alice1
  alice2 = alice2
  bob1 = bob1
  k1 = k1
  Peer = {alice, bob}
  Room = {"r"}
  Stream = {alice1, alice2, bob1}
  Key = {k1}
  MaxStreams = 2
  MaxTotal = 2
  Guaranteed = 1
  MaxRooms = 2
  MaxPeers = 2
  Depth = 2
  Movers = {alice, bob}
  MaxMoves = 2
  MaxFaults = 2
  PeerOf <- Owners
  KeysOf <- OneBucket
  MaxHeld <- Shares
CHECK_DEADLOCK FALSE
INVARIANTS NoGhosts CountersExact MembersLearn
SYMMETRY Reconnections
