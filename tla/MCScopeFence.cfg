CONSTANTS
    c1 = c1
    c2 = c2
    c3 = c3
    c4 = c4
    alice = alice
    bob = bob
    NoChannel = NoChannel
    Channels <- MCChannels
    Peers <- MCPeers
    PeerOf <- MCPeerOf
    ScopeIds = {s}
    TransferIds = {x}
    MaxScopes = 1
SPECIFICATION FenceSpec
INVARIANTS
    FenceTypeOK
    FencedStaysOut
    TransfersFollowLease
    TableBounded
PROPERTIES
    TakeoverRaisesGeneration
CHECK_DEADLOCK FALSE
