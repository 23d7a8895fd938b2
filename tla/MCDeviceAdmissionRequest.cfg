CONSTANTS
    player = player
    Attempts = {a1}
    Requests = {r1, r2}
    MaxChannels = 2
    NoChannel = 0
    Channels <- MCChannels
    Peers <- MCPeers
    PeerOf <- MCPeerOf
    ScopeIds <- MCScopeIds
    TransferIds = {"STAGE"}
    MaxScopes = 4
    MaxCampaign = 2
    MaxTransfers = 1
SPECIFICATION Spec
INVARIANTS
    OneActiveRequest
PROPERTIES
    ImplementsRequest
CHECK_DEADLOCK FALSE
