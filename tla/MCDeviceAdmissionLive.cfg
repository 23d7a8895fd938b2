CONSTANTS
    player = player
    Attempts = {a1}
    Requests = {r1}
    MaxChannels = 3
    NoChannel = 0
    Channels <- MCChannels
    Peers <- MCPeers
    PeerOf <- MCPeerOf
    ScopeIds <- MCScopeIds
    TransferIds = {"STAGE"}
    MaxScopes = 4
    MaxCampaign = 1
    MaxTransfers = 1
SPECIFICATION FairSpec
PROPERTIES
    PendingResolves
CHECK_DEADLOCK FALSE
