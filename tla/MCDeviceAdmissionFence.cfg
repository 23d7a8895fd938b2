CONSTANTS
    player = player
    Attempts = {a1}
    Requests = {r1}
    MaxChannels = 2
    NoChannel = 0
    Channels <- MCChannels
    Peers <- MCPeers
    PeerOf <- MCPeerOf
    ScopeIds <- MCScopeIds
    TransferIds = {"STAGE"}
    MaxScopes = 4
    MaxCampaign = 1
    MaxTransfers = 1
SPECIFICATION Spec
INVARIANTS
    FencedAbsenceIsFinal
CHECK_DEADLOCK FALSE
