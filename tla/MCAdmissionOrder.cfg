CONSTANTS
    player = player
    Attempts = {a1, a2}
    Requests = {r1}
    MaxChannels = 3
    NoChannel = 0
    Channels <- MCChannels
    Peers <- MCPeers
    PeerOf <- MCPeerOf
    ScopeIds <- MCScopeIds
    TransferIds = {"STAGE"}
    MaxScopes = 2
    MaxCampaign = 1
    MaxTransfers = 1
SYMMETRY MCSymmetry
SPECIFICATION OrderSpec
INVARIANTS
    TypeOK
    OrphansWereOvertaken
    PlayerNeverAheadOfHost
    CancelOutcomeIsTrue
    StageFollowsLease
    BeginNeverBinds
PROPERTIES
    OutcomesAreFinal
CHECK_DEADLOCK FALSE
