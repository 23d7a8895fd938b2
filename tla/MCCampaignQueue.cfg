CONSTANTS
    o1 = o1
    o2 = o2
    o3 = o3
    o4 = o4
    c1 = c1
    c2 = c2
    c3 = c3
    k1 = k1
    k2 = k2
    NoOp = NoOp
    Ops <- MCOps
    Channels <- MCChannels
    Campaigns <- MCCampaigns
    ChannelOf <- MCChannelOf
    CampaignOf <- MCCampaignOf
SPECIFICATION FairQueueSpec
INVARIANTS
    QueueTypeOK
    ExecutesInTurn
    PendingIsSeen
PROPERTIES
    EveryOpResolves
    QueueDrains
CHECK_DEADLOCK FALSE
