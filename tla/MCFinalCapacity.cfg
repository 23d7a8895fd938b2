CONSTANTS
    p1 = p1
    p2 = p2
    a = a
    b = b
    x = x
    None = None
    Players <- MCPlayers
    Copies <- MCCopies
    OwnerOf <- MCOwnerOf
    Blocked <- MCBlocked
    Capacities = {1, 2, 3}
    MaxChannels <- One
    MaxDecides <- One
    MaxReadies <- One
    MaxTimes = 1
    MaxRevision = 3
SPECIFICATION Spec
CHECK_DEADLOCK FALSE
INVARIANTS
    OccupiedPlacesFit
