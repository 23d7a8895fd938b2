CONSTANTS
    p1 = p1
    p2 = p2
    a = a
    b = b
    x = x
    None = None
    Players <- MCPlayers
    Copies <- MCCopies
    OwnerOf <- MCOwnerOf
    Blocked <- MCBlocked
    Capacities = {2, 3}
    MaxChannels <- TwoOne
    MaxDecides <- TwoOne
    MaxReadies <- TwoOne
    MaxTimes = 1
    MaxRevision = 1
SPECIFICATION Spec
CHECK_DEADLOCK FALSE
INVARIANTS
    FinalTypeOK
    NoOrphanedDecision
    AbsenceIsFinal
    ReturnedSeatsAreFree
    StartedByConsent
