SPECIFICATION PostSaveSpec
CONSTANTS
    Characters = {c1, c2}
    CheckpointIds = {k1}
    Payloads = {p1}
    MaxRevision = 3
    None = None
    Windows = {w1, w2}
    Ids = {i1, i2, i3}
    Saved = Saved
    First = c1
    WizardImpacts <- OneStep
SYMMETRY Symmetry
CHECK_DEADLOCK FALSE
INVARIANTS PostSaveTypeOK RestoreCursorDeliverable PatchesAreSerial CursorOpensUnlessTorn CheckpointIsCurrent CountersAgree RevisionNamesSnapshot
PROPERTY FinalIsFrozen
