CONSTANTS
    d1 = d1
    pause = pause
    resume = resume
    secret = secret
    cut = cut
    cut2 = cut2
    Initial = Initial
    None = None
    Channels = {c1, c2, c3}
    Devices <- MCDevices
    DeviceOf <- MCDeviceOf
    Commands = {cut, cut2}
    Retries = {r1, r2}
    KindOf <- MCKindOf
    TargetOf <- MCTargetOf
    MaxCalls = 1
SPECIFICATION Spec
INVARIANTS
    TypeOK
    NothingStraddlesABoundary
    EffectOnce
    SilentUntilRetry
    OpenGateIsCurrent
SYMMETRY MCSymmetry
