CONSTANTS
    d1 = d1
    pause = pause
    resume = resume
    secret = secret
    cut = cut
    cut2 = cut2
    Initial = Initial
    None = None
    Channels = {c1}
    Devices <- MCDevices
    DeviceOf <- MCDeviceOf
    Commands = {pause, resume, secret, cut}
    Retries = {r1}
    KindOf <- MCKindOf
    TargetOf <- MCTargetOf
    MaxCalls = 2
SPECIFICATION FairSpec
PROPERTIES
    QuietReachesBoundary
INVARIANTS
    NothingStraddlesABoundary
