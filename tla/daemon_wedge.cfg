SPECIFICATION Spec
CONSTANTS
    Devices <- OneDevice
    Slots <- OneSlot
    CanGrab <- OneDevice
    Homes <- EveryPair
    User <- Commands
    Faults <- Grabbing
    Keys <- NoKeys
    MaxQueue = 2
    NoDevice = NoDevice
    NoSlot = NoSlot
    NoPad = NoPad
    d1 = d1
    d2 = d2
    k1 = k1
    k2 = k2
INVARIANT DaemonRuns
