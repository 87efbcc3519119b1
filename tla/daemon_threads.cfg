SPECIFICATION Spec
CONSTANTS
    Devices <- MCDevices
    Slots <- OneSlot
    CanGrab <- MCDevices
    Homes <- EveryPair
    User <- AllButKeys
    Faults <- Starting
    Keys <- NoKeys
    MaxQueue = 2
    NoDevice = NoDevice
    NoSlot = NoSlot
    NoPad = NoPad
    d1 = d1
    d2 = d2
    k1 = k1
    k2 = k2
INVARIANT DaemonTypeOK
INVARIANT ReadyHasController
PROPERTY TablesKept
PROPERTY OneReader
