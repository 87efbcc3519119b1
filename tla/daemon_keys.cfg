SPECIFICATION Spec
CONSTANTS
    Devices <- OneDevice
    Slots <- OneSlot
    CanGrab <- OneDevice
    Homes <- EveryPair
    User <- Playing
    Faults <- Starting
    Keys <- TwoKeys
    MaxQueue = 3
    NoDevice = NoDevice
    NoSlot = NoSlot
    NoPad = NoPad
    d1 = d1
    d2 = d2
    k1 = k1
    k2 = k2
INVARIANT NoKeySticks
INVARIANT ReadyHasController
