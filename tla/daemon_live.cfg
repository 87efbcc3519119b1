SPECIFICATION FairSpec
CONSTANTS
    Devices <- MCDevices
    Slots <- TwoSlots
    CanGrab <- OneDevice
    Homes <- Contested
    User <- Releasing
    Faults <- Saving
    Keys <- NoKeys
    MaxQueue = 2
    NoDevice = NoDevice
    NoSlot = NoSlot
    NoPad = NoPad
    d1 = d1
    d2 = d2
    k1 = k1
    k2 = k2
PROPERTY UnlockedIsReleased
PROPERTY AssignedIsRead
PROPERTY LockedIsGrabbed
