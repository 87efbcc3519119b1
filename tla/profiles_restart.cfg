SPECIFICATION RestartSpec
CONSTANTS
    Devices <- OneDevice
    Slots <- TwoSlots
    CanGrab <- OneDevice
    Homes <- EveryPair
    Flaky <- Nothing
    Names <- OneName
    Keys <- OneKey
    Actions <- OneAction
    Edited <- Nothing
    Stored <- NothingStored
    SaveFails = FALSE
    NoDevice = NoDevice
    NoSlot = NoSlot
    NoAction = NoAction
    NoCapture = NoCapture
    d1 = d1
    action = action
INVARIANT RestartKeepsSlots
