SPECIFICATION Spec
CONSTANTS
    Devices <- TwoDevices
    Slots <- MCSlots
    CanGrab <- OneDevice
    Homes <- Contested
    Flaky <- OneDevice
    Names <- MCNames
    Keys <- MCKeys
    Actions <- MCActions
    Edited <- OneSlot
    Stored <- MCStored
    SaveFails = TRUE
    NoDevice = NoDevice
    NoSlot = NoSlot
    NoAction = NoAction
    NoCapture = NoCapture
    d1 = d1
    d2 = d2
    action = action
CONSTRAINT MovesOrEdits
INVARIANT TablesTypeOK
INVARIANT SlotAgreesWithDevice
INVARIANT ShownOnce
INVARIANT LeftoverIsHarmless
INVARIANT EmptySlotUnlocked
INVARIANT RestoredAsSaved
INVARIANT BindingsFollowProfile
INVARIANT NothingIsLost
INVARIANT ReleasedStaysReleased
PROPERTY ImplementsAssignmentRules
