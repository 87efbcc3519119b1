SPECIFICATION Spec
CONSTANTS
    Keys <- MCKeys
    Digital <- MCDigital
    Axes <- MCAxes
    BindingLists <- MCBindingLists
    InjectActions <- MCInjected
    Buttons <- MCButtons
    PadAxes <- MCPadAxes
    DpadUp = 12
    DpadDown = 13
    DpadLeft = 14
    DpadRight = 15
    NoAction = NoAction
    NoList = NoList
    button = button
    axis = axis
INVARIANT TypeOK
INVARIANT RefcountExact
INVARIANT StateMatchesHeld
INVARIANT HeldFollowsBindings
INVARIANT LifecycleHonest
PROPERTY ResyncMatchesKeyboard
PROPERTY ImplementsPressedKeys
