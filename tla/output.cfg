SPECIFICATION Spec
CONSTANTS
    Buttons <- MCButtons
    PadAxes <- MCPadAxes
    DpadUp = 12
    DpadDown = 13
    DpadLeft = 14
    DpadRight = 15
    States <- MCStates
    Readers <- MCReaders
    Main = Main
    NoPad = NoPad
    r1 = r1
    r2 = r2
SYMMETRY Interchangeable
INVARIANT DeviceShowsLast
PROPERTY WriteCatchesUp
