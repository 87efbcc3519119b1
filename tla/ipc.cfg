SPECIFICATION FairSpec
CONSTANTS
    Daemons <- MCDaemons
    NoDaemon = NoDaemon
    MaxCommands = 2
    MaxMishaps = 2
    d1 = d1
    d2 = d2
INVARIANTS
    SessionTypeOK
    InOrder
    ConfirmedIsKept
PROPERTIES
    SnapshotNeverGoesBack
    ImplementsAtMostOnce
    Reconnects
    StopsWhenTold
