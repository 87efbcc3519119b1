SPECIFICATION Spec
CONSTANTS
    Names <- MCNames
    Default = 2
    Shipped <- MCShipped
    Contents <- MCContents
    Fresh = fresh
    Foreign <- MCForeign
    Faults <- MCFaults
    Absent = Absent
    Torn = Torn
    fresh = fresh
    edited = edited
INVARIANT SavedIsLoaded
INVARIANT CrashCostsOneProfile
