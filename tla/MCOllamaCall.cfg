SPECIFICATION Spec
CONSTANTS
    None = None
    Infinite = Infinite
    Refused = Refused
    Calls = {c1, c2}
    Files <- MCFiles
    MaxWait = 5
    MaxPieces = 1
INVARIANTS
    TimeoutNamesItsField
    ConnectionsWithinLimits
PROPERTIES
    EveryCallEnds
CHECK_DEADLOCK FALSE
