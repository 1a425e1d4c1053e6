SPECIFICATION Spec
CONSTANTS
    None = None
    MaxCrashes = 2
INVARIANT
    CleansUp
PROPERTIES
    FailureIsTheTrees
    ComesBack
CHECK_DEADLOCK FALSE
