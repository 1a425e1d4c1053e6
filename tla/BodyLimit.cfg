CONSTANTS
    MAX_REQUEST_BODY_BYTES = 3
    Sizes = {0, 1, 2, 4}
    MaxMessages = 5
SPECIFICATION Spec
CHECK_DEADLOCK FALSE
INVARIANTS
    BodyWithinLimit
    ReplayIsFaithful
    RejectedOnlyIfTooLong
    AppRunsOnWholeBody
PROPERTIES
    LoopEnds
