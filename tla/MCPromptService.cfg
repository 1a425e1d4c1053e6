CONSTANTS
    None = None
    Prompts = {p1, p2}
    Probes = {b1}
    Models <- TwoModels
    Replies <- FullReplies
    MaxConnections = 1
SPECIFICATION Spec
INVARIANTS SuccessIsGenuine BlameIsRight NothingLeftPublished ShutdownIsInvisible
PROPERTIES PublishedWhenUsed NoCallOnceClosing ShutdownEnds AcceptedIsAnswered KeepsContract
CHECK_DEADLOCK FALSE
