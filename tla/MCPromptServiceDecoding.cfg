CONSTANTS
    None = None
    Prompts = {p1}
    Probes = {b1}
    Models <- TwoModels
    Replies <- FullReplies
    MaxConnections = 1
SPECIFICATION Spec
INVARIANT UndecodableIsBadReply
CHECK_DEADLOCK FALSE
