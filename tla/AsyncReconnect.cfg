CONSTANTS
    j1 = j1  j2 = j2
    Job = {j1, j2}
    StreamLimit = 2  FirehoseLimit = 2
    MaxMs = 2
    Faults = {}
    MaxRetries = 1
    MaxEventCount = 2
    MaxCopies = 2
    PromptReply = TRUE
    ReadCount = 1
    MaxConnectRetries = 1
    MaxDrops = 1
    Warm = TRUE
    OpensFirst = TRUE
    Reloads = FALSE
SPECIFICATION WsSpec
INVARIANT ReconnectCatchesUp
CHECK_DEADLOCK FALSE
