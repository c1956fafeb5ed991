\* A connection that opens before the first request and lasts, a server that is
\* already reading; streams long enough never to be trimmed, so that every promise
\* must be kept.
CONSTANTS
    j1 = j1  j2 = j2
    Job = {j1, j2}
    StreamLimit = 2  FirehoseLimit = 2
    MaxMs = 2
    Faults = {"evict"}
    MaxRetries = 1
    MaxEventCount = 2
    MaxCopies = 2
    PromptReply = TRUE
    ReadCount = 1
    MaxConnectRetries = 1
    MaxDrops = 0
    Warm = TRUE
    OpensFirst = TRUE
    Reloads = TRUE
SPECIFICATION WsFairSpec
PROPERTY KeepsPromise
CHECK_DEADLOCK FALSE
