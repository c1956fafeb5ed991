\* Two jobs, two lost connections or server restarts, a server that has not read
\* anything at first, XADDs that fail; the stream of all channels is trimmed to its
\* last entry, the channel's own never (four entries are all there can be).
CONSTANTS
    j1 = j1  j2 = j2
    Job = {j1, j2}
    StreamLimit = 4  FirehoseLimit = 1
    MaxMs = 1
    Faults = {"redis"}
    MaxRetries = 1
    MaxEventCount = 2
    MaxCopies = 2
    PromptReply = TRUE
    ReadCount = 1
    MaxConnectRetries = 1
    MaxDrops = 2
    Warm = FALSE
    OpensFirst = FALSE
    Reloads = FALSE
SPECIFICATION WsSpec
INVARIANTS WsTypeOK NoGapWhileConnected
PROPERTY SettlesOnce
SYMMETRY Symmetric
CHECK_DEADLOCK FALSE
