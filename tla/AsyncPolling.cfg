\* Two jobs whose events may share a page, one listener of which may come late;
\* workers that end without an event, results the cache drops, a stream that may be
\* trimmed to its last entry.
CONSTANTS
    j1 = j1  j2 = j2
    Job = {j1, j2}
    StreamLimit = 1  FirehoseLimit = 2
    MaxMs = 1
    Faults = {"timeout", "crash", "evict"}
    MaxRetries = 2
    MaxEventCount = 2
    MaxCopies = 2
    PromptReply = TRUE
SPECIFICATION FairSpec
INVARIANTS TypeOK NothingLost NoListenerLeak
PROPERTIES SettlesOnce KeepsPromise RetriesEnd
CHECK_DEADLOCK FALSE
