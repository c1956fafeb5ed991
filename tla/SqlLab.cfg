\* Two statements; a commit may show a tick late, which the buffer just covers, and
\* one tick of the clock is enough for a poll to ask from after a commit.
CONSTANTS
    Statements = 2
    MaxTime = 1
    MaxLag = 1
    Buffer = 1
    Ahead = 0
SPECIFICATION FairSpec
INVARIANTS TypeOK StopEndsWork KeyHasResults SuccessHasData
PROPERTIES ConclusionKept NoPollMisses PageSettles
CHECK_DEADLOCK FALSE
