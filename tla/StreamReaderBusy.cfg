\* A 21st event in one millisecond.
CONSTANTS
    MaxEventCount = 3
    StreamLimit = 4
    PerMs = 21
    MaxMs = 2
SPECIFICATION Spec
INVARIANT ResumesExactly
CHECK_DEADLOCK FALSE
