\* At most 20 events a millisecond: sequence numbers reach 19, the last id from
\* which increment_id still finds everything.
CONSTANTS
    MaxEventCount = 3
    StreamLimit = 4
    PerMs = 20
    MaxMs = 2
SPECIFICATION Spec
INVARIANT ResumesExactly
CHECK_DEADLOCK FALSE
