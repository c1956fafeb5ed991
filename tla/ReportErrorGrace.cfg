\* One execution at a time, and nothing goes wrong.
CONSTANTS
    w1 = w1
    Worker = {w1}
    Grace = 2
    Timeout = 1
    Retention = 3
    MaxAge = 4
    MaxQueued = 1
SPECIFICATION Spec
INVARIANT MailJustified
CHECK_DEADLOCK FALSE
