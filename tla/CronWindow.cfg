\* Six ticks to the second; workers run scheduler tasks less than a second late.
CONSTANTS
    Second = 6
    Period = 24
    WindowSize = 18
    MaxDelay = 5
    MaxMinute = 5
    Cron = {0, 1, 3, 4, 5}
SPECIFICATION Spec
INVARIANT QueuedOnce
CHECK_DEADLOCK FALSE
