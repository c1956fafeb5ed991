\* Executions that may be killed, fail to be sent or be sent in
\* part; logs are pruned.
CONSTANTS
    w1 = w1
    Worker = {w1}
    Grace = 1
    Timeout = 1
    Retention = 1
    MaxAge = 2
    MaxQueued = 1
SPECIFICATION FairSpec
INVARIANTS TypeOK NagsSpaced WorkingMeansRunning
PROPERTY StallUnlocked
CHECK_DEADLOCK FALSE
