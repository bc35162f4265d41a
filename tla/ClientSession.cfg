SPECIFICATION SubscriberSpec
CONSTANTS
    c1 = c1
    s1 = s1
    Calls = {c1}
    Streams = {s1}
    Need <- MCNeed
    Files <- MCFiles
    NoRecord = NoRecord
    NoTask = NoTask
    MaxFaults = 2
    MaxTokens = 4
    MaxAttempt = 1
    KEEPALIVE = 2
    IDLE = 4
    LATENCY = 1
    INITIAL = 10
    MAXDELAY = 15
    MaxBlocks = 2
    MaxAttempts = 2
INVARIANTS AsksForWhatItNeeds StreamIsRead
PROPERTIES SubscriptionHeals
\* A subscription that the user denied has ended.
CHECK_DEADLOCK FALSE
