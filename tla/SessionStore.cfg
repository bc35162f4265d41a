SPECIFICATION FairSpec
CONSTANTS
    t1 = t1
    k1 = k1
    f1 = f1
    f2 = f2
    Tokens = {t1}
    Keys = {k1}
    Flushes = {f1, f2}
    MaxVersion = 2
    MaxFailures = 1
    MaxStops = 1
INVARIANTS LatestWins NoResurrection FlushIsDurable
PROPERTIES NeverReplacesUnread SavedInTheEnd
CHECK_DEADLOCK FALSE
