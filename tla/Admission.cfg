SPECIFICATION AdmissionSpec
CONSTANTS
    r1 = r1
    r2 = r2
    r3 = r3
    r4 = r4
    Requests = {r1, r2, r3, r4}
    NoOne = NoOne
    n1 = n1
    w1 = w1
    w2 = w2
    t1 = t1
    t2 = t2
    Native = {n1}
    Web = {w1, w2}
    AllowedOrigins = {w1}
    Procs <- MCProcs
    Firsts <- MCFirsts
    Tokens = {t1, t2}
    Grants <- MCGrants
    Offers <- MCOffers
    MaxConnections = 2
    MaxPerMinute = 1
    MaxPerHour = 2
    Minute = 2
    Hour = 5
    ConnectionTimeout = 2
    CleanEvery = 2
    CleanAfter = 3
    MaxTime = 3
    MaxEvents = 3
    d1 = d1
    d2 = d2
    d3 = d3
    Daemons = {d1, d2, d3}
    Nobody = Nobody
INVARIANTS ServingIsReachable
PROPERTIES NewestWins NewestLoads AdmittedAsGranted
CHECK_DEADLOCK FALSE
