SPECIFICATION InstallsSpec
CONSTANTS
    Jobs = {"a", "b", "c"}
    Keys = {"s", "path"}
    Sources = {"s", "t"}
    Names <- TheNames
    Versions = {1, 2}
    Key <- TheKey
    Source <- TheSource
    Name <- TheName
    Id <- TheName
    Version <- TheVersion
    Updates = {"a", "b"}
    Local = {"c"}
    Layouts <- TheLayouts
    c1 = c1
    c2 = c2
    Callers = {c1, c2}
    NoCaller = NoCaller
    NoIndex = NoIndex
    NoEtag = NoEtag
    MaxPublished = 2
    MaxClock = 2
    MaxFetches = 2
    Ttl = 1
    CacheFiles = {"missing", "bad", "good"}
    k1 = k1
    k2 = k2
    Checkers = {k1, k2}
    Nope = Nope
    Current = 2
    Beta = {2, 3}
    Newest = 4
    MaxChecks = 3
INVARIANTS SharedAnswersAreTrue
PROPERTIES LastCopySafe CompletedIsServed EveryKeyIsFreed
CHECK_DEADLOCK FALSE
