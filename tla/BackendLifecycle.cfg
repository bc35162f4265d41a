SPECIFICATION BackendsSpec
CONSTANTS
    h1 = h1
    h2 = h2
    Handles = {h1, h2}
    MaxSpawns = 4
    MaxLives = 2
    None = None
    c1 = c1
    c2 = c2
    Calls = {c1}
    Components <- TheComponents
    Packages <- ThePackages
    Settings <- TheSettings
    AllowedHosts <- TheAllowedHosts
    Targets <- TheTargets
    PIPE = 1
    MaxSaves = 2
    MaxChunks = 2
    Urls <- TheUrls
    SessionHosts <- TheAllowedHosts
    SessionUser = {}
    CONSUMER_INCOMING_CAPACITY = 2
    MaxFrames = 3
    p1 = p1
    p2 = p2
    Pids = {p1, p2}
    NoPid = NoPid
    MaxBoots = 3
    Digit <- Digits
    Letter <- Letters
    Launches <- TheLaunches
    Owners <- TheOwners
    RenderNodes <- TheRenderNodes
    SUN_PATH_MAX = 16
    DIGEST_LEN = 2
    MAX_INSTANCE_KEY = 9
    Hosts <- TheHosts
    Installs <- TheInstalls
    Declared <- TheDeclared
    Files <- TheFiles
    Languages <- TheLanguages
    EquivalentBases <- TheEquivalent
    Cues <- TheCues
    Buffer = 3
    Latencies = {0, 2, 7}
    SILENCE_PADDING = 3
    Flush = 3
    Poll = 1
    Grace = 8
    Late = 1
INVARIANTS HandleSpeaks NeverStranded Contained RelayInOrder ProcessesInHand StartsAsDecided CueIsHeard
PROPERTIES EveryCallEnds
\* Every handle dropped, every call answered: nothing more happens.
CHECK_DEADLOCK FALSE
