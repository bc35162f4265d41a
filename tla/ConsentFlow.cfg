SPECIFICATION FairSpec
CONSTANTS
    Requests <- TheRequests
    Keys = {"k1", "k2", "ours"}
    Wants <- TheWants
    Official = {"ours"}
    MayDisconnect = {"r1"}
    None = None
INVARIANTS OneDialog
PROPERTIES TokensAsAllowed EveryoneIsAnswered
\* Every request answered: the endpoint is at rest.
CHECK_DEADLOCK FALSE
