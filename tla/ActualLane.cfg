SPECIFICATION MCSpec
CONSTANTS
    Task <- Calls3
    Key = {accounts, other}
    ProbeKey = accounts
    None = None
    Kinds = {"cached", "mutation", "projection", "sync", "probe"}
    MaxFillAttempts = 2
    Clients = {c1, c2}
    Sync = Sync
    MaxRequests = 4
    MaxSyncs = 2
INVARIANTS
    FreshWhenFree
    ReadYourWrites
    OneUserOfActual
    OrderlyShutdown
PROPERTY EveryWaitEnds
CHECK_DEADLOCK FALSE
