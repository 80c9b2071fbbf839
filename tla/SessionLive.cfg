CONSTANTS
    Requests = {r1}
    Users = {u1}
    Worker = worker
    Providers = {p1}
    None = None
    NoEntry = NoEntry
    NoRow = NoRow
    Free = Free
    Timeout = 0
    PersistInterval = 0
    QueueCapacity = 1
    Codex = TRUE
    EvictionPossible = TRUE
    RepoMayFail = FALSE
    CrashPossible = FALSE
    MaxGeneration = 1
SPECIFICATION FairSpec
PROPERTY RequestsEnd
