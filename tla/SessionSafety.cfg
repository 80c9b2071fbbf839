CONSTANTS
    Requests = {r1, r2}
    Users = {u1}
    Worker = worker
    Providers = {p1}
    None = None
    NoEntry = NoEntry
    NoRow = NoRow
    Free = Free
    Timeout = 0
    PersistInterval = 0
    QueueCapacity = 1
    Codex = TRUE
    EvictionPossible = FALSE
    RepoMayFail = TRUE
    CrashPossible = TRUE
    MaxGeneration = 1
SPECIFICATION Spec
INVARIANTS TypeOK NoResurrectedRow NoResurrectedEntry
PROPERTIES MainStaysVisible
SYMMETRY Symmetry
