SPECIFICATION CSpec
CONSTANTS
    Units = {"pool"}
    Capacity = 2
    Items = 4
    Protos <- MCProtos
    Indices <- MCIndices
    MaxWrites = 3
    Threads = {1, 2, 3}
    FileNdx = {0, 1}
    Slots = {1, 2}
    RingCap = 3
    Workloads <- MCWorkloads
    Copiers = {c1, c2}
    Nobody = Nobody
    Limit = 4
    PoolSize = 2
    Adaptive = {1, 3}
    Calls = 3
    PoolCfgs <- MCPoolCfgs
    Arrivals <- MCArrivals
    Results = 5
    HotZone = 2
    SpillCfgs <- MCSpillCfgs
    Worlds <- MCWorlds
    BatchCap = 2
    MaxCohorts = 3
    Sessions <- AllSessions
    NFiles = 5
    Window = 2
    BufCap = 3
    Listeners = {1, 2}
    RelayCap = 1
    DaemonCfgs <- MCDaemonCfgs
INVARIANT HeadroomNeverLess
CHECK_DEADLOCK FALSE
