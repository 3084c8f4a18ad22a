CONSTANTS
    j1 = j1
    j2 = j2
    q1 = q1
    c1 = c1
    c2 = c2
    Main = Main
    None = None
    Jobs = {j1, j2}
    Queries = {q1}
    Calls = {c1, c2}
    Threads = 1
    PoolMax = 2
    MaxRetries = 2
    MaxWork = 1
SPECIFICATION FairSpec
INVARIANTS
    OnePool
    AloneThroughOwnClient
    NobodyWaits
PROPERTIES
    EveryTaskEnds
