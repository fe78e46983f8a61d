\* Queues and backlogs of one entry, hubs that may fail to start; no symmetry.
CONSTANTS
    c1 = c1
    c2 = c2
    Clients = {c1, c2}
    Viewer = c1
    Hubs = {1, 2, 3}
    NoHub = NoHub
    ReplayFinals = 1
    Scan = 2
    MaxBacklog = 1
    QueueCap = 1
    TailMayFail = TRUE
    MaxLog = 3
SPECIFICATION FairSpec
INVARIANTS
    OneReader
    Ordered
PROPERTIES
    GapsExplained
    CatchesUp
    Served
