\* Two faults of any kind, one API call, talks that never end; no symmetry.
CONSTANTS
    w1 = w1
    w2 = w2
    NoOwner = NoOwner
    Workers = {w1, w2}
    Sids = {1}
    Faults = {"crash", "sigterm", "valkey", "stall", "lostreply", "setup"}
    LeaseTtl = 10
    RenewEvery = 3
    DrainTimeout = 15
    Scan = 2
    MaxLog = 0
    MaxFaults = 2
    MaxOps = 1
    MaxEvents = 3
SPECIFICATION FairSpec
PROPERTIES
    Failover
    StopTakesEffect
    ZombieEvicted
    ShutdownCompletes
