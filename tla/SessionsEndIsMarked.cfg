\* One worker whose translation task fails to publish.
CONSTANTS
    w1 = w1
    NoOwner = NoOwner
    Workers = {w1}
    Sids = {1}
    Faults = {"valkey"}
    LeaseTtl = 10
    RenewEvery = 3
    DrainTimeout = 15
    Scan = 2
    MaxLog = 2
    MaxFaults = 1
    MaxOps = 0
    MaxEvents = 3
SPECIFICATION Spec
PROPERTIES
    EndIsMarked
