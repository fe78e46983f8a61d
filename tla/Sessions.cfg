\* Two workers, one session, two faults of any kind or API calls.
CONSTANTS
    w1 = w1
    w2 = w2
    NoOwner = NoOwner
    Workers = {w1, w2}
    Sids = {1}
    Faults = {"crash", "sigterm", "valkey", "stall", "lostreply", "setup"}
    LeaseTtl = 10
    RenewEvery = 3
    DrainTimeout = 15
    Scan = 2
    MaxLog = 2
    MaxFaults = 2
    MaxOps = 2
    MaxEvents = 2
SPECIFICATION Spec
SYMMETRY Symmetry
INVARIANTS
    SingleProducer
    NoHole
    NoRepeat
    StopHolds
PROPERTIES
    ImplementsCaptions
