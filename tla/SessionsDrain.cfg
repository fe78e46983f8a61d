\* The real timing, no fault: the drain outlives the lease.
CONSTANTS
    w1 = w1
    w2 = w2
    NoOwner = NoOwner
    Workers = {w1, w2}
    Sids = {1}
    Faults = {}
    LeaseTtl = 10
    RenewEvery = 3
    DrainTimeout = 15
    Scan = 2
    MaxLog = 1
    MaxFaults = 0
    MaxOps = 0
    MaxEvents = 3
SPECIFICATION Spec
SYMMETRY Symmetry
INVARIANTS
    OneOwner
