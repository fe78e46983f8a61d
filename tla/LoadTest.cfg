\* Two replicas that seed two sessions, a request that creates any of three, two
\* viewers; two events: faults, API calls or state writes of a worker.
CONSTANTS
    Absent = Absent
    r1 = r1
    r2 = r2
    p1 = p1
    Replicas = {r1, r2}
    Posts = {p1}
    Sids = {1, 2, 3}
    Bodies <- MCBodies
    File <- MCFile
    Faults = {"crash", "valkey", "lostreply"}
    MaxFaults = 1
    MaxEvents = 2
    NumViewers = 2
SPECIFICATION LoadSpec
SYMMETRY Symmetry
INVARIANTS
    CreatedOnce
    NoneForgotten
    EveryTalkWatched
    OnlyFaultsFail
    CountersAgree
PROPERTIES
    CreationIsOver
CHECK_DEADLOCK FALSE
