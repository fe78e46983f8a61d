\* A viewer that falls behind reconnects and resumes.
CONSTANTS
    c1 = c1
    c2 = c2
    Clients = {c1, c2}
    Viewer = c1
    Hubs = {1, 2, 3}
    NoHub = NoHub
    ReplayFinals = 1
    Scan = 3
    MaxBacklog = 4
    QueueCap = 2
    TailMayFail = FALSE
    MaxLog = 4
SPECIFICATION Spec
SYMMETRY Symmetry
PROPERTIES
    NoGap
