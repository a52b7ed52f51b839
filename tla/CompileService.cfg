CONSTANTS
    p1 = p1
    p2 = p2
    Handlers = {1, 2, 3}
    Projects = {p1, p2}
    NoProject = none
    NoWorker = 0
    Offered <- MCOffered
    TextBytes <- MCTextBytes
    MaxSources = 2
    MaxSourceBytes = 3
    MaxWorkers = 1
    MaxConcurrent = 1
    IdleTtl = 0
    MaxClock = 1
SPECIFICATION Spec
INVARIANT BuildExact
PROPERTY RequestsAnswered
CHECK_DEADLOCK FALSE
