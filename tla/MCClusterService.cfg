CONSTANTS
    c1 = c1
    c2 = c2
    sh1 = sh1
    Conns = {c1, c2}
    Shards = {sh1}
    Reqs <- MCServiceReqs
    MaxReqs = 1
SPECIFICATION Spec
INVARIANTS
    TypeOK
    AckedWritesStored
    CloseWaitsForHandlers
PROPERTIES
    CloseTerminates
    RequestsAnswered
CHECK_DEADLOCK FALSE
