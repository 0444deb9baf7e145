CONSTANTS
    c1 = c1
    c2 = c2
    sh1 = sh1
    Conns = {c1}
    Shards = {sh1}
    Reqs <- MCAllReqs
    MaxReqs = 1
SPECIFICATION Spec
INVARIANT
    NoCrash
CHECK_DEADLOCK FALSE
