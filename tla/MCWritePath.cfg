CONSTANTS
    n1 = n1
    n2 = n2
    n3 = n3
    Nodes = {n1, n2, n3}
    Self = n1
    Owners <- MCOwners
    Shards <- MCShards
    Times = {0, 1}
    Hashes = {0, 1}
    Durations = {2}
    MinTimes = {1}
    MaxPoints = 2
    ShardsPerGroup = 2
SPECIFICATION Spec
INVARIANTS
    TypeOK
    RetainedPointsDurable
CHECK_DEADLOCK FALSE
