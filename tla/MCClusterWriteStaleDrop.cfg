CONSTANTS
    n1 = n1
    n2 = n2
    s1 = s1
    Nodes = {n1, n2}
    Self = n1
    Peer = n2
    Shards = {s1}
    Owners <- MCOwners
    WithDbrp = {TRUE, FALSE}
SPECIFICATION Spec
PROPERTY
    ImplementsShardWrite
CHECK_DEADLOCK FALSE
