CONSTANTS
    n1 = n1
    n2 = n2
    n3 = n3
    s1 = s1
    s2 = s2
    Nodes = {n1, n2, n3}
    Self = n1
    Shards = {s1}
    Owners <- MCOwnersPair
    MaxCloses = 2
SPECIFICATION MCSpecAnyClose
INVARIANT
    NoDoubleClose
CHECK_DEADLOCK FALSE
