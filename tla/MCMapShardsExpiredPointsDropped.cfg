CONSTANTS
    Writers = {w1}
    Times = {0, 1, 2, 3}
    Hashes = {0, 1, 2}
    Durations = {1, 4}
    MinTimes = {0, 1}
    MaxPoints = 2
    ShardsPerGroup = 2
SPECIFICATION Spec
INVARIANT
    ExpiredPointsDropped
