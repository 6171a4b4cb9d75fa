SPECIFICATION GSpec
CONSTANTS
    Tasks = {h1, h2}
    Users = {u1, u2}
    Contents = {c1, c2}
    JoinWindow = 1
    JoinThreshold = 2
    NewPerTen = 7
    FloodWindow = 1
    FloodThreshold = 2
    SimilarPerTen = 8
    SpamWindow = 1
    SpamThreshold = 2
    RaidExpiry = 1
    SweepEvery = 1
    MaxWait = 1
    MaxEvents = 3
    MaxTime = 4
    MaxContext = 2
INVARIANTS WindowsAreShort EachMessageCountsOnce RaidEnds
SYMMETRY Interchangeable
CHECK_DEADLOCK FALSE
