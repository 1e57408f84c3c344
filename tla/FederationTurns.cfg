SPECIFICATION Spec
CONSTANTS
    s1 = s1  s2 = s2  t1 = t1  t2 = t2
    Hub = Hub
    Spokes = {s1}
    Rank <- MCRank
    Issues = {1}  Founding = {1}
    Turns = {t1, t2}
    At <- AtOne
    Mode <- SyncAndPull
    PollLimit = 2
    Skew = 1
    MaxEdits = 1  MaxPurges = 0  MaxFaults = 1
INVARIANT RowsFollowLog
