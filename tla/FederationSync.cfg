SPECIFICATION FairSpec
CONSTANTS
    s1 = s1  s2 = s2  t1 = t1  t2 = t2
    Hub = Hub
    Spokes = {s1}
    Rank <- MCRank
    Issues = {1}  Founding = {1}
    Turns = {t1, t2}
    At <- AtOne
    Mode <- SyncAndPush
    PollLimit = 2
    Skew = 1
    MaxEdits = 2  MaxPurges = 1  MaxFaults = 1
INVARIANTS TypeOK EditsNeverLost RowsFollowLog Agreement
PROPERTY Settles
