SPECIFICATION FairSpec
CONSTANTS
    p1 = p1  p2 = p2  h1 = h1  s1 = s1  s2 = s2
    Hub = Hub  Nothing = Nothing
    Principals = {p1, p2}
    Spokes = {s1, s2}
    MixedSpokes = {}
    Home <- MCHome
    Kinds <- OneKind
    Calls = {c1, c2}
    TTL = 2
    StampsOrdered = TRUE
    MaxNow = 3  MaxSends = 3  MaxFaults = 1
 
PROPERTIES   PendingSettles
CHECK_DEADLOCK FALSE
