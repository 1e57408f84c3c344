SPECIFICATION Spec
CONSTANTS
    p1 = p1  p2 = p2  h1 = h1  s1 = s1  s2 = s2
    Hub = Hub  Nothing = Nothing
    Principals = {p1}
    Spokes = {s1}
    MixedSpokes = {s1}
    Home <- MCHome
    Kinds <- OneKind
    Calls = {c1, c2}
    TTL = 2
    StampsOrdered = TRUE
    MaxNow = 4  MaxSends = 4  MaxFaults = 1
SYMMETRY CallSymmetry
INVARIANTS ExpiresByHubTime
CHECK_DEADLOCK FALSE
