SPECIFICATION Spec
CONSTANTS
    p1 = p1  p2 = p2  h1 = h1  s1 = s1  s2 = s2
    Hub = Hub  Nothing = Nothing
    Principals = {p1, p2, h1}
    Spokes = {s1, s2}
    MixedSpokes = {s1}
    Home <- MCHome
    Kinds <- OneKind
    Calls = {c1, c2}
    TTL = 2
    StampsOrdered = FALSE
    MaxNow = 4  MaxSends = 3  MaxFaults = 1
SYMMETRY CallSymmetry
INVARIANT TypeOK
PROPERTY KeepsPromise
CHECK_DEADLOCK FALSE
