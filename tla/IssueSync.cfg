SPECIFICATION FairSpec
CONSTANTS
    r1 = r1
    r2 = r2
    Nobody = Nobody
    Runs <- MCRuns
    Chunks = 2
    TTL = 2
    Horizon = 1
    PatchLife = 1
    MaxIncidents = 2
INVARIANTS
    TypeOK
    OneWriter
    CursorTruthful
PROPERTIES
    IntentKept
    InSync
CHECK_DEADLOCK FALSE
