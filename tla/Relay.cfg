SPECIFICATION FairSpec
CONSTANTS
    r = r  m = m  l = l
    Nodes = {r, m, l}
    Root = r
    Parent <- MCParent
    BatchLimit = 1  TurnBatches = 1
    RelayGrowth = {TRUE}
    LateCalls = {"accept"}
    MaxEvents = 2  MaxPurges = 1  MaxFaults = 1
INVARIANTS TypeOK OwnWorkKept NothingStuck
 
