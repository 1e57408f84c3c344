SPECIFICATION OneFairSpec
CONSTANTS
    p1 = p1  p2 = p2  i1 = i1  i2 = i2  s1 = s1  s2 = s2  q1 = q1  q2 = q2
    AllProjects = AllProjects  NoProject = NoProject  NoIssue = NoIssue
    Projects = {p1}
    Issues = {i1}
    Streamers = {s1}
    Pollers = {q1}
    Scope <- MCScope
    ChannelBuffer = 1  DrainCap = 1  LiveBatch = 1  PollLimit = 1
    MaxSeq = 4  MaxFaults = 1
PROPERTIES EventsReachFollowers 
