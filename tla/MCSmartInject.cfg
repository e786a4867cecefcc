CONSTANTS
    j1 = j1
    j2 = j2
    Channels <- TwoChannels
    Full = 1
    MaxLevel = 2
    Injects <- TwoInjects
    Requests <- Announcements
    Asked <- SomeLevels
    Operator = Operator
    NoOne = NoOne
    NoRequest = NoRequest
    MaxOps = 1
SPECIFICATION FairSpec
INVARIANTS TypeOK FreeFadersAreUp
PROPERTIES SharesFaders DucksEnd
CHECK_DEADLOCK FALSE
