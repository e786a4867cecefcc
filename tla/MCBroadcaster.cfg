CONSTANTS
    c1 = c1
    c2 = c2
    f1 = f1
    Clients <- TwoClients
    Feeders <- OneFeeder
    ChanCap = 2
    InitCapacity = 3
    Capacities <- Sizes
    MaxChunks = 3
SPECIFICATION FairSpec
INVARIANTS TypeOK ChannelsInOrder GaplessJoinIfFits RegisteredAreOpen
PROPERTIES  EncoderNeverStalls HungUpAreRemoved
CHECK_DEADLOCK FALSE
