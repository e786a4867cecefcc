CONSTANTS
    t1 = t1
    i1 = i1
    i2 = i2
    Tracks <- OneTrack
    Instants <- TwoInstants
    InstantChannels <- ChannelOne
    NoCall = NoCall
    MaxStarts = 1
    MaxResets = 0
SPECIFICATION FairSpec
INVARIANT NewestCanBeStopped
PROPERTY InstantsTakeTurns
