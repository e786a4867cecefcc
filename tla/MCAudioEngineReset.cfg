CONSTANTS
    t1 = t1
    i1 = i1
    i2 = i2
    Tracks <- OneTrack
    Instants <- OneInstant
    InstantChannels <- ChannelOne
    NoCall = NoCall
    MaxStarts = 2
    MaxResets = 1
SPECIFICATION Spec
PROPERTY EngineStopsForCause
