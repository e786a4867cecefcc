CONSTANTS
    b1 = b1
    b2 = b2
    p1 = p1
    p2 = p2
    Broadcasters <- TwoBroadcasters
    NoBroadcaster = NoBroadcaster
    Peers <- TwoPeers
SPECIFICATION FairSpec
INVARIANTS TypeOK ClosedIsGone
PROPERTY EndedPeersLeave
