SPECIFICATION Spec
CONSTANTS
    p1 = p1
    p2 = p2
    s1 = s1
    s2 = s2
    Slot = {s1}
    Peer = {p1, p2}
    PeerLists <- Lists
    Size <- Sizes
    DataShards = 2
    ParityShards = 1
    MaxEvents = 3
PROPERTY AsksDifferentPeer
CHECK_DEADLOCK FALSE
