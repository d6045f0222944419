SPECIFICATION Spec
CONSTANTS
    p1 = p1
    p2 = p2
    s1 = s1
    s2 = s2
    Slot = {s1, s2}
    Peer = {p1, p2}
    PeerLists <- Lists
    Size <- Sizes
    DataShards = 1
    ParityShards = 1
    MaxEvents = 5
INVARIANT TypeOK
INVARIANT SuccessIsNamed
INVARIANT DownloadFailsForAReason
PROPERTY UploadStores
CHECK_DEADLOCK FALSE
SYMMETRY Alike
