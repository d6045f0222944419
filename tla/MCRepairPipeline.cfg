SPECIFICATION Spec
CONSTANTS
    Peer = {p1, p2}
    DataShards = 2
    TotalShards = 3
    MaxFaults = 3
    None = None
INVARIANT TypeOK
INVARIANT FewFaultsKeepAll
INVARIANT FewFaultsKeepFile
PROPERTY CapableHeals
