SPECIFICATION Spec
CONSTANTS
    Peer = {1, 2}
    LeaseTime = 3
    Skew <- NoSkew
    MaxTime = 2
    MaxEpoch = 1
    StoreErrors = FALSE
    NoLease = NoLease
INVARIANT SingleRepairer
