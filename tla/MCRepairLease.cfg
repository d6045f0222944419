SPECIFICATION Spec
CONSTANTS
    Peer = {1, 2, 3}
    LeaseTime = 2
    Skew <- OneAhead
    MaxTime = 3
    MaxEpoch = 3
    StoreErrors = TRUE
    NoLease = NoLease
INVARIANT TypeOK
INVARIANT MutexUnlessRaced
PROPERTY StealOnlyUnseen
PROPERTY EpochFences
PROPERTY HeldByOne
