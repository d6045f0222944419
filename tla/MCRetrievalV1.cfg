SPECIFICATION Spec
CONSTANTS
    Provider = {1, 2}
    Streaming = {1}
    Worker = {w1, w2}
    Total = 3
    MinShards = 2
    MaxAttempts = 2
    Holds <- OneHasAll
    NoTask = NoTask
    NoProvider = NoProvider
INVARIANT TypeOK
INVARIANT VerifiedStays
INVARIANT TasksAccounted
INVARIANT FailsForAReason
PROPERTY Returns
CHECK_DEADLOCK FALSE
