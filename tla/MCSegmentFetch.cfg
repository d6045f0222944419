SPECIFICATION Spec
CONSTANTS
    p1 = p1
    p2 = p2
    Provider = {p1, p2}
    Holds <- OneComplete
    DataShards = 2
    ParityShards = 1
    MaxAttempts = 2
    NoTask = NoTask
    NoProvider = NoProvider
INVARIANT TypeOK
INVARIANT TasksAccounted
INVARIANT ShortForAReason
PROPERTY FetchContract
CHECK_DEADLOCK FALSE
