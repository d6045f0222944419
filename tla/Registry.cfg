SPECIFICATION Spec
CONSTANTS
    Conn = {c1, c2}
    File = {f1}
    Provider = {p1, p2}
    TTL = 1
    Window = 1
    MaxTime = 3
    None = None
INVARIANT TypeOK
INVARIANT FoundWhileFresh
PROPERTY HandledOrBlocked
