\* A proxy that starts before a busy simulator; requests without an answer.
CONSTANTS
    p = p
    q = q
    a = a
    b = b
    i = i
    Task = {a, b, i}
    StringIds = {a, b}
    SnRange = {0, 1}
    RequiresAuth = TRUE
    SlowThreshold = 0
    Null = Null
    Peer = {p, q}
    Offered <- MixedRequests
    HeldBefore = {b}
    Earlier <- ResultOfEarlier
    MaxSent = 2
    MaxClock = 2
SPECIFICATION Spec
INVARIANTS ProxyTypeOK StrayOnlyAfterLater ResponsesConserved RefusedIsFlagged SlowIsReal
CHECK_DEADLOCK FALSE
