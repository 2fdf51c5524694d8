\* Recordings of three requests, of two replayed once, of one replayed twice.
CONSTANTS
    a = a
    b = b
    Task = {a, b}
    Offered <- MixedRequests
    Unasked <- LostRequest
    Null = Null
    MaxWork = 3
SPECIFICATION Spec
INVARIANTS ReplayTypeOK GroupBeginsWithOwnAck PunctualReplayMatches
PROPERTY SessionEnds
CHECK_DEADLOCK FALSE
