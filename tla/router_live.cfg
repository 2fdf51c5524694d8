\* Requests of every type, a table of one task (MAX_QUEUE_SIZE - 1) and fair
\* threads; p may disconnect or stop reading.
CONSTANTS
    a = a
    b = b
    TaskId = {a, b}
    Client = {p, q}
    Sn = {1, 2, 3}
    MaxQueueSize = 2
    Statuses = {"COMPILING", "COMPILED", "RUNNING", "SUCCESSED", "FAILED"}
    Removable = {}
    MaxTasks = 2
    Epoch = 1
    MaxTime = 1
    NoId = NoId
    Offered <- EveryType
    MaxRequests = 2
    Undecodable = {}
    Flaky = {p}
    Slow = {p}
    Watched = {}
SPECIFICATION FairSpec
PROPERTIES EveryRequestAnswered EveryTaskAnsweredOrEvicted
CHECK_DEADLOCK FALSE
