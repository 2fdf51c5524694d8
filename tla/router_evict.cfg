\* A table of one task (MAX_QUEUE_SIZE - 1): a task that is still running is
\* evicted by the next one, and its id submitted again by either client.  The
\* clock stays at 0: timestamps steer nothing that is checked here.
CONSTANTS
    a = a
    b = b
    TaskId = {a, b}
    Client = {p, q}
    Sn = {1, 2, 3}
    MaxQueueSize = 2
    Statuses = {"COMPILING", "COMPILED", "RUNNING", "SUCCESSED", "FAILED"}
    Removable = {}
    MaxTasks = 3
    Epoch = 0
    MaxTime = 0
    NoId = NoId
    Offered <- ValidTasks
    MaxRequests = 3
    Undecodable = {}
    Flaky = {}
    Slow = {}
    Watched = {}
SYMMETRY PermuteAll
SPECIFICATION Spec
INVARIANTS ResultToSubmitter UnfinishedHasThread AnswersInOrder
CHECK_DEADLOCK FALSE
