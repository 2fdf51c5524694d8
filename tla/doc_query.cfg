\* A task and a query for its status.
CONSTANTS
    a = a
    b = b
    TaskId = {a, b}
    Client = {p}
    Sn = {1, 2, 3}
    MaxQueueSize = 4
    Statuses = {"COMPILING", "COMPILED", "RUNNING", "SUCCESSED", "FAILED"}
    Removable = {}
    MaxTasks = 3
    Epoch = 1
    MaxTime = 1
    NoId = NoId
    Offered <- TaskAndQuery
    MaxRequests = 2
    Undecodable = {}
    Flaky = {}
    Slow = {}
    Watched = {a, b}
SPECIFICATION Spec
INVARIANT QueryFindsTask
CHECK_DEADLOCK FALSE
