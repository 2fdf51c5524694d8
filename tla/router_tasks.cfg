\* Two submissions at a time to a table with room for both, under fair threads;
\* the clock advances once.
CONSTANTS
    a = a
    b = b
    TaskId = {a, b}
    Client = {p, q}
    Sn = {1, 2, 3}
    MaxQueueSize = 4
    Statuses = {"COMPILING", "COMPILED", "RUNNING", "SUCCESSED", "FAILED"}
    Removable = {}
    MaxTasks = 2
    Epoch = 1
    MaxTime = 2
    NoId = NoId
    Offered <- AnyTasks
    MaxRequests = 2
    Undecodable = {}
    Flaky = {}
    Slow = {}
    Watched = {a, b}
SPECIFICATION FairSpec
INVARIANTS RouterTypeOK PublishedInOrder SuccessIsVisible NoteTimeSane
PROPERTIES TMSpec ServiceLive
CHECK_DEADLOCK FALSE
