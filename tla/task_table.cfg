\* Four ids, at most two of them held at a time (MAX_QUEUE_SIZE - 1), four
\* submissions: ids are evicted and submitted again.  One id may be taken out by
\* remove_task, which no thread of the server calls; the clock advances once.
CONSTANTS
    a = a
    b = b
    c = c
    d = d
    TaskId = {a, b, c, d}
    Client = {p}
    Sn = {1}
    MaxQueueSize = 3
    Statuses = {"COMPILED"}
    Removable = {d}
    MaxTasks = 4
    Epoch = 1
    MaxTime = 2
SYMMETRY Permute
SPECIFICATION TMSpec
INVARIANTS QueueListsTable RefersToLatest TableBounded
PROPERTY EvictsOldestWhenFull
CHECK_DEADLOCK FALSE
