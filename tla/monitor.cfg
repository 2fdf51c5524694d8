\* Two tasks, a task beside an announcement, or two announcements to browsers.
CONSTANTS
    a = a
    b = b
    u = u
    v = v
    w = w
    Process = Process
    Chip = Chip
    Publisher = {a, b, Process, Chip}
    Task = {a, b}
    StringIds = {a, b}
    SnRange = {1}
    RequiresAuth = FALSE
    SlowThreshold = 5
    Null = Null
    Superconducting = TRUE
    Connection = {u, v, w}
    Workload <- Workloads
SYMMETRY Permute
SPECIFICATION Spec
INVARIANTS MonitorTypeOK WholeUnlessOverlap WarningNeedsTear MissedOnlyByChange
CHECK_DEADLOCK FALSE
