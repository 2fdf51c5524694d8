\* deploy.sh alone on a fresh host on which nothing fails.
CONSTANTS
    Process = {s}
    Upgrade = {}
    NumTables = 2
    MaxRetry = 3
    MaxFaults = 0
    NoProcess = NoProcess
    Packages <- SomePackages
SPECIFICATION FreshSpec
INVARIANT ScriptCompletes
CHECK_DEADLOCK FALSE
