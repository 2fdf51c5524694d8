\* Two shells, two upgrades and one fault.
CONSTANTS
    Process = {s, t}
    Upgrade = {u, v}
    NumTables = 2
    MaxRetry = 2
    MaxFaults = 1
    NoProcess = NoProcess
    Packages <- SomePackages
SYMMETRY Permute
SPECIFICATION Spec
INVARIANTS DeployTypeOK OneMigrator InstalledMeansSchema ComposeUsable RunsWhatComposeNames PidFileTruth
CHECK_DEADLOCK FALSE
