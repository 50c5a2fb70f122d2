SPECIFICATION FairSpec
CONSTANTS
    Deployments = {d1}
    Executions = {e1}
    Scans = {s1, s2}
    Modes <- MCModes
    Installations <- MCInstallations
    NoDeployment = NoDeployment
    Overlap = TRUE
    MaxFaults = 2
INVARIANTS
    TypeOK
    EarlierStagesRecorded
    EndIsSettled
PROPERTIES
    ImplementsContract
    SettledStays
    ExecutionEnds
CHECK_DEADLOCK FALSE
