SPECIFICATION Spec
CONSTANTS
    Deployments = {d1}
    Executions = {e1, e2}
    Scans = {s1, s2}
    Modes <- MCModes
    Installations <- MCStepFunctions
    NoDeployment = NoDeployment
    Overlap = FALSE
    MaxFaults = 1
INVARIANTS
    AppliedIsVetted
CHECK_DEADLOCK FALSE
