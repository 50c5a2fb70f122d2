SPECIFICATION Spec
CONSTANTS
    Deployments = {d1}
    Approvers = {a1, a2}
    Editors = {}
    Versions <- MCVersions
    NoVersion <- MCNoVersion
    Modes <- MCManual
    Serial = FALSE
    MaxAborts = 0
INVARIANT AppliedAtMostOnce
CHECK_DEADLOCK FALSE
