SPECIFICATION FairSpec
CONSTANTS
    Deployments = {d1, d2}
    Approvers = {a1}
    Editors = {}
    Versions <- MCVersions
    NoVersion <- MCNoVersion
    Modes <- MCModes
    Serial = FALSE
    MaxAborts = 0
INVARIANTS
    StatusMatchesLive
PROPERTIES
    ImplementsContract
    ApprovedGoesLive
    DeployingEnds
CHECK_DEADLOCK FALSE
