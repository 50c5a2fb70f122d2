SPECIFICATION Spec
CONSTANTS
    Deployments = {d1, d2}
    Approvers = {a1}
    Editors = {}
    Versions <- MCVersions
    NoVersion <- MCNoVersion
    Modes <- MCAutomated
    Serial = FALSE
    MaxAborts = 0
PROPERTY LiveMovesOnlyByMarkActive
CHECK_DEADLOCK FALSE
