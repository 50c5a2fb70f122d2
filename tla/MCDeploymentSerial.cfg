SPECIFICATION Spec
CONSTANTS
    Deployments = {d1, d2}
    Approvers = {a1, a2}
    Editors = {e1}
    Versions <- MCVersions
    NoVersion <- MCNoVersion
    Modes <- MCModes
    Serial = TRUE
    MaxAborts = 2
SYMMETRY MCSymmetry
INVARIANTS
    TypeOK
    AppliedAtMostOnce
    ApplyIsVetted
PROPERTIES
    LiveMovesOnlyByMarkActive
    OutcomeIsFinal
CHECK_DEADLOCK FALSE
